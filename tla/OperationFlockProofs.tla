------------------------- MODULE OperationFlockProofs -------------------------
(***************************************************************************)
(* The operation fence excludes, for any number of threads, processes and  *)
(* operations: mutual exclusion, the re-entrant table and the lease epoch; *)
(* and it implements the lock and the one-step fence its callers see.      *)
(***************************************************************************)
EXTENDS OperationFlock, TLAPS

Holds(t) == Inside(t) \/ pc[t] = "popped"

\* From flock() returning to LOCK_UN a thread has the file lock, and an entry of
\* a process names a thread of it that is inside on that lock.
HolderInv == \A t \in Threads : Holds(t) => kernel[LockOf[t]] = t
EntryInv ==
  \A p \in Processes, l \in Locks, t \in Threads :
    table[p][l].owner = t => Inside(t) /\ ProcessOf[t] = p /\ LockOf[t] = l

\* What a fence has read is still what the journal says.
ReadInv ==
  \A t \in Threads :
    read[t].busy => pc[t] \in {"in", "nested"} /\ read[t].value = epoch[LockOf[t]]

LockInv == TypeOK /\ HolderInv /\ EntryInv
IInv == LockInv /\ ReadInv /\ EpochCountsFences
-------------------------------------------------------------------------------
\* The file lock has one holder, so the invariant excludes.
LEMMA HolderExcludes ==
  ASSUME HolderInv
  PROVE  MutualExclusion
  BY DEF HolderInv, MutualExclusion, Holds

\* The inductive invariant holds initially.
LEMMA InitInv ==
  ASSUME FlockAssumption
  PROVE  Init => IInv
  BY DEF FlockAssumption, Init, IInv, LockInv, TypeOK, HolderInv, EntryInv, ReadInv,
         EpochCountsFences, PCs, Entries, NoEntry, Free, Idle, Holds, Inside

\* The parts of a step that touch the guard and the table keep their types.
LEMMA GuardType ==
  ASSUME FlockAssumption, TypeOK, NEW t \in Threads, Acquire(t) \/ Release(t)
  PROVE  guard' \in [Processes -> Entries]
  <1>1. ProcessOf[t] \in Processes /\ guard[ProcessOf[t]] \in Entries
    BY DEF FlockAssumption, TypeOK
  <1>2. CASE Acquire(t)
    BY <1>1, <1>2 DEF Acquire, TypeOK, Entries
  <1>3. CASE Release(t)
    <2>1. Free \in Entries
      BY DEF Free, Entries
    <2> DEFINE g == guard[ProcessOf[t]]
               r == IF g.depth <= 1 THEN Free ELSE [g EXCEPT !.depth = @ - 1]
    <2>2. r \in Entries
      BY <1>1, <2>1 DEF Entries
    <2>3. guard' = [guard EXCEPT ![ProcessOf[t]] = r]
      BY <1>3 DEF Release, Guard
    <2> HIDE DEF r
    <2> QED
      BY <1>1, <2>2, <2>3 DEF TypeOK
  <1> QED
    BY <1>2, <1>3

\* Writing an entry keeps the type of the table and every other entry.
LEMMA TableType ==
  ASSUME FlockAssumption, TypeOK, NEW t \in Threads, NEW e \in Entries, SetEntry(t, e)
  PROVE  /\ table' \in [Processes -> [Locks -> Entries]]
         /\ table'[ProcessOf[t]][LockOf[t]] = e
         /\ \A p \in Processes, l \in Locks :
              p # ProcessOf[t] \/ l # LockOf[t] => table'[p][l] = table[p][l]
  BY DEF FlockAssumption, TypeOK, SetEntry

\* What typing gives about a thread's process, lock and entry.
LEMMA EntryType ==
  ASSUME FlockAssumption, TypeOK, NEW t \in Threads
  PROVE  /\ ProcessOf[t] \in Processes /\ LockOf[t] \in Locks
         /\ Entry(t) \in Entries /\ NoEntry \in Entries
         /\ [owner |-> t, depth |-> 1] \in Entries
         /\ [owner |-> t, depth |-> Entry(t).depth + 1] \in Entries
         /\ Entry(t).depth > 1 => [Entry(t) EXCEPT !.depth = @ - 1] \in Entries
  <1>1. Entry(t) \in Entries
    BY DEF FlockAssumption, TypeOK, Entry
  <1> QED
    BY <1>1 DEF FlockAssumption, Entries, NoEntry

\* Every step keeps the types.
LEMMA TypeStep ==
  ASSUME FlockAssumption, TypeOK, [Next]_vars
  PROVE  TypeOK'
  <1> USE DEF TypeOK, PCs, Goto
  <1>1. ASSUME NEW t \in Threads, See(t) PROVE TypeOK'
    BY <1>1 DEF See
  <1>2. ASSUME NEW t \in Threads, Enter(t) PROVE TypeOK'
    <2>1. table' \in [Processes -> [Locks -> Entries]]
      BY <1>2, EntryType, TableType DEF Enter
    <2>2. guard' \in [Processes -> Entries]
      BY <1>2, GuardType DEF Enter
    <2>3. reentries' \in [Threads -> Nat]
      BY <1>2 DEF Enter
    <2>4. pc' \in [Threads -> PCs]
      BY <1>2 DEF Enter
    <2> QED
      BY <1>2, <2>1, <2>2, <2>3, <2>4 DEF Enter
  <1>3. ASSUME NEW t \in Threads, Locked(t) PROVE TypeOK'
    <2>1. table' \in [Processes -> [Locks -> Entries]]
      BY <1>3, EntryType, TableType DEF Locked
    <2>2. guard' \in [Processes -> Entries]
      BY <1>3, GuardType DEF Locked
    <2> QED
      BY <1>3, <2>1, <2>2, EntryType DEF Locked
  <1>4. ASSUME NEW t \in Threads, LeaveNested(t) PROVE TypeOK'
    <2>1. Entry(t).depth \in Nat
      BY EntryType DEF Entries
    <2>2. table' \in [Processes -> [Locks -> Entries]]
      <3>1. CASE Entry(t).depth <= 1
        BY <1>4, <3>1, EntryType, TableType DEF LeaveNested
      <3>2. CASE Entry(t).depth > 1
        BY <1>4, <2>1, <3>2, EntryType, TableType DEF LeaveNested
      <3> QED
        BY <2>1, <3>1, <3>2
    <2>3. guard' \in [Processes -> Entries]
      BY <1>4, GuardType DEF LeaveNested
    <2> QED
      BY <1>4, <2>2, <2>3 DEF LeaveNested
  <1>5. ASSUME NEW t \in Threads, Pop(t) PROVE TypeOK'
    <2>1. table' \in [Processes -> [Locks -> Entries]]
      BY <1>5, EntryType, TableType DEF Pop
    <2> QED
      BY <1>5, <2>1 DEF Pop
  <1>6. ASSUME NEW t \in Threads, Unlock(t) PROVE TypeOK'
    BY <1>6 DEF Unlock
  <1>7. ASSUME NEW t \in Threads, ReadEpoch(t) PROVE TypeOK'
    BY <1>7 DEF ReadEpoch, FlockAssumption
  <1>8. ASSUME NEW t \in Threads, WriteEpoch(t) PROVE TypeOK'
    BY <1>8 DEF WriteEpoch, Idle, FlockAssumption
  <1>9. ASSUME NEW p \in Processes, Die(p) PROVE TypeOK'
    <2>1. NoEntry \in Entries /\ Free \in Entries
      BY DEF NoEntry, Free, Entries
    <2> QED
      BY <1>9, <2>1 DEF Die, Idle
  <1>10. CASE UNCHANGED vars
    BY <1>10 DEF vars
  <1> QED
    BY <1>1, <1>2, <1>3, <1>4, <1>5, <1>6, <1>7, <1>8, <1>9, <1>10 DEF Next, Step

\* The pc of the other threads, and everything else they rely on, stays.
LEMMA PcStep ==
  ASSUME TypeOK, NEW t \in Threads, NEW l \in PCs, Goto(t, l)
  PROVE  pc'[t] = l /\ \A s \in Threads : s # t => pc'[s] = pc[s]
  BY DEF TypeOK, Goto

\* The file lock stays with the thread that is inside.
LEMMA HolderStep ==
  ASSUME FlockAssumption, LockInv, [Next]_vars
  PROVE  HolderInv'
  <1>0. TypeOK /\ HolderInv
    BY DEF LockInv
  <1> USE <1>0
  <1> USE DEF HolderInv, Holds, Inside, PCs
  <1>1. ASSUME NEW t \in Threads, See(t) PROVE HolderInv'
    BY <1>1, PcStep DEF See
  <1>2. ASSUME NEW t \in Threads, Enter(t) PROVE HolderInv'
    BY <1>2, PcStep DEF Enter
  <1>3. ASSUME NEW t \in Threads, Locked(t) PROVE HolderInv'
    <2>1. kernel'[LockOf[t]] = t /\ \A l \in Locks : l # LockOf[t] => kernel'[l] = kernel[l]
      BY <1>3, EntryType DEF Locked, TypeOK
    <2>2. \A s \in Threads : Holds(s) => LockOf[s] # LockOf[t]
      BY <1>3 DEF Locked, FlockAssumption
    <2> QED
      BY <1>3, <2>1, <2>2, PcStep, EntryType DEF Locked
  <1>4. ASSUME NEW t \in Threads, LeaveNested(t) PROVE HolderInv'
    BY <1>4, PcStep DEF LeaveNested
  <1>5. ASSUME NEW t \in Threads, Pop(t) PROVE HolderInv'
    BY <1>5, PcStep DEF Pop
  <1>6. ASSUME NEW t \in Threads, Unlock(t) PROVE HolderInv'
    <2>1. \A l \in Locks : l # LockOf[t] => kernel'[l] = kernel[l]
      BY <1>6 DEF Unlock, TypeOK
    <2>2. \A s \in Threads : s # t /\ Holds(s) => LockOf[s] # LockOf[t]
      BY <1>6 DEF Unlock
    <2> QED
      BY <1>6, <2>1, <2>2, PcStep, EntryType DEF Unlock
  <1>7. CASE UNCHANGED <<pc, kernel>>
    BY <1>7
  <1>8. ASSUME NEW p \in Processes, Die(p) PROVE HolderInv'
    BY <1>8, EntryType DEF Die, TypeOK
  <1> QED
    BY <1>1, <1>2, <1>3, <1>4, <1>5, <1>6, <1>7, <1>8
    DEF Next, Step, ReadEpoch, WriteEpoch, vars

\* The entries of the table stay with the threads that are inside.
LEMMA EntryStep ==
  ASSUME FlockAssumption, LockInv, [Next]_vars
  PROVE  EntryInv'
  <1>0. TypeOK /\ EntryInv
    BY DEF LockInv
  <1> USE <1>0
  <1> USE DEF EntryInv, Inside, PCs
  <1>1. ASSUME NEW t \in Threads, See(t) PROVE EntryInv'
    BY <1>1, PcStep DEF See
  <1>2. ASSUME NEW t \in Threads, NEW e \in Entries, SetEntry(t, e), NEW l \in PCs, Goto(t, l),
               e.owner = NoThread \/ (e.owner = t /\ l \in {"in", "again", "nested"}),
               Inside(t) => e.owner = NoThread \/ l \in {"in", "again", "nested"}
        PROVE  EntryInv'
    <2> SUFFICES ASSUME NEW p \in Processes, NEW k \in Locks, NEW s \in Threads,
                        table'[p][k].owner = s
                 PROVE  pc'[s] \in {"in", "again", "nested"} /\ ProcessOf[s] = p /\ LockOf[s] = k
      OBVIOUS
    <2>1. CASE p = ProcessOf[t] /\ k = LockOf[t]
      <3>1. s = e.owner
        BY <1>2, <2>1, TableType
      <3>2. s = t /\ l \in {"in", "again", "nested"}
        BY <1>2, <3>1 DEF FlockAssumption
      <3> QED
        BY <1>2, <2>1, <3>2, PcStep
    <2>2. CASE ~(p = ProcessOf[t] /\ k = LockOf[t])
      <3>1. table[p][k].owner = s
        BY <1>2, <2>2, TableType
      <3>2. s # t
        BY <2>2, <3>1
      <3> QED
        BY <1>2, <3>1, <3>2, PcStep
    <2> QED
      BY <2>1, <2>2
  <1>3. ASSUME NEW t \in Threads, Enter(t) PROVE EntryInv'
    <2>1. CASE pc[t] = "seen"
      BY <1>3, <2>1, PcStep DEF Enter
    <2>2. CASE pc[t] = "again"
      <3> DEFINE e == [owner |-> t, depth |-> Entry(t).depth + 1]
      <3>1. e \in Entries /\ e.owner = t
        BY EntryType
      <3>2. SetEntry(t, e) /\ Goto(t, "nested")
        BY <1>3, <2>2 DEF Enter
      <3> HIDE DEF e
      <3> QED
        BY <1>2, <3>1, <3>2
    <2> QED
      BY <1>3, <2>1, <2>2 DEF Enter
  <1>4. ASSUME NEW t \in Threads, Locked(t) PROVE EntryInv'
    <2> DEFINE e == [owner |-> t, depth |-> 1]
    <2>1. e \in Entries /\ e.owner = t
      BY EntryType
    <2>2. SetEntry(t, e) /\ Goto(t, "in")
      BY <1>4 DEF Locked
    <2> HIDE DEF e
    <2> QED
      BY <1>2, <2>1, <2>2
  <1>5. ASSUME NEW t \in Threads, LeaveNested(t) PROVE EntryInv'
    <2> DEFINE e == IF Entry(t).depth <= 1 THEN NoEntry ELSE [Entry(t) EXCEPT !.depth = @ - 1]
               l == IF Entry(t).depth <= 2 THEN "in" ELSE "nested"
    <2>1. Entry(t) \in Entries
      BY EntryType
    <2>2. e \in Entries
      BY <2>1, EntryType DEF Entries
    <2>3. e.owner \in {NoThread, Entry(t).owner}
      BY <2>1 DEF NoEntry, Entries
    <2>4. SetEntry(t, e) /\ Goto(t, l) /\ l \in {"in", "nested"}
      BY <1>5 DEF LeaveNested
    <2>5. Entry(t).owner = NoThread \/ Entry(t).owner = t
      <3>1. Inside(t) /\ ProcessOf[t] \in Processes /\ LockOf[t] \in Locks
        BY <1>5, EntryType DEF LeaveNested
      <3>2. kernel[LockOf[t]] = t
        BY <3>1 DEF LockInv, HolderInv, Holds
      <3>3. Entry(t).owner \in Threads =>
              Inside(Entry(t).owner) /\ LockOf[Entry(t).owner] = LockOf[t]
        BY <3>1 DEF Entry
      <3>4. Entry(t).owner \in Threads => kernel[LockOf[t]] = Entry(t).owner
        BY <3>3 DEF LockInv, HolderInv, Holds
      <3> QED
        BY <2>1, <3>2, <3>4 DEF Entries
    <2> HIDE DEF e, l
    <2> QED
      BY <1>2, <2>2, <2>3, <2>4, <2>5, SMTT(30)
  <1>6. ASSUME NEW t \in Threads, Pop(t) PROVE EntryInv'
    <2>1. NoEntry.owner = NoThread
      BY DEF NoEntry
    <2> QED
      BY <1>6, <1>2, <2>1, EntryType DEF Pop
  <1>7. ASSUME NEW t \in Threads, Unlock(t) PROVE EntryInv'
    BY <1>7, PcStep DEF Unlock
  <1>8. CASE UNCHANGED <<pc, table>>
    BY <1>8
  <1>9. ASSUME NEW p \in Processes, Die(p) PROVE EntryInv'
    <2>1. NoEntry.owner \notin Threads
      BY DEF NoEntry, FlockAssumption
    <2> SUFFICES ASSUME NEW q \in Processes, NEW l \in Locks, NEW s \in Threads,
                        table'[q][l].owner = s
                 PROVE  pc'[s] \in {"in", "again", "nested"} /\ ProcessOf[s] = q /\ LockOf[s] = l
      OBVIOUS
    <2>2. q # p
      BY <1>9, <2>1 DEF Die, TypeOK
    <2>3. table[q][l].owner = s
      BY <1>9, <2>2 DEF Die, TypeOK
    <2>4. Inside(s) /\ ProcessOf[s] = q /\ LockOf[s] = l
      BY <2>3
    <2>5. pc'[s] = pc[s]
      BY <1>9, <2>2, <2>4 DEF Die, TypeOK
    <2> QED
      BY <2>4, <2>5
  <1> QED
    BY <1>1, <1>3, <1>4, <1>5, <1>6, <1>7, <1>8, <1>9
    DEF Next, Step, ReadEpoch, WriteEpoch, vars

\* What a fence has read stays true until it writes: nobody else is inside.
LEMMA EpochStep ==
  ASSUME FlockAssumption, IInv, [Next]_vars
  PROVE  ReadInv' /\ EpochCountsFences'
  <1>0. TypeOK /\ HolderInv /\ ReadInv /\ EpochCountsFences
    BY DEF IInv, LockInv
  <1> USE <1>0
  <1> USE DEF ReadInv, EpochCountsFences, PCs
  <1>1. ASSUME NEW t \in Threads, NEW l \in PCs, Goto(t, l), ~read[t].busy,
               UNCHANGED <<epoch, read, fences>>
        PROVE  ReadInv' /\ EpochCountsFences'
    BY <1>1, PcStep
  <1>2. ASSUME NEW t \in Threads, ~read[t].busy,
               See(t) \/ Enter(t) \/ Locked(t) \/ LeaveNested(t) \/ Pop(t) \/ Unlock(t)
        PROVE  ReadInv' /\ EpochCountsFences'
    <2>1. UNCHANGED <<epoch, read, fences>>
      BY <1>2 DEF See, Enter, Locked, LeaveNested, Pop, Unlock
    <2>2. PICK l \in PCs : Goto(t, l)
      BY <1>2 DEF See, Enter, Locked, LeaveNested, Pop, Unlock
    <2> QED
      BY <1>1, <1>2, <2>1, <2>2
  <1>3. ASSUME NEW t \in Threads,
               See(t) \/ Enter(t) \/ Locked(t) \/ LeaveNested(t) \/ Pop(t) \/ Unlock(t)
        PROVE  ~read[t].busy
    BY <1>3 DEF See, Enter, Locked, LeaveNested, Pop, Unlock
  <1>4. ASSUME NEW t \in Threads, ReadEpoch(t) PROVE ReadInv' /\ EpochCountsFences'
    BY <1>4 DEF ReadEpoch, TypeOK
  <1>5. ASSUME NEW t \in Threads, WriteEpoch(t) PROVE ReadInv' /\ EpochCountsFences'
    <2>1. pc[t] \in {"in", "nested"} /\ read[t].value = epoch[LockOf[t]] /\ LockOf[t] \in Locks
      BY <1>5, EntryType DEF WriteEpoch
    <2>2. EpochCountsFences'
      BY <1>5, <2>1 DEF WriteEpoch, TypeOK
    <2>3. \A s \in Threads : s # t /\ read[s].busy => LockOf[s] # LockOf[t]
      BY <2>1, HolderExcludes DEF MutualExclusion, Inside
    <2>4. ~read'[t].busy /\ \A s \in Threads : s # t => read'[s] = read[s]
      BY <1>5 DEF WriteEpoch, Idle, TypeOK
    <2>5. \A l \in Locks : l # LockOf[t] => epoch'[l] = epoch[l]
      BY <1>5 DEF WriteEpoch, TypeOK
    <2>6. ReadInv'
      BY <1>5, <2>3, <2>4, <2>5, EntryType DEF WriteEpoch
    <2> QED
      BY <2>2, <2>6
  <1>6. ASSUME NEW p \in Processes, Die(p) PROVE ReadInv' /\ EpochCountsFences'
    BY <1>6 DEF Die, Idle, TypeOK
  <1>7. CASE UNCHANGED vars
    BY <1>7 DEF vars
  <1> QED
    BY <1>2, <1>3, <1>4, <1>5, <1>6, <1>7 DEF Next, Step

\* The inductive invariant of the fence.
THEOREM Invariance == Spec => []IInv
  <1>1. Init => IInv
    BY FlockAssumption, InitInv
  <1>2. IInv /\ [Next]_vars => IInv'
    BY FlockAssumption, TypeStep, HolderStep, EntryStep, EpochStep DEF IInv, LockInv
  <1> QED
    BY <1>1, <1>2, PTL DEF Spec

\* Type correctness.
THEOREM TypeCorrect == Spec => []TypeOK
  <1>1. IInv => TypeOK
    BY DEF IInv, LockInv
  <1> QED
    BY <1>1, Invariance, PTL

\* One thread at a time is inside the body of an operation, over any number of
\* processes and threads, with re-entry and killed processes.
THEOREM Exclusion == Spec => []MutualExclusion
  <1>1. IInv => MutualExclusion
    BY HolderExcludes DEF IInv, LockInv
  <1> QED
    BY <1>1, Invariance, PTL

\* Re-entry is granted only to the thread that holds the file lock.
THEOREM TableAgrees == Spec => []TableMatchesKernel
  <1>1. ASSUME IInv, NEW p \in Processes, NEW l \in Locks, table[p][l].owner # NoThread
        PROVE  kernel[l] = table[p][l].owner
    <2>1. table[p][l].owner \in Threads
      BY <1>1 DEF IInv, LockInv, TypeOK, Entries
    <2>2. Inside(table[p][l].owner) /\ LockOf[table[p][l].owner] = l
      BY <1>1, <2>1 DEF IInv, LockInv, EntryInv
    <2> QED
      BY <1>1, <2>1, <2>2 DEF IInv, LockInv, HolderInv, Holds
  <1>2. IInv => TableMatchesKernel
    BY <1>1 DEF TableMatchesKernel
  <1> QED
    BY <1>2, Invariance, PTL

\* Every fence entry gets a lease epoch of its own; no journal write is lost.
THEOREM LeasesCount == Spec => []EpochCountsFences
  <1>1. IInv => EpochCountsFences
    BY DEF IInv
  <1> QED
    BY <1>1, Invariance, PTL
-------------------------------------------------------------------------------
\* The file lock is held for the thread that took it, and the entry of a thread
\* that is inside counts its bodies.
KernelInv ==
  \A l \in Locks : kernel[l] # NoThread => Holds(kernel[l]) /\ LockOf[kernel[l]] = l
DepthInv ==
  \A t \in Threads : Inside(t) =>
    /\ Entry(t).owner = t /\ Entry(t).depth >= 1
    /\ pc[t] = "in" => Entry(t).depth = 1
    /\ pc[t] = "nested" => Entry(t).depth > 1

FenceInv == IInv /\ KernelInv /\ DepthInv

\* What a caller sees: the holder is the thread inside, at the depth of its entry.
Seen ==
  /\ Holder \in [Locks -> Threads \cup {NoThread}] /\ Level \in [Locks -> Nat]
  /\ \A l \in Locks, t \in Threads : Holder[l] = t <=> Inside(t) /\ LockOf[t] = l
  /\ \A l \in Locks : Holder[l] = NoThread => Level[l] = 0
  /\ \A t \in Threads : Inside(t) => Level[LockOf[t]] = Entry(t).depth

\* The file lock is freed only by the thread that took it.
LEMMA KernelStep ==
  ASSUME FlockAssumption, LockInv, KernelInv, [Next]_vars
  PROVE  KernelInv'
  <1>1. TypeOK /\ HolderInv
    BY DEF LockInv
  <1> USE DEF KernelInv, Holds, Inside, PCs
  <1>2. ASSUME NEW t \in Threads, NEW l \in PCs, Goto(t, l), kernel' = kernel,
               Holds(t) => l \in {"in", "again", "nested", "popped"}
        PROVE  KernelInv'
    <2> SUFFICES ASSUME NEW k \in Locks, kernel[k] # NoThread
                 PROVE  Holds(kernel[k])' /\ LockOf[kernel[k]] = k
      BY <1>2
    <2>1. kernel[k] \in Threads /\ Holds(kernel[k]) /\ LockOf[kernel[k]] = k
      BY <1>1 DEF TypeOK
    <2>2. pc'[kernel[k]] \in {"in", "again", "nested", "popped"}
      BY <1>1, <1>2, <2>1, PcStep
    <2> QED
      BY <1>2, <2>1, <2>2
  <1>3. ASSUME NEW t \in Threads,
               See(t) \/ Enter(t) \/ LeaveNested(t) \/ Pop(t)
        PROVE  KernelInv'
    <2>1. PICK l \in PCs : Goto(t, l) /\ (Holds(t) => l \in {"in", "again", "nested", "popped"})
      BY <1>3 DEF See, Enter, LeaveNested, Pop
    <2>2. kernel' = kernel
      BY <1>3 DEF See, Enter, LeaveNested, Pop
    <2> QED
      BY <1>2, <2>1, <2>2
  <1>4. ASSUME NEW t \in Threads, Locked(t) PROVE KernelInv'
    <2>1. kernel'[LockOf[t]] = t /\ \A l \in Locks : l # LockOf[t] => kernel'[l] = kernel[l]
      BY <1>1, <1>4, EntryType DEF Locked, TypeOK
    <2>2. pc'[t] = "in" /\ \A s \in Threads : s # t => pc'[s] = pc[s]
      BY <1>1, <1>4, PcStep DEF Locked
    <2> SUFFICES ASSUME NEW k \in Locks, kernel'[k] # NoThread
                 PROVE  pc'[kernel'[k]] \in {"in", "again", "nested", "popped"}
                        /\ LockOf[kernel'[k]] = k
      OBVIOUS
    <2>3. CASE k = LockOf[t]
      BY <2>1, <2>2, <2>3
    <2>4. CASE k # LockOf[t]
      <3>1. kernel'[k] = kernel[k] /\ kernel[k] \in Threads
        BY <1>1, <2>1, <2>4 DEF TypeOK
      <3>2. Holds(kernel[k]) /\ LockOf[kernel[k]] = k
        BY <3>1
      <3> QED
        BY <2>2, <2>4, <3>1, <3>2
    <2> QED
      BY <2>3, <2>4
  <1>5. ASSUME NEW t \in Threads, Unlock(t) PROVE KernelInv'
    <2>1. kernel'[LockOf[t]] = NoThread /\ \A l \in Locks : l # LockOf[t] => kernel'[l] = kernel[l]
      BY <1>1, <1>5, EntryType DEF Unlock, TypeOK
    <2>2. \A s \in Threads : s # t => pc'[s] = pc[s]
      BY <1>1, <1>5, PcStep DEF Unlock
    <2> SUFFICES ASSUME NEW k \in Locks, kernel'[k] # NoThread
                 PROVE  pc'[kernel'[k]] \in {"in", "again", "nested", "popped"}
                        /\ LockOf[kernel'[k]] = k
      OBVIOUS
    <2>3. k # LockOf[t] /\ kernel'[k] = kernel[k] /\ kernel[k] \in Threads
      BY <1>1, <2>1 DEF TypeOK
    <2>4. Holds(kernel[k]) /\ LockOf[kernel[k]] = k
      BY <2>3
    <2> QED
      BY <2>2, <2>3, <2>4
  <1>6. CASE UNCHANGED <<pc, kernel>>
    BY <1>6
  <1>7. ASSUME NEW p \in Processes, Die(p) PROVE KernelInv'
    BY <1>1, <1>7 DEF Die, TypeOK, FlockAssumption
  <1> QED
    BY <1>3, <1>4, <1>5, <1>6, <1>7 DEF Next, Step, ReadEpoch, WriteEpoch, vars

\* The entry counts the bodies of its thread.
LEMMA DepthStep ==
  ASSUME FlockAssumption, LockInv, DepthInv, [Next]_vars
  PROVE  DepthInv'
  <1>1. TypeOK /\ HolderInv
    BY DEF LockInv
  <1> USE DEF DepthInv, Inside, PCs
  <1>2. \A s, t \in Threads : Inside(s) /\ Inside(t) /\ LockOf[s] = LockOf[t] => s = t
    BY <1>1, HolderExcludes DEF MutualExclusion
  <1>3. ASSUME NEW t \in Threads, NEW l \in PCs, Goto(t, l), table' = table,
               l \notin {"in", "nested"}, Inside(t) \/ l # "again"
        PROVE  DepthInv'
    BY <1>1, <1>3, PcStep DEF Entry
  <1>4. ASSUME NEW t \in Threads, NEW l \in PCs, Goto(t, l), NEW e \in Entries, SetEntry(t, e),
               l \in {"in", "again", "nested"} => e.owner = t /\ e.depth >= 1,
               l = "in" => e.depth = 1, l = "nested" => e.depth > 1,
               kernel[LockOf[t]] \in {NoThread, t}
        PROVE  DepthInv'
    <2> SUFFICES ASSUME NEW s \in Threads, Inside(s)'
                 PROVE  /\ Entry(s)'.owner = s /\ Entry(s)'.depth >= 1
                        /\ pc'[s] = "in" => Entry(s)'.depth = 1
                        /\ pc'[s] = "nested" => Entry(s)'.depth > 1
      OBVIOUS
    <2>1. CASE s = t
      <3>1. Entry(t)' = e /\ pc'[t] = l
        BY <1>1, <1>4, TableType, PcStep DEF Entry
      <3> QED
        BY <1>4, <2>1, <3>1
    <2>2. CASE s # t
      <3>1. Inside(s) /\ pc'[s] = pc[s]
        BY <1>1, <1>4, <2>2, PcStep
      <3>2. LockOf[s] # LockOf[t]
        <4>1. kernel[LockOf[s]] = s
          BY <1>1, <3>1 DEF HolderInv, Holds
        <4> QED
          BY <1>4, <2>2, <4>1 DEF FlockAssumption
      <3>3. Entry(s)' = Entry(s)
        BY <1>1, <1>4, <3>2, TableType, EntryType DEF Entry
      <3> QED
        BY <3>1, <3>3
    <2> QED
      BY <2>1, <2>2
  <1>5. ASSUME NEW t \in Threads, Inside(t)
        PROVE  kernel[LockOf[t]] \in {NoThread, t} /\ Entry(t).depth \in Nat
    BY <1>1, <1>5, EntryType DEF HolderInv, Holds, Entries
  <1>6. ASSUME NEW t \in Threads, See(t) PROVE DepthInv'
    <2>1. PICK l \in {"seen", "again"} : Goto(t, l) /\ (Inside(t) \/ l # "again")
      BY <1>6 DEF See
    <2> QED
      BY <1>3, <1>6, <2>1 DEF See
  <1>7. ASSUME NEW t \in Threads, Enter(t) PROVE DepthInv'
    <2>1. CASE pc[t] = "seen"
      BY <1>3, <1>7, <2>1 DEF Enter
    <2>2. CASE pc[t] = "again"
      <3> DEFINE e == [owner |-> t, depth |-> Entry(t).depth + 1]
      <3>0. Entry(t).depth \in Nat /\ Entry(t).depth >= 1
        BY <1>5, <2>2
      <3>1. e \in Entries
        BY <1>1, EntryType
      <3>4. e.owner = t /\ e.depth = Entry(t).depth + 1
        OBVIOUS
      <3>5. e.depth >= 1 /\ e.depth > 1
        <4> DEFINE d == Entry(t).depth
        <4>1. d \in Nat /\ d >= 1
          BY <3>0
        <4> HIDE DEF d
        <4>2. d + 1 > 1 /\ d + 1 >= 1
          BY <4>1
        <4>3. e.depth = d + 1
          BY <3>4 DEF d
        <4> HIDE DEF e
        <4> QED
          BY <4>2, <4>3
      <3>2. SetEntry(t, e) /\ Goto(t, "nested")
        BY <1>7, <2>2 DEF Enter
      <3>3. kernel[LockOf[t]] \in {NoThread, t}
        BY <1>5, <2>2
      <3> HIDE DEF e
      <3> QED
        BY <1>4, <3>1, <3>2, <3>3, <3>4, <3>5
    <2> QED
      BY <1>7, <2>1, <2>2 DEF Enter
  <1>8. ASSUME NEW t \in Threads, Locked(t) PROVE DepthInv'
    <2> DEFINE e == [owner |-> t, depth |-> 1]
    <2>1. e \in Entries /\ e.owner = t /\ e.depth = 1
      BY <1>1, EntryType
    <2>2. SetEntry(t, e) /\ Goto(t, "in") /\ kernel[LockOf[t]] \in {NoThread, t}
      BY <1>8 DEF Locked
    <2> HIDE DEF e
    <2> QED
      BY <1>4, <2>1, <2>2
  <1>9. ASSUME NEW t \in Threads, LeaveNested(t) PROVE DepthInv'
    <2> DEFINE e == [Entry(t) EXCEPT !.depth = @ - 1]
               l == IF Entry(t).depth <= 2 THEN "in" ELSE "nested"
    <2>1. Entry(t).owner = t /\ Entry(t).depth > 1 /\ Entry(t).depth \in Nat
          /\ kernel[LockOf[t]] \in {NoThread, t}
      BY <1>5, <1>9 DEF LeaveNested
    <2>2. e \in Entries /\ e.owner = t /\ e.depth = Entry(t).depth - 1
      BY <1>1, <2>1, EntryType DEF Entries
    <2>3. SetEntry(t, e) /\ Goto(t, l)
      BY <1>9, <2>1 DEF LeaveNested
    <2>4. /\ l \in {"in", "nested"} /\ e.depth >= 1
          /\ l = "in" => e.depth = 1
          /\ l = "nested" => e.depth > 1
      BY <2>1, <2>2
    <2> HIDE DEF e, l
    <2> QED
      BY <1>4, <2>1, <2>2, <2>3, <2>4
  <1>10. ASSUME NEW t \in Threads, Pop(t) PROVE DepthInv'
    <2>1. SetEntry(t, NoEntry) /\ Goto(t, "popped") /\ kernel[LockOf[t]] \in {NoThread, t}
      BY <1>5, <1>10 DEF Pop
    <2>2. NoEntry \in Entries
      BY <1>1, EntryType
    <2> QED
      BY <1>4, <2>1, <2>2
  <1>11. ASSUME NEW t \in Threads, Unlock(t) PROVE DepthInv'
    BY <1>3, <1>11 DEF Unlock
  <1>12. CASE UNCHANGED <<pc, table>>
    BY <1>12 DEF Entry
  <1>13. ASSUME NEW p \in Processes, Die(p) PROVE DepthInv'
    <2> SUFFICES ASSUME NEW s \in Threads, Inside(s)'
                 PROVE  Inside(s) /\ pc'[s] = pc[s] /\ Entry(s)' = Entry(s)
      BY DEF Entry
    <2>1. pc'[s] = pc[s] /\ ProcessOf[s] # p
      BY <1>13 DEF Die
    <2>2. Entry(s)' = Entry(s)
      BY <1>1, <1>13, <2>1, EntryType DEF Die, Entry, TypeOK
    <2> QED
      BY <2>1, <2>2
  <1> QED
    BY <1>6, <1>7, <1>8, <1>9, <1>10, <1>11, <1>12, <1>13
    DEF Next, Step, ReadEpoch, WriteEpoch, vars

\* The kernel's lock and the table together tell who is inside and how deep.
LEMMA SeenIs ==
  ASSUME FlockAssumption, FenceInv
  PROVE  Seen
  <1>1. TypeOK /\ HolderInv /\ KernelInv /\ DepthInv
    BY DEF FenceInv, IInv, LockInv
  <1>2. \A l \in Locks, t \in Threads : Holder[l] = t <=> Inside(t) /\ LockOf[t] = l
    <2> SUFFICES ASSUME NEW l \in Locks, NEW t \in Threads
                 PROVE  Holder[l] = t <=> Inside(t) /\ LockOf[t] = l
      OBVIOUS
    <2>1. Holder[l] =
            IF kernel[l] # NoThread /\ Inside(kernel[l]) THEN kernel[l] ELSE NoThread
      BY DEF Holder
    <2>2. t # NoThread
      BY DEF FlockAssumption
    <2>3. Inside(t) /\ LockOf[t] = l => kernel[l] = t
      BY <1>1 DEF HolderInv, Holds
    <2>4. kernel[l] = t => LockOf[t] = l
      BY <1>1, <2>2 DEF KernelInv
    <2> QED
      BY <2>1, <2>2, <2>3, <2>4
  <1>3. Holder \in [Locks -> Threads \cup {NoThread}]
    BY <1>1 DEF Holder, TypeOK
  <1>4. ASSUME NEW t \in Threads, Inside(t)
        PROVE  Level[LockOf[t]] = Entry(t).depth
    <2>1. LockOf[t] \in Locks /\ Holder[LockOf[t]] = t /\ t # NoThread
      BY <1>2, <1>4 DEF FlockAssumption
    <2> QED
      BY <2>1 DEF Level, Entry
  <1>5. \A l \in Locks : Holder[l] = NoThread => Level[l] = 0
    BY DEF Level
  <1>6. \A l \in Locks : Level[l] \in Nat
    <2> SUFFICES ASSUME NEW l \in Locks, Holder[l] # NoThread
                 PROVE  Level[l] \in Nat
      BY <1>5
    <2>1. PICK t \in Threads : Holder[l] = t
      BY <1>3
    <2>2. Inside(t) /\ LockOf[t] = l
      BY <1>2, <2>1
    <2> QED
      BY <1>1, <1>4, <2>2, EntryType DEF Entries
  <1>7. Level \in [Locks -> Nat]
    BY <1>6 DEF Level
  <1> QED
    BY <1>2, <1>3, <1>4, <1>5, <1>7 DEF Seen

\* The same in the next state.
LEMMA SeenNext ==
  ASSUME FlockAssumption, FenceInv'
  PROVE  Seen'
  <1>1. TypeOK' /\ HolderInv' /\ KernelInv' /\ DepthInv'
    BY DEF FenceInv, IInv, LockInv
  <1>2. \A l \in Locks, t \in Threads : Holder'[l] = t <=> Inside(t)' /\ LockOf[t] = l
    <2> SUFFICES ASSUME NEW l \in Locks, NEW t \in Threads
                 PROVE  Holder'[l] = t <=> Inside(t)' /\ LockOf[t] = l
      OBVIOUS
    <2>1. Holder'[l] =
            IF kernel'[l] # NoThread /\ Inside(kernel[l])' THEN kernel'[l] ELSE NoThread
      BY DEF Holder
    <2>2. t # NoThread
      BY DEF FlockAssumption
    <2>3. Inside(t)' /\ LockOf[t] = l => kernel'[l] = t
      BY <1>1 DEF HolderInv, Holds
    <2>4. kernel'[l] = t => LockOf[t] = l
      BY <1>1, <2>2 DEF KernelInv
    <2> QED
      BY <2>1, <2>2, <2>3, <2>4
  <1>3. Holder' \in [Locks -> Threads \cup {NoThread}]
    BY <1>1 DEF Holder, TypeOK
  <1>4. ASSUME NEW t \in Threads, Inside(t)'
        PROVE  Level'[LockOf[t]] = Entry(t)'.depth
    <2>1. LockOf[t] \in Locks /\ Holder'[LockOf[t]] = t /\ t # NoThread
      BY <1>2, <1>4 DEF FlockAssumption
    <2> QED
      BY <2>1 DEF Level, Entry
  <1>5. \A l \in Locks : Holder'[l] = NoThread => Level'[l] = 0
    BY DEF Level
  <1>6. \A l \in Locks : Level'[l] \in Nat
    <2> SUFFICES ASSUME NEW l \in Locks, Holder'[l] # NoThread
                 PROVE  Level'[l] \in Nat
      BY <1>5
    <2>1. PICK t \in Threads : Holder'[l] = t
      BY <1>3
    <2>2. Inside(t)' /\ LockOf[t] = l
      BY <1>2, <2>1
    <2>3. Entry(t)' \in Entries
      BY <1>1 DEF TypeOK, Entry, FlockAssumption
    <2> QED
      BY <1>4, <2>2, <2>3 DEF Entries
  <1>7. Level' \in [Locks -> Nat]
    BY <1>6 DEF Level
  <1> QED
    BY <1>2, <1>3, <1>4, <1>5, <1>7 DEF Seen

\* A step of a thread shows nothing at the operations of others, and at its own
\* only whether the thread is inside, and how deep.
LEMMA ShowsOwn ==
  ASSUME FlockAssumption, FenceInv, FenceInv', NEW t \in Threads,
         \A s \in Threads : s # t => pc'[s] = pc[s],
         \A p \in Processes, l \in Locks :
           p # ProcessOf[t] \/ l # LockOf[t] => table'[p][l] = table[p][l],
         ~Inside(t) /\ ~Inside(t)' => table' = table
  PROVE  /\ \A l \in Locks : l # LockOf[t] => Holder'[l] = Holder[l] /\ Level'[l] = Level[l]
         /\ Inside(t) => Holder[LockOf[t]] = t /\ Level[LockOf[t]] = Entry(t).depth
         /\ Inside(t)' => Holder'[LockOf[t]] = t /\ Level'[LockOf[t]] = Entry(t)'.depth
         /\ Inside(t) /\ ~Inside(t)' =>
              Holder'[LockOf[t]] = NoThread /\ Level'[LockOf[t]] = 0
         /\ ~Inside(t) /\ Inside(t)' =>
              Holder[LockOf[t]] = NoThread /\ Level[LockOf[t]] = 0
         /\ ~Inside(t) /\ ~Inside(t)' =>
              Holder'[LockOf[t]] = Holder[LockOf[t]] /\ Level'[LockOf[t]] = Level[LockOf[t]]
  <1>1. Seen /\ Seen'
    BY SeenIs, SeenNext
  <1>2. \A s \in Threads : s # t => (Inside(s) <=> Inside(s)')
    BY DEF Inside
  <1>3. ASSUME NEW l \in Locks, l # LockOf[t] \/ (~Inside(t) /\ ~Inside(t)')
        PROVE  Holder'[l] = Holder[l] /\ Level'[l] = Level[l]
    <2>1. \A s \in Threads : Holder[l] = s <=> Holder'[l] = s
      BY <1>1, <1>2, <1>3 DEF Seen
    <2>2. Holder'[l] = Holder[l]
      BY <1>1, <2>1 DEF Seen
    <2>3. CASE Holder[l] = NoThread
      BY <1>1, <2>2, <2>3 DEF Seen
    <2>4. CASE Holder[l] # NoThread
      <3>1. PICK s \in Threads : Holder[l] = s
        BY <1>1, <2>4 DEF Seen
      <3>2. Inside(s) /\ Inside(s)' /\ LockOf[s] = l
        BY <1>1, <2>2, <3>1 DEF Seen
      <3>3. Level[l] = Entry(s).depth /\ Level'[l] = Entry(s)'.depth
        <4>1. Inside(s) => Level[LockOf[s]] = Entry(s).depth
          BY <1>1 DEF Seen
        <4>2. Inside(s)' => Level'[LockOf[s]] = Entry(s)'.depth
          BY <1>1 DEF Seen
        <4> QED
          BY <3>2, <4>1, <4>2
      <3>4. Entry(s)' = Entry(s)
        <4>1. CASE ~Inside(t) /\ ~Inside(t)'
          BY <4>1 DEF Entry
        <4>2. CASE l # LockOf[t]
          BY <3>2, <4>2 DEF Entry, FlockAssumption
        <4> QED
          BY <1>3, <4>1, <4>2
      <3> QED
        BY <2>2, <3>3, <3>4
    <2> QED
      BY <2>3, <2>4
  <1>4. LockOf[t] \in Locks
    BY DEF FlockAssumption
  <1>5. Inside(t) => Holder[LockOf[t]] = t /\ Level[LockOf[t]] = Entry(t).depth
    BY <1>1, <1>4 DEF Seen
  <1>6. Inside(t)' => Holder'[LockOf[t]] = t /\ Level'[LockOf[t]] = Entry(t)'.depth
    BY <1>1, <1>4 DEF Seen
  <1>7. Inside(t) /\ ~Inside(t)' => Holder'[LockOf[t]] = NoThread /\ Level'[LockOf[t]] = 0
    <2>1. \A s \in Threads : s # t => ~(Inside(t) /\ Inside(s) /\ LockOf[s] = LockOf[t])
      BY <1>1, <1>4 DEF Seen
    <2> QED
      BY <1>1, <1>2, <1>4, <2>1 DEF Seen
  <1>8. ~Inside(t) /\ Inside(t)' => Holder[LockOf[t]] = NoThread /\ Level[LockOf[t]] = 0
    <2>1. \A s \in Threads : s # t => ~(Inside(t)' /\ Inside(s)' /\ LockOf[s] = LockOf[t])
      BY <1>1, <1>4 DEF Seen
    <2> QED
      BY <1>1, <1>2, <1>4, <2>1 DEF Seen
  <1> QED
    BY <1>3, <1>4, <1>5, <1>6, <1>7, <1>8

\* A step that leaves a thread as far inside as it was shows nothing.
LEMMA ShowsNothing ==
  ASSUME FlockAssumption, FenceInv, FenceInv', NEW t \in Threads,
         \A s \in Threads : s # t => pc'[s] = pc[s],
         table' = table, Inside(t) <=> Inside(t)'
  PROVE  Holder' = Holder /\ Level' = Level
  <1>1. /\ \A l \in Locks : l # LockOf[t] => Holder'[l] = Holder[l] /\ Level'[l] = Level[l]
        /\ Inside(t) => Holder[LockOf[t]] = t /\ Level[LockOf[t]] = Entry(t).depth
        /\ Inside(t)' => Holder'[LockOf[t]] = t /\ Level'[LockOf[t]] = Entry(t)'.depth
        /\ ~Inside(t) /\ ~Inside(t)' =>
             Holder'[LockOf[t]] = Holder[LockOf[t]] /\ Level'[LockOf[t]] = Level[LockOf[t]]
    BY ShowsOwn
  <1>2. Entry(t)' = Entry(t)
    BY DEF Entry
  <1>3. Holder'[LockOf[t]] = Holder[LockOf[t]] /\ Level'[LockOf[t]] = Level[LockOf[t]]
    BY <1>1, <1>2
  <1>4. \A l \in Locks : Holder'[l] = Holder[l] /\ Level'[l] = Level[l]
    BY <1>1, <1>3
  <1>5. Seen /\ Seen'
    BY SeenIs, SeenNext
  <1> QED
    BY <1>4, <1>5 DEF Seen

\* The lock starts as its callers expect.
LEMMA PromisedInit ==
  ASSUME FlockAssumption, Init
  PROVE  Promised!Init
  <1>1. Holder = [l \in Locks |-> NoThread]
    BY DEF Init, Holder
  <1>2. Level = [l \in Locks |-> 0]
    BY <1>1 DEF Level
  <1> QED
    BY <1>1, <1>2 DEF Promised!Init, Init

\* Every step of the code is one step of the lock its callers see, or none.
LEMMA PromisedStep ==
  ASSUME FlockAssumption, FenceInv, FenceInv', [Next]_vars
  PROVE  [Promised!Next]_Promised!vars
  <1>1. TypeOK /\ HolderInv /\ DepthInv /\ ReadInv /\ Seen /\ Seen'
    BY SeenIs, SeenNext DEF FenceInv, IInv, LockInv
  <1>2. ASSUME Holder' = Holder, Level' = Level, epoch' = epoch
        PROVE  [Promised!Next]_Promised!vars
    BY <1>2 DEF Promised!vars
  <1>3. ASSUME NEW t \in Threads, NEW l \in PCs, Goto(t, l), NEW e \in Entries, SetEntry(t, e)
        PROVE  /\ pc'[t] = l /\ \A s \in Threads : s # t => pc'[s] = pc[s]
               /\ Entry(t)' = e
               /\ \A p \in Processes, k \in Locks :
                    p # ProcessOf[t] \/ k # LockOf[t] => table'[p][k] = table[p][k]
    BY <1>1, <1>3, PcStep, TableType DEF Entry
  <1>4. ASSUME NEW t \in Threads, See(t) \/ Unlock(t)
        PROVE  [Promised!Next]_Promised!vars
    <2>1. PICK l \in PCs : Goto(t, l) /\ (Inside(t) <=> l \in {"in", "again", "nested"})
      BY <1>4 DEF See, Unlock, PCs, Inside
    <2>2. table' = table /\ epoch' = epoch
      BY <1>4 DEF See, Unlock
    <2>3. pc'[t] = l /\ \A s \in Threads : s # t => pc'[s] = pc[s]
      BY <1>1, <2>1, PcStep
    <2>4. Holder' = Holder /\ Level' = Level
      BY <2>1, <2>2, <2>3, ShowsNothing DEF Inside
    <2> QED
      BY <1>2, <2>2, <2>4
  <1>5. ASSUME NEW t \in Threads, Enter(t)
        PROVE  [Promised!Next]_Promised!vars
    <2>1. CASE pc[t] = "seen"
      <3>1. table' = table /\ epoch' = epoch /\ Goto(t, "flock")
        BY <1>5, <2>1 DEF Enter
      <3>2. pc'[t] = "flock" /\ \A s \in Threads : s # t => pc'[s] = pc[s]
        BY <1>1, <3>1, PcStep DEF PCs
      <3>3. Holder' = Holder /\ Level' = Level
        BY <2>1, <3>1, <3>2, ShowsNothing DEF Inside
      <3> QED
        BY <1>2, <3>1, <3>3
    <2>2. CASE pc[t] = "again"
      <3> DEFINE e == [owner |-> t, depth |-> Entry(t).depth + 1]
      <3>1. e \in Entries /\ e.depth = Entry(t).depth + 1
        BY <1>1, EntryType
      <3>2. SetEntry(t, e) /\ Goto(t, "nested") /\ epoch' = epoch /\ "nested" \in PCs
        BY <1>5, <2>2 DEF Enter, PCs
      <3> HIDE DEF e
      <3>3. /\ pc'[t] = "nested" /\ \A s \in Threads : s # t => pc'[s] = pc[s]
            /\ Entry(t)' = e
            /\ \A p \in Processes, k \in Locks :
                 p # ProcessOf[t] \/ k # LockOf[t] => table'[p][k] = table[p][k]
        BY <1>3, <3>1, <3>2
      <3>4. Inside(t) /\ Inside(t)'
        BY <2>2, <3>3 DEF Inside
      <3>5. /\ \A l \in Locks : l # LockOf[t] => Holder'[l] = Holder[l] /\ Level'[l] = Level[l]
            /\ Holder[LockOf[t]] = t /\ Level[LockOf[t]] = Entry(t).depth
            /\ Holder'[LockOf[t]] = t /\ Level'[LockOf[t]] = Entry(t).depth + 1
        BY <3>1, <3>3, <3>4, ShowsOwn
      <3>6. Holder' = Holder /\ Level' = [Level EXCEPT ![LockOf[t]] = Level[LockOf[t]] + 1]
        BY <1>1, <3>5, EntryType DEF Seen
      <3>7. Promised!Again(t)
        BY <3>2, <3>5, <3>6 DEF Promised!Again
      <3> QED
        BY <3>7 DEF Promised!Next
    <2> QED
      BY <1>5, <2>1, <2>2 DEF Enter
  <1>6. ASSUME NEW t \in Threads, Locked(t)
        PROVE  [Promised!Next]_Promised!vars
    <2> DEFINE e == [owner |-> t, depth |-> 1]
    <2>1. e \in Entries /\ e.depth = 1
      BY <1>1, EntryType
    <2>2. SetEntry(t, e) /\ Goto(t, "in") /\ epoch' = epoch /\ pc[t] = "flock" /\ "in" \in PCs
      BY <1>6 DEF Locked, PCs
    <2> HIDE DEF e
    <2>3. /\ pc'[t] = "in" /\ \A s \in Threads : s # t => pc'[s] = pc[s]
          /\ Entry(t)' = e
          /\ \A p \in Processes, k \in Locks :
               p # ProcessOf[t] \/ k # LockOf[t] => table'[p][k] = table[p][k]
      BY <1>3, <2>1, <2>2
    <2>4. ~Inside(t) /\ Inside(t)'
      BY <2>2, <2>3 DEF Inside
    <2>5. /\ \A l \in Locks : l # LockOf[t] => Holder'[l] = Holder[l] /\ Level'[l] = Level[l]
          /\ Holder[LockOf[t]] = NoThread
          /\ Holder'[LockOf[t]] = t /\ Level'[LockOf[t]] = 1
      BY <2>1, <2>3, <2>4, ShowsOwn
    <2>6. Holder' = [Holder EXCEPT ![LockOf[t]] = t] /\ Level' = [Level EXCEPT ![LockOf[t]] = 1]
      BY <1>1, <2>5 DEF Seen
    <2>7. Promised!Take(t)
      BY <2>2, <2>5, <2>6 DEF Promised!Take
    <2> QED
      BY <2>7 DEF Promised!Next
  <1>7. ASSUME NEW t \in Threads, LeaveNested(t)
        PROVE  [Promised!Next]_Promised!vars
    <2> DEFINE e == [Entry(t) EXCEPT !.depth = @ - 1]
               l == IF Entry(t).depth <= 2 THEN "in" ELSE "nested"
    <2>1. Inside(t) /\ Entry(t).depth > 1 /\ Entry(t) \in Entries /\ Entry(t).depth \in Nat
      BY <1>1, <1>7, EntryType DEF LeaveNested, DepthInv, Inside, Entries
    <2>2. e \in Entries /\ e.depth = Entry(t).depth - 1
      BY <1>1, <2>1, EntryType DEF Entries
    <2>3. SetEntry(t, e) /\ Goto(t, l) /\ epoch' = epoch
      BY <1>7, <2>1 DEF LeaveNested
    <2>4. l \in {"in", "nested"} /\ l \in PCs
      BY DEF PCs
    <2> HIDE DEF e, l
    <2>5. /\ pc'[t] = l /\ \A s \in Threads : s # t => pc'[s] = pc[s]
          /\ Entry(t)' = e
          /\ \A p \in Processes, k \in Locks :
               p # ProcessOf[t] \/ k # LockOf[t] => table'[p][k] = table[p][k]
      BY <1>3, <2>2, <2>3, <2>4
    <2>6. Inside(t)'
      BY <2>4, <2>5 DEF Inside
    <2>7. /\ \A k \in Locks : k # LockOf[t] => Holder'[k] = Holder[k] /\ Level'[k] = Level[k]
          /\ Holder[LockOf[t]] = t /\ Level[LockOf[t]] = Entry(t).depth
          /\ Holder'[LockOf[t]] = t /\ Level'[LockOf[t]] = Entry(t).depth - 1
      BY <2>1, <2>2, <2>5, <2>6, ShowsOwn
    <2>8. Holder' = Holder /\ Level' = [Level EXCEPT ![LockOf[t]] = Level[LockOf[t]] - 1]
      BY <1>1, <2>7, EntryType DEF Seen
    <2>9. Promised!Back(t)
      BY <2>1, <2>3, <2>7, <2>8 DEF Promised!Back
    <2> QED
      BY <2>9 DEF Promised!Next
  <1>8. ASSUME NEW t \in Threads, Pop(t)
        PROVE  [Promised!Next]_Promised!vars
    <2>1. Inside(t) /\ Entry(t).depth = 1
      BY <1>1, <1>8 DEF Pop, DepthInv, Inside
    <2>2. SetEntry(t, NoEntry) /\ Goto(t, "popped") /\ epoch' = epoch /\ "popped" \in PCs
          /\ NoEntry \in Entries
      BY <1>1, <1>8, EntryType DEF Pop, PCs
    <2>3. /\ pc'[t] = "popped" /\ \A s \in Threads : s # t => pc'[s] = pc[s]
          /\ \A p \in Processes, k \in Locks :
               p # ProcessOf[t] \/ k # LockOf[t] => table'[p][k] = table[p][k]
      BY <1>3, <2>2
    <2>4. ~Inside(t)'
      BY <2>3 DEF Inside
    <2>5. /\ \A l \in Locks : l # LockOf[t] => Holder'[l] = Holder[l] /\ Level'[l] = Level[l]
          /\ Holder[LockOf[t]] = t /\ Level[LockOf[t]] = 1
          /\ Holder'[LockOf[t]] = NoThread /\ Level'[LockOf[t]] = 0
      BY <2>1, <2>3, <2>4, ShowsOwn
    <2>6. /\ Holder' = [Holder EXCEPT ![LockOf[t]] = NoThread]
          /\ Level' = [Level EXCEPT ![LockOf[t]] = 0]
      BY <1>1, <2>5 DEF Seen
    <2>7. Promised!Leave(t)
      BY <2>2, <2>5, <2>6 DEF Promised!Leave
    <2> QED
      BY <2>7 DEF Promised!Next
  <1>9. ASSUME NEW t \in Threads, ReadEpoch(t)
        PROVE  [Promised!Next]_Promised!vars
    <2>1. pc' = pc /\ table' = table /\ epoch' = epoch
      BY <1>9 DEF ReadEpoch
    <2>2. Holder' = Holder /\ Level' = Level
      BY <2>1, ShowsNothing DEF Inside
    <2> QED
      BY <1>2, <2>1, <2>2
  <1>10. ASSUME NEW t \in Threads, WriteEpoch(t)
         PROVE  [Promised!Next]_Promised!vars
    <2>1. pc' = pc /\ table' = table /\ epoch' = [epoch EXCEPT ![LockOf[t]] = read[t].value + 1]
      BY <1>10 DEF WriteEpoch
    <2>2. Holder' = Holder /\ Level' = Level
      BY <2>1, ShowsNothing DEF Inside
    <2>3. pc[t] \in {"in", "nested"} /\ read[t].value = epoch[LockOf[t]]
      BY <1>1, <1>10 DEF WriteEpoch, ReadInv
    <2>4. Holder[LockOf[t]] = t
      BY <1>1, <2>3, EntryType DEF Seen, Inside
    <2>5. Promised!Fence(t)
      BY <2>1, <2>2, <2>3, <2>4 DEF Promised!Fence
    <2> QED
      BY <2>5 DEF Promised!Next
  <1>11. ASSUME NEW p \in Processes, Die(p)
         PROVE  [Promised!Next]_Promised!vars
    <2> DEFINE Lost == {l \in Locks : Holder[l] \in Threads /\ ProcessOf[Holder[l]] = p}
    <2>1. /\ \A s \in Threads : pc'[s] = IF ProcessOf[s] = p THEN "dead" ELSE pc[s]
          /\ \A q \in Processes : q # p => table'[q] = table[q]
          /\ epoch' = epoch
      BY <1>1, <1>11 DEF Die, TypeOK
    <2>2. \A s \in Threads : Inside(s)' <=> Inside(s) /\ ProcessOf[s] # p
      BY <2>1 DEF Inside
    <2>3. ASSUME NEW l \in Locks, l \in Lost
          PROVE  Holder'[l] = NoThread /\ Level'[l] = 0
      <3>1. PICK s \in Threads : Holder[l] = s /\ ProcessOf[s] = p
        BY <2>3
      <3>2. \A u \in Threads : Inside(u) /\ LockOf[u] = l => u = s
        BY <1>1, <3>1 DEF Seen
      <3>3. \A u \in Threads : Holder'[l] # u
        BY <1>1, <2>2, <3>1, <3>2 DEF Seen
      <3> QED
        BY <1>1, <3>3 DEF Seen
    <2>4. ASSUME NEW l \in Locks, l \notin Lost
          PROVE  Holder'[l] = Holder[l] /\ Level'[l] = Level[l]
      <3>1. CASE Holder[l] = NoThread
        <4>1. \A u \in Threads : ~(Inside(u) /\ LockOf[u] = l)
          BY <1>1, <3>1 DEF Seen, FlockAssumption
        <4>2. \A u \in Threads : Holder'[l] # u
          BY <1>1, <2>2, <4>1 DEF Seen
        <4> QED
          BY <1>1, <3>1, <4>2 DEF Seen
      <3>2. CASE Holder[l] # NoThread
        <4>1. PICK s \in Threads : Holder[l] = s
          BY <1>1, <3>2 DEF Seen
        <4>2. ProcessOf[s] # p
          BY <2>4, <4>1
        <4>3. Inside(s) /\ LockOf[s] = l /\ Inside(s)'
          BY <1>1, <2>2, <4>1, <4>2 DEF Seen
        <4>4. Holder'[l] = s
          BY <1>1, <4>3 DEF Seen
        <4>5. Level[l] = Entry(s).depth
          BY <1>1, <4>3 DEF Seen
        <4>6. Level'[l] = Entry(s)'.depth
          BY <1>1, <4>3 DEF Seen
        <4>7. Entry(s)' = Entry(s)
          BY <2>1, <4>2 DEF Entry, FlockAssumption
        <4> QED
          BY <4>1, <4>4, <4>5, <4>6, <4>7
      <3> QED
        BY <3>1, <3>2
    <2>5. /\ Holder' = [l \in Locks |-> IF l \in Lost THEN NoThread ELSE Holder[l]]
          /\ Level' = [l \in Locks |-> IF l \in Lost THEN 0 ELSE Level[l]]
      <3> HIDE DEF Lost
      <3> QED
        BY <1>1, <2>3, <2>4 DEF Seen
    <2>6. Promised!Killed(p)
      BY <2>1, <2>5 DEF Promised!Killed
    <2> QED
      BY <2>6 DEF Promised!Next
  <1>12. CASE UNCHANGED vars
    <2>1. Holder' = Holder /\ Level' = Level /\ epoch' = epoch
      BY <1>12 DEF vars, Holder, Level, Inside
    <2> QED
      BY <1>2, <2>1
  <1> QED
    BY <1>4, <1>5, <1>6, <1>7, <1>8, <1>9, <1>10, <1>11, <1>12 DEF Next, Step

\* The inductive invariant of the refinement.
THEOREM FenceInvariance == Spec => []FenceInv
  <1>1. Init => FenceInv
    BY FlockAssumption, InitInv
    DEF FenceInv, KernelInv, DepthInv, Init, Inside, FlockAssumption
  <1>2. FenceInv /\ [Next]_vars => FenceInv'
    BY FlockAssumption, TypeStep, HolderStep, EntryStep, EpochStep, KernelStep, DepthStep
    DEF FenceInv, IInv, LockInv
  <1> QED
    BY <1>1, <1>2, PTL DEF Spec

\* operation_flock and fence implement a re-entrant lock with a fence of one step,
\* over any number of threads, processes and operations, re-entries and deaths.
THEOREM Refinement == Spec => Implements
  <1>1. Init => Promised!Init
    BY FlockAssumption, PromisedInit
  <1>2. FenceInv /\ FenceInv' /\ [Next]_vars => [Promised!Next]_Promised!vars
    BY FlockAssumption, PromisedStep
  <1> QED
    BY <1>1, <1>2, FenceInvariance, PTL DEF Spec, Implements, Promised!Spec
===============================================================================
