---------------------------- MODULE OperationFlock ----------------------------
(***************************************************************************)
(* operation_flock (recovery.py): the re-entrant wrapper around the file   *)
(* lock that fences an operation across processes, with the lease epoch    *)
(* that DurableOperationJournal.fence reads, increments and writes back    *)
(* inside it.  cli.py takes the lock around a whole run or reconcile and   *)
(* the journal takes it again, re-entrantly, for every update.             *)
(*                                                                         *)
(* Threads of one process share the table _FLOCKS and the re-entrant guard *)
(* _FLOCKS_GUARD; processes share only the kernel's lock on each lock file *)
(* (external: one holder, freed by LOCK_UN, close or process death).  The  *)
(* guard is held in three places where the thread does not merely touch    *)
(* the table: while it waits in flock(), and during a nested body.         *)
(***************************************************************************)
EXTENDS Naturals

CONSTANTS
  Threads, Processes, Locks,
  NoThread,      \* nobody
  ProcessOf,     \* [Threads -> Processes]
  LockOf,        \* [Threads -> Locks]: the operation a thread works on
  MayDie,        \* the processes that may be killed
  MaxNested,     \* bound: a thread's re-entries in one body
  MaxRounds,     \* bound: how often a thread takes its lock
  MaxFences      \* bound: fence entries on a lock

ASSUME FlockAssumption ==
  /\ NoThread \notin Threads
  /\ ProcessOf \in [Threads -> Processes]
  /\ LockOf \in [Threads -> Locks]
  /\ MayDie \subseteq Processes
  /\ MaxNested \in [Threads -> Nat] /\ MaxRounds \in [Threads -> Nat]
  /\ MaxFences \in [Locks -> Nat]

VARIABLES
  pc,        \* where each thread is in operation_flock
  rounds,    \* how often each thread has entered
  reentries, \* how often each thread has re-entered in this body
  table,     \* table[p][l]: the entry of _FLOCKS in process p, without its fd
  guard,     \* guard[p]: the owner of _FLOCKS_GUARD and its depth
  kernel,    \* kernel[l]: the thread whose descriptor holds the file lock
  epoch,     \* epoch[l]: lease_epoch in the operation's journal
  read,      \* read[t]: the journal epoch a fence has read and not yet written
  fences     \* history: fence entries completed on each lock

vars == <<pc, rounds, reentries, table, guard, kernel, epoch, read, fences>>

PCs == {"out", "seen", "flock", "in", "again", "nested", "popped", "dead"}
NoEntry == [owner |-> NoThread, depth |-> 0]
Free == [owner |-> NoThread, depth |-> 0]
Entries == [owner : Threads \cup {NoThread}, depth : Nat]
Idle == [busy |-> FALSE, value |-> 0]

Init ==
  /\ pc = [t \in Threads |-> "out"]
  /\ rounds = [t \in Threads |-> 0]
  /\ reentries = [t \in Threads |-> 0]
  /\ table = [p \in Processes |-> [l \in Locks |-> NoEntry]]
  /\ guard = [p \in Processes |-> Free]
  /\ kernel = [l \in Locks |-> NoThread]
  /\ epoch = [l \in Locks |-> 0]
  /\ read = [t \in Threads |-> Idle]
  /\ fences = [l \in Locks |-> 0]

Entry(t) == table[ProcessOf[t]][LockOf[t]]
Guard(t) == guard[ProcessOf[t]]
MayTakeGuard(t) == Guard(t).owner \in {NoThread, t}

Goto(t, l) == pc' = [pc EXCEPT ![t] = l]
SetEntry(t, e) == table' = [table EXCEPT ![ProcessOf[t]][LockOf[t]] = e]
Acquire(t) ==
  guard' = [guard EXCEPT ![ProcessOf[t]] = [owner |-> t, depth |-> @.depth + 1]]
Release(t) ==
  guard' = [guard EXCEPT ![ProcessOf[t]] =
              IF Guard(t).depth <= 1 THEN Free ELSE [Guard(t) EXCEPT !.depth = @ - 1]]

\* A pass of the waiting loop that ends it: no entry, or the thread's own.
\* (A pass that sees another thread's entry changes nothing and sleeps.)
See(t) ==
  /\ \/ pc[t] = "out" /\ rounds[t] < MaxRounds[t] /\ Entry(t).owner = NoThread
     \/ pc[t] \in {"in", "nested"} /\ ~read[t].busy
        /\ Entry(t).owner = t /\ reentries[t] < MaxNested[t]
  /\ MayTakeGuard(t)
  /\ Goto(t, IF pc[t] = "out" THEN "seen" ELSE "again")
  /\ UNCHANGED <<rounds, reentries, table, guard, kernel, epoch, read, fences>>

\* The guard taken again to enter, with what the loop saw: open and flock() the
\* file, or deepen the thread's own entry and run the body inside the guard.
Enter(t) ==
  /\ pc[t] \in {"seen", "again"}
  /\ MayTakeGuard(t)
  /\ Acquire(t)
  /\ \/ pc[t] = "seen" /\ Goto(t, "flock") /\ UNCHANGED table
     \/ /\ pc[t] = "again"
        /\ SetEntry(t, [owner |-> t, depth |-> Entry(t).depth + 1])
        /\ Goto(t, "nested")
  /\ reentries' = [reentries EXCEPT ![t] = IF pc[t] = "seen" THEN 0 ELSE @ + 1]
  /\ UNCHANGED <<rounds, kernel, epoch, read, fences>>

\* Fault: a shared lock is taken where an exclusive one is meant.
LockedShared(t) ==
  /\ pc[t] = "flock"
  /\ kernel' = [kernel EXCEPT ![LockOf[t]] = t]
  /\ SetEntry(t, [owner |-> t, depth |-> 1])
  /\ Release(t)
  /\ Goto(t, "in")
  /\ rounds' = [rounds EXCEPT ![t] = @ + 1]
  /\ UNCHANGED <<reentries, epoch, read, fences>>

\* flock() returns: the entry is made and the guard released.
Locked(t) ==
  /\ pc[t] = "flock"
  /\ kernel[LockOf[t]] = NoThread
  /\ kernel' = [kernel EXCEPT ![LockOf[t]] = t]
  /\ SetEntry(t, [owner |-> t, depth |-> 1])
  /\ Release(t)
  /\ Goto(t, "in")
  /\ rounds' = [rounds EXCEPT ![t] = @ + 1]
  /\ UNCHANGED <<reentries, epoch, read, fences>>

\* Fault: the nested exit closes the lock file, which frees the lock.
LeaveNestedUnlocks(t) ==
  /\ pc[t] = "nested" /\ ~read[t].busy
  /\ SetEntry(t, [Entry(t) EXCEPT !.depth = @ - 1])
  /\ Release(t)
  /\ kernel' = [kernel EXCEPT ![LockOf[t]] = NoThread]
  /\ Goto(t, IF Entry(t).depth <= 2 THEN "in" ELSE "nested")
  /\ UNCHANGED <<rounds, reentries, epoch, read, fences>>

\* Fault: the nested exit forgets to release the guard.
LeaveNestedGuarded(t) ==
  /\ pc[t] = "nested" /\ ~read[t].busy
  /\ SetEntry(t, [Entry(t) EXCEPT !.depth = @ - 1])
  /\ Goto(t, IF Entry(t).depth <= 2 THEN "in" ELSE "nested")
  /\ UNCHANGED <<rounds, reentries, guard, kernel, epoch, read, fences>>

\* Fault: the nested exit drops the entry, whatever its depth.
LeaveNestedDrops(t) ==
  /\ pc[t] = "nested" /\ ~read[t].busy
  /\ SetEntry(t, NoEntry)
  /\ Release(t)
  /\ Goto(t, IF Entry(t).depth <= 2 THEN "in" ELSE "nested")
  /\ UNCHANGED <<rounds, reentries, kernel, epoch, read, fences>>

\* The end of a nested body: the entry goes back one level (or is dropped), the
\* guard is released.
LeaveNested(t) ==
  /\ pc[t] = "nested" /\ ~read[t].busy
  /\ SetEntry(t, IF Entry(t).depth <= 1
                   THEN NoEntry ELSE [Entry(t) EXCEPT !.depth = @ - 1])
  /\ Release(t)
  /\ Goto(t, IF Entry(t).depth <= 2 THEN "in" ELSE "nested")
  /\ UNCHANGED <<rounds, reentries, kernel, epoch, read, fences>>

\* Fault: the file lock is released before the entry is dropped.
PopAfterUnlock(t) ==
  /\ pc[t] = "in" /\ ~read[t].busy
  /\ kernel' = [kernel EXCEPT ![LockOf[t]] = NoThread]
  /\ Goto(t, "popped")
  /\ UNCHANGED <<rounds, reentries, table, guard, epoch, read, fences>>

\* Fault: the outer exit releases the guard once more than it took it.
PopReleasing(t) ==
  /\ pc[t] = "in" /\ ~read[t].busy
  /\ MayTakeGuard(t)
  /\ SetEntry(t, NoEntry)
  /\ guard' = [guard EXCEPT ![ProcessOf[t]].depth = @ - 1]
  /\ Goto(t, "popped")
  /\ UNCHANGED <<rounds, reentries, kernel, epoch, read, fences>>

\* The end of the outer body: the entry is dropped under the guard, and only
\* then the file lock is released and its descriptor closed.
Pop(t) ==
  /\ pc[t] = "in" /\ ~read[t].busy
  /\ MayTakeGuard(t)
  /\ SetEntry(t, NoEntry)
  /\ Goto(t, "popped")
  /\ UNCHANGED <<rounds, reentries, guard, kernel, epoch, read, fences>>

Unlock(t) ==
  /\ pc[t] = "popped"
  /\ kernel' = [kernel EXCEPT ![LockOf[t]] = NoThread]
  /\ Goto(t, "out")
  /\ UNCHANGED <<rounds, reentries, table, guard, epoch, read, fences>>

\* fence: read the journal, then write it back with the next lease epoch.
ReadEpoch(t) ==
  /\ pc[t] \in {"in", "nested"} /\ ~read[t].busy
  /\ fences[LockOf[t]] < MaxFences[LockOf[t]]
  /\ read' = [read EXCEPT ![t] = [busy |-> TRUE, value |-> epoch[LockOf[t]]]]
  /\ UNCHANGED <<pc, rounds, reentries, table, guard, kernel, epoch, fences>>

WriteEpoch(t) ==
  /\ read[t].busy
  /\ epoch' = [epoch EXCEPT ![LockOf[t]] = read[t].value + 1]
  /\ fences' = [fences EXCEPT ![LockOf[t]] = @ + 1]
  /\ read' = [read EXCEPT ![t] = Idle]
  /\ UNCHANGED <<pc, rounds, reentries, table, guard, kernel>>

\* A process is killed: its memory goes, the kernel closes its descriptors.
Die(p) ==
  LET Mine == {t \in Threads : ProcessOf[t] = p} IN
  /\ p \in MayDie
  /\ \E t \in Mine : pc[t] # "dead"
  /\ pc' = [t \in Threads |-> IF t \in Mine THEN "dead" ELSE pc[t]]
  /\ read' = [t \in Threads |-> IF t \in Mine THEN Idle ELSE read[t]]
  /\ table' = [table EXCEPT ![p] = [l \in Locks |-> NoEntry]]
  /\ guard' = [guard EXCEPT ![p] = Free]
  /\ kernel' = [l \in Locks |-> IF kernel[l] \in Mine THEN NoThread ELSE kernel[l]]
  /\ UNCHANGED <<rounds, reentries, epoch, fences>>

Step(t) ==
  \/ See(t) \/ Enter(t) \/ Locked(t) \/ LeaveNested(t) \/ Pop(t) \/ Unlock(t)
  \/ ReadEpoch(t) \/ WriteEpoch(t)

Next ==
  \/ \E t \in Threads : Step(t)
  \/ \E p \in Processes : Die(p)

Spec == Init /\ [][Next]_vars

\* The scheduler runs every thread and a body ends by itself.  Nothing obliges a
\* thread to nest or fence once more; MaxNested makes a body finite.
Proceed(t) ==
  \/ pc[t] = "out" /\ See(t)
  \/ Enter(t) \/ Locked(t) \/ LeaveNested(t) \/ Pop(t) \/ Unlock(t) \/ WriteEpoch(t)

Fairness == \A t \in Threads : WF_vars(Proceed(t))

FairSpec == Spec /\ Fairness
-------------------------------------------------------------------------------
TypeOK ==
  /\ pc \in [Threads -> PCs]
  /\ rounds \in [Threads -> Nat]
  /\ reentries \in [Threads -> Nat]
  /\ table \in [Processes -> [Locks -> Entries]]
  /\ guard \in [Processes -> Entries]
  /\ kernel \in [Locks -> Threads \cup {NoThread}]
  /\ epoch \in [Locks -> Nat]
  /\ read \in [Threads -> [busy : BOOLEAN, value : Nat]]
  /\ fences \in [Locks -> Nat]

Inside(t) == pc[t] \in {"in", "again", "nested"}

\* Two threads, of one process or of two, are never inside the body of the same
\* operation: the fence that makes a run or a reconcile the only one.
MutualExclusion ==
  \A s, t \in Threads : Inside(s) /\ Inside(t) /\ LockOf[s] = LockOf[t] => s = t

\* Re-entry is never granted on somebody else's lock: the table entry of a
\* process names the thread that really holds the file lock.
TableMatchesKernel ==
  \A p \in Processes, l \in Locks :
    table[p][l].owner # NoThread => kernel[l] = table[p][l].owner

\* No lease epoch is ever handed out twice and no journal update is lost: the
\* epoch on disk counts the completed fence entries, across deaths.
EpochCountsFences == epoch = fences

\* Who is in the body of an operation, and how deep: what a caller sees of the
\* table and the lock file.
Holder ==
  [l \in Locks |->
     IF kernel[l] # NoThread /\ Inside(kernel[l]) THEN kernel[l] ELSE NoThread]
Level ==
  [l \in Locks |->
     IF Holder[l] = NoThread THEN 0 ELSE table[ProcessOf[Holder[l]]][l].depth]

\* To its callers it is a re-entrant lock whose fence is one step, although entering
\* looks twice, leaving has two steps and a fence reads and writes a file.
Promised == INSTANCE OperationFence WITH holder <- Holder, level <- Level
Implements == Promised!Spec

\* A process is stuck when a thread of it waits in flock() for another thread to
\* leave its operation: it keeps the guard, without which no thread of its process
\* leaves. Processes that are stuck with threads of one another stay so, a process
\* that waits for a thread of its own included.
Waits(s, t) == pc[s] = "flock" /\ Inside(t) /\ kernel[LockOf[s]] = t
Wedged ==
  \E stuck \in SUBSET Processes \ {{}} : \A p \in stuck :
    \E s, t \in Threads : ProcessOf[s] = p /\ ProcessOf[t] \in stuck /\ Waits(s, t)

Finished(t) == pc[t] = "dead" \/ (pc[t] = "out" /\ rounds[t] = MaxRounds[t])

\* Unless processes are stuck for ever on one another (or one on itself), every
\* request for a lock is served, nested use and killed processes included.
ServedUnlessWedged == []<>~Wedged => \A t \in Threads : <>Finished(t)

\* The docstring's promise, "Re-entrant in-process wrapper", and the test that
\* starts two threads on one operation and expects both to complete.
EveryThreadServed == \A t \in Threads : <>Finished(t)
===============================================================================
