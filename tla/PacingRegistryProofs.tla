------------------------- MODULE PacingRegistryProofs --------------------------
(***************************************************************************)
(* The in-process pacing of any number of threads and transports: a bounded*)
(* registry whose eviction never parts two threads of a transport, and     *)
(* sends that keep their distance.                                         *)
(***************************************************************************)
EXTENDS PacingRegistry, FiniteSetTheorems, TLAPS

Users(o) == {t \in Threads : pc[t] # "out" /\ mine[t] = o}

\* The borrowers of a state are the threads that refer to it.
Counted == \A o \in Objects : state[o].borrowers = Cardinality(Users(o))

\* A thread that is not out refers to the registry's state of its key.
Attached ==
  \A t \in Threads : pc[t] # "out" =>
    key[t] \in Keys /\ mine[t] \in Objects /\ entry[key[t]] = mine[t]

\* Two transports never share a state.
Separate == \A j, k \in Keys : entry[j] = entry[k] /\ entry[j] # None => j = k

\* One thread at a time is past the gate of a state, and has closed it.
Owner(t) == pc[t] \in {"sleep", "send"}
Gate ==
  /\ \A t \in Threads : Owner(t) => state[mine[t]].inFlight
  /\ \A t, u \in Threads : Owner(t) /\ Owner(u) /\ mine[t] = mine[u] => t = u

\* The stamps of a registered state are the ages of its transport's events; those
\* of a transport without one do not matter any more.
Stamps ==
  \A k \in Keys :
    IF entry[k] = None THEN startAge[k] = Interval /\ answerAge[k] = Settle
    ELSE state[entry[k]].sent = startAge[k] /\ state[entry[k]].answered = answerAge[k]

Bounded == IsFiniteSet(Registered) /\ RegistryBounded

RegistryInv == RegistryTypeOK /\ Counted /\ Attached /\ Separate /\ Gate /\ Stamps /\ Bounded

\* A drop takes nothing but idle states of other keys.
Drops(dropped) ==
  dropped \subseteq Registered /\ \A k \in dropped :
    /\ Users(entry[k]) = {}
    /\ state[entry[k]].sent >= Interval /\ state[entry[k]].answered >= Settle
-------------------------------------------------------------------------------
\* A state somebody refers to has a borrower, and one without has no user.
LEMMA Borrowers ==
  ASSUME RegistryAssumption, RegistryTypeOK, Counted, NEW o \in Objects
  PROVE  /\ IsFiniteSet(Users(o))
         /\ \A t \in Users(o) : state[o].borrowers >= 1
         /\ state[o].borrowers = 0 => Users(o) = {}
  <1>1. IsFiniteSet(Users(o))
    BY FS_Subset DEF Users, RegistryAssumption
  <1>2. Cardinality(Users(o)) \in Nat
    BY <1>1, FS_CardinalityType
  <1>3. Cardinality(Users(o)) = 0 <=> Users(o) = {}
    BY <1>1, FS_EmptySet
  <1> QED
    BY <1>1, <1>2, <1>3 DEF Counted

\* What _evict_idle_pacing_states picks is idle.
LEMMA EvictedIdle ==
  ASSUME NEW states, NEW keys, NEW keep, NEW k \in Evicted(states, keys, keep)
  PROVE  /\ k \in keys /\ k # keep
         /\ states[entry[k]].borrowers = 0
         /\ states[entry[k]].sent >= Interval /\ states[entry[k]].answered >= Settle
  BY DEF Evicted, Idle, Cooled

\* The drop of a borrow or a refusal takes idle states only.
LEMMA BorrowDrops ==
  ASSUME RegistryAssumption, RegistryTypeOK, Counted, NEW k \in Keys,
         NEW dropped, \/ entry[k] # None /\ dropped =
                         Evicted([state EXCEPT ![entry[k]].borrowers = @ + 1], Registered, k)
                      \/ dropped = Evicted(state, Registered \union {k}, k)
  PROVE  Drops(dropped) /\ k \notin dropped
  <1>1. ASSUME NEW j \in dropped
        PROVE  /\ j \in Registered /\ j # k
               /\ state[entry[j]].borrowers = 0
               /\ state[entry[j]].sent >= Interval /\ state[entry[j]].answered >= Settle
    <2>1. CASE dropped = Evicted(state, Registered \union {k}, k)
      BY <2>1, EvictedIdle
    <2>2. CASE entry[k] # None /\ dropped =
               Evicted([state EXCEPT ![entry[k]].borrowers = @ + 1], Registered, k)
      <3> DEFINE states == [state EXCEPT ![entry[k]].borrowers = @ + 1]
      <3>1. /\ j \in Registered /\ j # k /\ states[entry[j]].borrowers = 0
            /\ states[entry[j]].sent >= Interval /\ states[entry[j]].answered >= Settle
        <4>1. j \in Evicted(states, Registered, k)
          BY <2>2
        <4> HIDE DEF states
        <4> QED
          BY <4>1, EvictedIdle
      <3>2. entry[j] \in Objects /\ entry[k] \in Objects
        BY <3>1, <2>2 DEF Registered, RegistryTypeOK
      <3>3. entry[j] # entry[k]
        BY <3>1, <3>2 DEF RegistryTypeOK, State
      <3> QED
        BY <3>1, <3>2, <3>3 DEF RegistryTypeOK
    <2> QED
      BY <2>1, <2>2
  <1>2. ASSUME NEW j \in dropped PROVE Users(entry[j]) = {}
    <2>1. entry[j] \in Objects
      BY <1>1 DEF Registered, RegistryTypeOK
    <2> QED
      BY <1>1, <2>1, Borrowers
  <1> QED
    BY <1>1, <1>2 DEF Drops

\* Who refers to what once t has borrowed o.
LEMMA BorrowUsers ==
  ASSUME RegistryTypeOK, NEW t \in Threads, pc[t] = "out", NEW o,
         mine' = [mine EXCEPT ![t] = o], pc' = [pc EXCEPT ![t] = "enter"]
  PROVE  \A q : Users(q)' = IF q = o THEN Users(q) \union {t} ELSE Users(q)
  BY DEF RegistryTypeOK, Users

\* A borrow, of a known or of a fresh state.
Borrowing(t, k, o, dropped) ==
  /\ pc[t] = "out" /\ Drops(dropped) /\ k \notin dropped
  /\ entry' = [Without(dropped) EXCEPT ![k] = o]
  /\ \/ entry[k] = o /\ state' = [state EXCEPT ![o].borrowers = @ + 1]
     \/ /\ entry[k] = None
        /\ \A j \in Keys : entry[j] # o
        /\ \A u \in Threads : mine[u] # o
        /\ state' = [state EXCEPT ![o] = Fresh(1)]
  /\ key' = [key EXCEPT ![t] = k]
  /\ mine' = [mine EXCEPT ![t] = o]
  /\ pc' = [pc EXCEPT ![t] = "enter"]
  /\ older' \subseteq Keys \X Keys
  /\ UNCHANGED <<rounds, startAge, answerAge>>

\* Both actions that borrow are a borrow.
LEMMA Borrows ==
  ASSUME RegistryAssumption, RegistryTypeOK, Counted, NEW t \in Threads, NEW k \in Keys,
         BorrowKnown(t, k) \/ BorrowNew(t, k)
  PROVE  \E o \in Objects, dropped \in SUBSET Keys : Borrowing(t, k, o, dropped)
  <1>1. CASE BorrowKnown(t, k)
    <2> DEFINE dropped == Evicted([state EXCEPT ![entry[k]].borrowers = @ + 1], Registered, k)
    <2>1. entry[k] \in Objects
      BY <1>1 DEF BorrowKnown, RegistryTypeOK
    <2>2. Drops(dropped) /\ k \notin dropped
      BY <1>1, BorrowDrops DEF BorrowKnown
    <2>3. dropped \in SUBSET Keys
      BY <2>2 DEF Drops, Registered
    <2>4. Borrowing(t, k, entry[k], dropped)
      <3> HIDE DEF dropped
      <3> QED
        BY <1>1, <2>2 DEF BorrowKnown, Borrow, Borrowing, dropped, Among, Registered
    <2> QED
      BY <2>1, <2>3, <2>4
  <1>2. CASE BorrowNew(t, k)
    <2> DEFINE dropped == Evicted(state, Registered \union {k}, k)
               fresh == CHOOSE o \in Objects : o \notin Referenced
    <2>1. /\ pc[t] = "out" /\ entry[k] = None
          /\ fresh \in Objects \ Referenced
          /\ Borrow(t, k, fresh, [state EXCEPT ![fresh] = Fresh(1)], dropped)
      BY <1>2 DEF BorrowNew
    <2>2. Drops(dropped) /\ k \notin dropped
      BY BorrowDrops
    <2>3. dropped \in SUBSET Keys
      BY <2>2 DEF Drops, Registered
    <2>4. (\A j \in Keys : entry[j] # fresh) /\ (\A u \in Threads : mine[u] # fresh)
      BY <2>1 DEF Referenced
    <2>5. Borrowing(t, k, fresh, dropped)
      <3> HIDE DEF dropped, fresh
      <3> QED
        BY <2>1, <2>2, <2>4 DEF Borrow, Borrowing, Among, Registered
    <2> QED
      BY <2>1, <2>3, <2>5
  <1> QED
    BY <1>1, <1>2

\* The type of a fresh state.
LEMMA FreshState ==
  ASSUME PacingAssumption, NEW n \in Nat
  PROVE  Fresh(n) \in State
  BY DEF PacingAssumption, Fresh, State

\* A borrow keeps the invariant.
LEMMA BorrowStep ==
  ASSUME PacingAssumption, RegistryAssumption, RegistryTypeOK, Counted, Attached, Separate, Gate, Stamps,
         NEW t \in Threads, NEW k \in Keys, NEW o \in Objects, NEW dropped \in SUBSET Keys,
         Borrowing(t, k, o, dropped)
  PROVE  RegistryTypeOK' /\ Counted' /\ Attached' /\ Separate' /\ Gate' /\ Stamps'
  <1> USE DEF Borrowing, RegistryTypeOK, State
  <1>1. RegistryTypeOK'
    <2>2. state' \in [Objects -> State]
      <3>1. CASE state' = [state EXCEPT ![o].borrowers = @ + 1]
        BY <3>1
      <3>2. CASE state' = [state EXCEPT ![o] = Fresh(1)]
        <4> HIDE DEF State
        <4> QED
          BY <3>2, FreshState
      <3> QED
        BY <3>1, <3>2
    <2>3. entry' \in [Keys -> Objects \union {None}]
      BY DEF Without
    <2> QED
      BY <2>2, <2>3
  <1>2. \A q : Users(q)' = IF q = o THEN Users(q) \union {t} ELSE Users(q)
    BY BorrowUsers
  <1>3. Counted'
    <2>1. IsFiniteSet(Users(o)) /\ t \notin Users(o)
      BY Borrowers DEF Users
    <2>2. Cardinality(Users(o) \union {t}) = Cardinality(Users(o)) + 1
      BY <2>1, FS_AddElement
    <2>3. CASE entry[k] = o /\ state' = [state EXCEPT ![o].borrowers = @ + 1]
      <3>1. state'[o].borrowers = state[o].borrowers + 1
        BY <2>3
      <3>2. \A q \in Objects : q # o => state'[q] = state[q]
        BY <2>3
      <3> HIDE DEF Borrowing, RegistryTypeOK
      <3> QED
        BY <1>2, <2>2, <3>1, <3>2 DEF Counted
    <2>4. CASE /\ \A u \in Threads : mine[u] # o
               /\ state' = [state EXCEPT ![o] = Fresh(1)]
      <3>1. Users(o) = {}
        BY <2>4 DEF Users
      <3>2. Cardinality(Users(o)) = 0
        BY <3>1, FS_EmptySet
      <3>3. state'[o].borrowers = 1
        BY <2>4 DEF Fresh
      <3>4. \A q \in Objects : q # o => state'[q] = state[q]
        BY <2>4
      <3> HIDE DEF Borrowing, RegistryTypeOK
      <3> QED
        BY <1>2, <2>2, <3>2, <3>3, <3>4 DEF Counted
    <2> QED
      BY <2>3, <2>4
  <1>4. \A j \in Keys : entry'[j] = IF j = k THEN o ELSE IF j \in dropped THEN None ELSE entry[j]
    BY DEF Without
  <1>5. Attached'
    <2> SUFFICES ASSUME NEW u \in Threads, pc'[u] # "out"
                 PROVE  key'[u] \in Keys /\ mine'[u] \in Objects /\ entry'[key'[u]] = mine'[u]
      BY DEF Attached
    <2>1. CASE u = t
      BY <1>4, <2>1
    <2>2. CASE u # t
      <3>1. pc[u] # "out" /\ key'[u] = key[u] /\ mine'[u] = mine[u]
        BY <2>2
      <3>2. key[u] \in Keys /\ mine[u] \in Objects /\ entry[key[u]] = mine[u]
        BY <3>1 DEF Attached
      <3>3. key[u] \notin dropped
        BY <3>1, <3>2 DEF Drops, Users
      <3>4. key[u] = k => entry[k] = o
        BY <3>2 DEF RegistryAssumption
      <3> QED
        BY <1>4, <3>1, <3>2, <3>3, <3>4
    <2> QED
      BY <2>1, <2>2
  <1>6. Separate'
    BY <1>4 DEF Separate, RegistryAssumption
  <1>7. Gate'
    <2>1. \A u \in Threads : Owner(u)' => u # t /\ Owner(u) /\ mine'[u] = mine[u]
      BY DEF Owner
    <2>2. \A u \in Threads : Owner(u) => mine[u] \in Objects
      BY DEF Owner, Attached
    <2>3. \A q \in Objects : (\E u \in Threads : mine[u] = q) => state'[q].inFlight = state[q].inFlight
      OBVIOUS
    <2> QED
      BY <2>1, <2>2, <2>3 DEF Gate
  <1>8. Stamps'
    <2> SUFFICES ASSUME NEW j \in Keys
                 PROVE  IF entry'[j] = None
                          THEN startAge[j] = Interval /\ answerAge[j] = Settle
                          ELSE /\ state'[entry'[j]].sent = startAge[j]
                               /\ state'[entry'[j]].answered = answerAge[j]
      BY DEF Stamps
    <2>1. CASE j = k
      <3>1. entry'[j] = o /\ o # None
        BY <1>4, <2>1 DEF RegistryAssumption
      <3>2. CASE entry[k] = o /\ state' = [state EXCEPT ![o].borrowers = @ + 1]
        BY <2>1, <3>1, <3>2 DEF Stamps
      <3>3. CASE entry[k] = None /\ state' = [state EXCEPT ![o] = Fresh(1)]
        BY <2>1, <3>1, <3>3 DEF Stamps, Fresh
      <3> QED
        BY <3>1, <3>2, <3>3
    <2>2. CASE j # k /\ j \in dropped
      <3>1. entry'[j] = None /\ entry[j] # None
        BY <1>4, <2>2 DEF Drops, Registered
      <3>2. state[entry[j]].sent = startAge[j] /\ state[entry[j]].answered = answerAge[j]
        BY <3>1 DEF Stamps
      <3>3. state[entry[j]].sent >= Interval /\ state[entry[j]].answered >= Settle
        BY <2>2 DEF Drops
      <3>4. startAge[j] \in 0..Interval /\ answerAge[j] \in 0..Settle
        OBVIOUS
      <3>5. startAge[j] = Interval /\ answerAge[j] = Settle
        <4> HIDE DEF Borrowing, RegistryTypeOK
        <4> QED
          BY <3>2, <3>3, <3>4 DEF PacingAssumption
      <3> QED
        BY <3>1, <3>5
    <2>3. CASE j # k /\ j \notin dropped
      <3>1. entry'[j] = entry[j]
        BY <1>4, <2>3
      <3>2. CASE entry[j] = None
        BY <3>1, <3>2 DEF Stamps
      <3>3. CASE entry[j] # None
        <4>1. entry[j] # o /\ entry[j] \in Objects
          BY <2>3, <3>3 DEF Separate
        <4>2. state'[entry[j]] = state[entry[j]]
          BY <4>1
        <4> QED
          BY <3>1, <3>3, <4>2 DEF Stamps
      <3> QED
        BY <3>2, <3>3
    <2> QED
      BY <2>1, <2>2, <2>3
  <1> QED
    BY <1>1, <1>3, <1>5, <1>6, <1>7, <1>8

\* A step that leaves the registry and everybody's references alone.
Quiet == UNCHANGED <<entry, older, key, mine, rounds>>

\* Who waits, sends or gives back still refers to its state.
LEMMA QuietUsers ==
  ASSUME RegistryTypeOK, Quiet, \A t \in Threads : pc[t] # "out" <=> pc'[t] # "out"
  PROVE  \A o : Users(o)' = Users(o)
  BY DEF Quiet, Users

\* notify_all leaves everybody but its caller where it stands, or at the gate.
LEMMA Notified ==
  ASSUME RegistryTypeOK, NEW t \in Threads, NEW o, pc[t] # "out", pc' = ReleasedBy(t, o)
  PROVE  /\ pc' \in [Threads -> {"out", "enter", "wait", "sleep", "send", "release"}]
         /\ \A u \in Threads : pc[u] # "out" <=> pc'[u] # "out"
         /\ \A u \in Threads : Owner(u)' => u # t /\ Owner(u)
  BY DEF RegistryTypeOK, ReleasedBy, Owner

\* Waiting, entering, stamping, finishing and being interrupted keep the invariant.
LEMMA QuietStep ==
  ASSUME PacingAssumption, RegistryAssumption, RegistryTypeOK, Counted, Attached, Separate, Gate, Stamps,
         NEW t \in Threads,
         EnterBusy(t) \/ Enter(t) \/ Stamp(t) \/ FinishTurn(t) \/ Interrupt(t)
  PROVE  RegistryTypeOK' /\ Counted' /\ Attached' /\ Separate' /\ Gate' /\ Stamps'
  <1> DEFINE o == mine[t]
  <1>1. /\ Quiet /\ pc[t] # "out" /\ o \in Objects /\ key[t] \in Keys /\ entry[key[t]] = o
        /\ \A j \in Keys : entry[j] = o => j = key[t]
    <2>1. Quiet /\ pc[t] # "out"
      BY DEF EnterBusy, Enter, Stamp, FinishTurn, Interrupt, Quiet
    <2> QED
      BY <2>1 DEF Attached, Separate, RegistryAssumption
  <1>2. \A u \in Threads : pc[u] # "out" <=> pc'[u] # "out"
    <2>1. CASE EnterBusy(t) \/ Enter(t) \/ Stamp(t)
      BY <2>1 DEF EnterBusy, Enter, Stamp, RegistryTypeOK
    <2>2. CASE FinishTurn(t) \/ Interrupt(t)
      BY <1>1, <2>2, Notified DEF FinishTurn, Interrupt, RegistryTypeOK
    <2> QED
      BY <2>1, <2>2
  <1>3. /\ state' \in [Objects -> State]
        /\ \A q \in Objects : state'[q].borrowers = state[q].borrowers
        /\ \A q \in Objects : q # o => state'[q] = state[q]
    <2>1. state[o] \in State /\ state \in [Objects -> State]
      BY <1>1 DEF RegistryTypeOK
    <2>2. ASSUME NEW s \in State, s.borrowers = state[o].borrowers,
                 state' = [state EXCEPT ![o] = s]
          PROVE  /\ state' \in [Objects -> State]
                 /\ \A q \in Objects : state'[q].borrowers = state[q].borrowers
                 /\ \A q \in Objects : q # o => state'[q] = state[q]
      BY <1>1, <2>1, <2>2
    <2>3. \A b \in BOOLEAN :
            LET s == [state[o] EXCEPT !.inFlight = b]
            IN  s \in State /\ s.borrowers = state[o].borrowers
      BY <2>1 DEF State
    <2>4. LET s == [state[o] EXCEPT !.sent = 0]
          IN  s \in State /\ s.borrowers = state[o].borrowers
      BY <2>1 DEF State, PacingAssumption
    <2>5. LET s == [state[o] EXCEPT !.inFlight = FALSE, !.answered = 0]
          IN  s \in State /\ s.borrowers = state[o].borrowers
      <3>1. \A r \in State : LET s == [r EXCEPT !.answered = 0]
                             IN  s \in State /\ s.borrowers = r.borrowers
        BY DEF State, PacingAssumption
      <3> QED
        BY <2>3, <3>1
    <2>6. CASE state' = state
      BY <2>1, <2>6
    <2>7. CASE state' = [state EXCEPT ![o].inFlight = TRUE]
      BY <2>2, <2>3, <2>7
    <2>8. CASE state' = [state EXCEPT ![o].inFlight = FALSE]
      BY <2>2, <2>3, <2>8
    <2>9. CASE state' = [state EXCEPT ![o].sent = 0]
      BY <2>2, <2>4, <2>9
    <2>10. CASE state' = [state EXCEPT ![o].inFlight = FALSE, ![o].answered = 0]
      <3>1. state' = [state EXCEPT ![o] = [state[o] EXCEPT !.inFlight = FALSE, !.answered = 0]]
        BY <1>1, <2>1, <2>10 DEF State
      <3> QED
        BY <2>2, <2>5, <3>1
    <2> QED
      BY <2>6, <2>7, <2>8, <2>9, <2>10 DEF EnterBusy, Enter, Stamp, FinishTurn, Interrupt
  <1>4. RegistryTypeOK'
    <2>1. pc' \in [Threads -> {"out", "enter", "wait", "sleep", "send", "release"}]
      <3>1. CASE EnterBusy(t) \/ Enter(t) \/ Stamp(t)
        BY <3>1 DEF EnterBusy, Enter, Stamp, RegistryTypeOK
      <3>2. CASE FinishTurn(t) \/ Interrupt(t)
        BY <1>1, <3>2, Notified DEF FinishTurn, Interrupt, RegistryTypeOK
      <3> QED
        BY <3>1, <3>2
    <2>2. startAge' \in [Keys -> 0..Interval] /\ answerAge' \in [Keys -> 0..Settle]
      BY DEF EnterBusy, Enter, Stamp, FinishTurn, Interrupt, RegistryTypeOK, PacingAssumption
    <2> QED
      BY <1>1, <1>3, <2>1, <2>2 DEF Quiet, RegistryTypeOK
  <1>5. Counted'
    BY <1>1, <1>2, <1>3, QuietUsers DEF Counted
  <1>6. Attached' /\ Separate'
    BY <1>1, <1>2 DEF Quiet, Attached, Separate
  <1>7. Gate'
    <2>0. \A u \in Threads : mine'[u] = mine[u] /\ (Owner(u) => mine[u] \in Objects)
      BY <1>1 DEF Quiet, Owner, Attached
    <2>1. CASE EnterBusy(t)
      BY <2>0, <2>1 DEF EnterBusy, Gate, Owner, RegistryTypeOK
    <2>2. CASE Enter(t)
      <3>1. \A u \in Threads : Owner(u) => mine[u] # o
        BY <2>2 DEF Enter, Gate
      <3>2. \A u \in Threads : Owner(u)' => u = t \/ Owner(u)
        BY <2>2 DEF Enter, Owner, RegistryTypeOK
      <3>3. state'[o].inFlight
        BY <1>1, <2>2 DEF Enter, RegistryTypeOK, State
      <3> QED
        BY <1>3, <2>0, <3>1, <3>2, <3>3 DEF Gate
    <2>3. CASE Stamp(t)
      <3>1. \A u \in Threads : Owner(u)' <=> Owner(u)
        BY <2>3 DEF Stamp, Owner, RegistryTypeOK
      <3>2. \A q \in Objects : state'[q].inFlight = state[q].inFlight
        BY <1>1, <2>3 DEF Stamp, RegistryTypeOK, State
      <3> QED
        BY <2>0, <3>1, <3>2 DEF Gate
    <2>4. CASE FinishTurn(t) \/ (Interrupt(t) /\ pc[t] = "sleep")
      <3>1. Owner(t) /\ \A u \in Threads : Owner(u)' => u # t /\ Owner(u)
        BY <1>1, <2>4, Notified DEF FinishTurn, Interrupt, Owner
      <3>2. \A u \in Threads : Owner(u) /\ u # t => mine[u] # o
        BY <3>1 DEF Gate
      <3> QED
        BY <1>3, <2>0, <3>1, <3>2 DEF Gate
    <2>5. CASE Interrupt(t) /\ pc[t] # "sleep"
      <3>1. state' = state /\ \A u \in Threads : Owner(u)' => Owner(u)
        BY <2>5 DEF Interrupt, Owner, RegistryTypeOK
      <3> QED
        BY <2>0, <3>1 DEF Gate
    <2> QED
      BY <2>1, <2>2, <2>3, <2>4, <2>5
  <1>8. Stamps'
    <2>1. /\ state'[o].sent = startAge'[key[t]] /\ state'[o].answered = answerAge'[key[t]]
          /\ \A j \in Keys : j # key[t] => startAge'[j] = startAge[j] /\ answerAge'[j] = answerAge[j]
      <3>1. state[o].sent = startAge[key[t]] /\ state[o].answered = answerAge[key[t]]
        BY <1>1 DEF Stamps, RegistryAssumption
      <3> QED
        BY <1>1, <3>1 DEF EnterBusy, Enter, Stamp, FinishTurn, Interrupt, RegistryTypeOK, State
    <2> QED
      BY <1>1, <1>3, <2>1 DEF Stamps, Quiet, RegistryAssumption, RegistryTypeOK
  <1> QED
    BY <1>4, <1>5, <1>6, <1>7, <1>8

\* Dropping idle states, with nothing else changed, keeps what the registry promises.
LEMMA DropStep ==
  ASSUME PacingAssumption, RegistryTypeOK, Attached, Separate, Stamps,
         NEW dropped, dropped \subseteq Registered, entry' = Without(dropped),
         \A j \in dropped :
           /\ \A t \in Threads : pc'[t] # "out" => mine[t] # entry[j]
           /\ state[entry[j]].sent >= Interval /\ state[entry[j]].answered >= Settle,
         \A t \in Threads : pc'[t] # "out" =>
           pc[t] # "out" /\ key'[t] = key[t] /\ mine'[t] = mine[t],
         UNCHANGED <<startAge, answerAge>>,
         state' \in [Objects -> State],
         \A q \in Objects : state'[q].sent = state[q].sent /\ state'[q].answered = state[q].answered
  PROVE  entry' \in [Keys -> Objects \union {None}] /\ Attached' /\ Separate' /\ Stamps'
  <1>1. \A j \in Keys : entry'[j] = IF j \in dropped THEN None ELSE entry[j]
    BY DEF Without
  <1>2. entry' \in [Keys -> Objects \union {None}]
    BY DEF Without, RegistryTypeOK
  <1>3. Attached'
    <2> SUFFICES ASSUME NEW t \in Threads, pc'[t] # "out"
                 PROVE  key'[t] \in Keys /\ mine'[t] \in Objects /\ entry'[key'[t]] = mine'[t]
      BY DEF Attached
    <2>1. key[t] \in Keys /\ mine[t] \in Objects /\ entry[key[t]] = mine[t]
      BY DEF Attached
    <2>2. key[t] \notin dropped
      BY <2>1
    <2> QED
      BY <1>1, <2>1, <2>2
  <1>4. Separate'
    BY <1>1 DEF Separate
  <1>5. Stamps'
    <2> SUFFICES ASSUME NEW j \in Keys
                 PROVE  IF entry'[j] = None
                          THEN startAge[j] = Interval /\ answerAge[j] = Settle
                          ELSE /\ state'[entry'[j]].sent = startAge[j]
                               /\ state'[entry'[j]].answered = answerAge[j]
      BY DEF Stamps
    <2>1. CASE j \in dropped
      <3>1. entry'[j] = None /\ entry[j] # None
        BY <1>1, <2>1 DEF Registered
      <3>2. state[entry[j]].sent = startAge[j] /\ state[entry[j]].answered = answerAge[j]
        BY <3>1 DEF Stamps
      <3>3. state[entry[j]].sent >= Interval /\ state[entry[j]].answered >= Settle
        BY <2>1
      <3>4. startAge[j] \in 0..Interval /\ answerAge[j] \in 0..Settle
        BY DEF RegistryTypeOK
      <3> QED
        BY <3>1, <3>2, <3>3, <3>4 DEF PacingAssumption
    <2>2. CASE j \notin dropped /\ entry[j] = None
      BY <1>1, <2>2 DEF Stamps
    <2>3. CASE j \notin dropped /\ entry[j] # None
      BY <1>1, <2>3 DEF Stamps, RegistryTypeOK
    <2> QED
      BY <2>1, <2>2, <2>3
  <1> QED
    BY <1>2, <1>3, <1>4, <1>5

\* A refused attempt keeps the invariant.
LEMMA ExhaustedStep ==
  ASSUME PacingAssumption, RegistryAssumption, RegistryTypeOK, Counted, Attached, Separate, Gate, Stamps,
         NEW t \in Threads, NEW k \in Keys, Exhausted(t, k)
  PROVE  RegistryTypeOK' /\ Counted' /\ Attached' /\ Separate' /\ Gate' /\ Stamps'
  <1> DEFINE dropped == Evicted(state, Registered \union {k}, k)
  <1>1. /\ entry' = Without(dropped) /\ older' = Among(older, Registered \ dropped)
        /\ rounds' = [rounds EXCEPT ![t] = @ + 1]
        /\ UNCHANGED <<state, pc, key, mine, startAge, answerAge>>
    BY DEF Exhausted
  <1>2. Drops(dropped)
    BY BorrowDrops
  <1> HIDE DEF dropped
  <1>3. entry' \in [Keys -> Objects \union {None}] /\ Attached' /\ Separate' /\ Stamps'
    BY <1>1, <1>2, DropStep DEF RegistryTypeOK, Drops, Users
  <1>4. RegistryTypeOK'
    BY <1>1, <1>3 DEF RegistryTypeOK, Among
  <1>5. Counted' /\ Gate'
    BY <1>1 DEF Counted, Users, Gate, Owner
  <1> QED
    BY <1>3, <1>4, <1>5

\* Giving a state back keeps the invariant.
LEMMA ReleaseStep ==
  ASSUME PacingAssumption, RegistryAssumption, RegistryTypeOK, Counted, Attached, Separate, Gate, Stamps,
         NEW t \in Threads, Release(t)
  PROVE  RegistryTypeOK' /\ Counted' /\ Attached' /\ Separate' /\ Gate' /\ Stamps'
  <1> DEFINE o == mine[t]
             dropped == Evicted(state', Registered, None)
  <1>1. /\ pc[t] = "release" /\ state' = [state EXCEPT ![o].borrowers = @ - 1]
        /\ entry' = Without(dropped) /\ older' = Among(older, Registered \ dropped)
        /\ pc' = [pc EXCEPT ![t] = "out"]
        /\ key' = [key EXCEPT ![t] = None] /\ mine' = [mine EXCEPT ![t] = None]
        /\ rounds' = [rounds EXCEPT ![t] = @ + 1]
        /\ UNCHANGED <<startAge, answerAge>>
    BY DEF Release
  <1>2. o \in Objects /\ t \in Users(o)
    BY <1>1 DEF Attached, Users
  <1>3. state[o].borrowers >= 1 /\ IsFiniteSet(Users(o))
    BY <1>2, Borrowers
  <1>4. /\ state' \in [Objects -> State]
        /\ \A q \in Objects :
             /\ state'[q].sent = state[q].sent /\ state'[q].answered = state[q].answered
             /\ state'[q].inFlight = state[q].inFlight
             /\ state'[q].borrowers = IF q = o THEN state[q].borrowers - 1 ELSE state[q].borrowers
    BY <1>1, <1>2, <1>3 DEF RegistryTypeOK, State
  <1>5. \A q \in Objects : Users(q)' = Users(q) \ {t}
    BY <1>1, RegistryAssumption DEF Users, RegistryTypeOK, RegistryAssumption
  <1>6. Counted'
    <2> SUFFICES ASSUME NEW q \in Objects PROVE state'[q].borrowers = Cardinality(Users(q)')
      BY DEF Counted
    <2>1. IsFiniteSet(Users(q))
      BY Borrowers
    <2>2. Cardinality(Users(q) \ {t}) = IF q = o THEN Cardinality(Users(q)) - 1 ELSE Cardinality(Users(q))
      BY <1>2, <2>1, FS_RemoveElement DEF Users
    <2> QED
      BY <1>4, <1>5, <2>2 DEF Counted
  <1>7. \A j \in dropped :
          /\ j \in Registered
          /\ \A u \in Threads : pc'[u] # "out" => mine[u] # entry[j]
          /\ state[entry[j]].sent >= Interval /\ state[entry[j]].answered >= Settle
    <2> TAKE j \in dropped
    <2>1. /\ j \in Registered /\ state'[entry[j]].borrowers = 0
          /\ state'[entry[j]].sent >= Interval /\ state'[entry[j]].answered >= Settle
      BY EvictedIdle
    <2>2. entry[j] \in Objects
      BY <2>1 DEF Registered, RegistryTypeOK
    <2>3. PICK q \in Objects : q = entry[j]
      BY <2>2
    <2>4. \A u \in Threads : pc'[u] # "out" => mine'[u] # q
      <3>1. IsFiniteSet(Users(q) \ {t})
        BY Borrowers, FS_RemoveElement
      <3>2. Cardinality(Users(q) \ {t}) = 0
        BY <1>5, <1>6, <2>1, <2>3 DEF Counted
      <3>3. Users(q)' = {}
        BY <1>5, <3>1, <3>2, FS_EmptySet
      <3> QED
        BY <3>3 DEF Users
    <2> QED
      BY <1>1, <1>4, <2>1, <2>2, <2>3, <2>4 DEF RegistryTypeOK
  <1> HIDE DEF dropped
  <1>8. \A u \in Threads : pc'[u] # "out" =>
          pc[u] # "out" /\ key'[u] = key[u] /\ mine'[u] = mine[u]
    BY <1>1 DEF RegistryTypeOK
  <1>9. entry' \in [Keys -> Objects \union {None}] /\ Attached' /\ Separate' /\ Stamps'
    BY <1>1, <1>4, <1>7, <1>8, DropStep
  <1>10. RegistryTypeOK'
    BY <1>1, <1>4, <1>9 DEF RegistryTypeOK, Among
  <1>11. Gate'
    <2>1. \A u \in Threads : Owner(u)' => u # t /\ Owner(u) /\ mine'[u] = mine[u]
      BY <1>1 DEF Owner, RegistryTypeOK
    <2>2. \A u \in Threads : Owner(u) => mine[u] \in Objects
      BY DEF Owner, Attached
    <2> QED
      BY <1>4, <2>1, <2>2 DEF Gate
  <1> QED
    BY <1>6, <1>9, <1>10, <1>11

\* Time passing ages the stamps of a state as it ages the events they are about.
LEMMA TickStep ==
  ASSUME PacingAssumption, RegistryAssumption, RegistryTypeOK, Counted, Attached, Separate, Gate, Stamps,
         RegistryTick
  PROVE  RegistryTypeOK' /\ Counted' /\ Attached' /\ Separate' /\ Gate' /\ Stamps'
  <1>1. /\ UNCHANGED <<entry, older, pc, key, mine, rounds>>
        /\ \A q \in Objects :
             /\ state'[q].inFlight = state[q].inFlight
             /\ state'[q].borrowers = state[q].borrowers
             /\ state'[q].sent = Older(state[q].sent, Interval)
             /\ state'[q].answered = Older(state[q].answered, Settle)
    <2>1. UNCHANGED <<entry, older, pc, key, mine, rounds>>
      BY DEF RegistryTick
    <2>2. ASSUME NEW q \in Objects
          PROVE  /\ state'[q].inFlight = state[q].inFlight
                 /\ state'[q].borrowers = state[q].borrowers
                 /\ state'[q].sent = Older(state[q].sent, Interval)
                 /\ state'[q].answered = Older(state[q].answered, Settle)
      <3>1. state'[q] = [state[q] EXCEPT !.sent = Older(@, Interval),
                                         !.answered = Older(@, Settle)]
        BY DEF RegistryTick
      <3>2. state[q] \in State
        BY DEF RegistryTypeOK
      <3> HIDE DEF RegistryTypeOK
      <3> QED
        BY <3>1, <3>2 DEF State
    <2> QED
      BY <2>1, <2>2
  <1>2. (\A age \in 0..Interval : Older(age, Interval) \in 0..Interval)
        /\ (\A age \in 0..Settle : Older(age, Settle) \in 0..Settle)
        /\ Older(Interval, Interval) = Interval /\ Older(Settle, Settle) = Settle
    BY DEF Older, PacingAssumption
  <1>3. state' \in [Objects -> State]
    <2> SUFFICES ASSUME NEW q \in Objects
                 PROVE  [state[q] EXCEPT !.sent = Older(@, Interval),
                                         !.answered = Older(@, Settle)] \in State
      BY DEF RegistryTick
    <2>1. state[q] \in State
      BY DEF RegistryTypeOK
    <2> HIDE DEF RegistryTypeOK
    <2> QED
      BY <1>2, <2>1 DEF State
  <1>4. startAge' \in [Keys -> 0..Interval] /\ answerAge' \in [Keys -> 0..Settle]
    BY <1>2 DEF RegistryTick, RegistryTypeOK
  <1>5. RegistryTypeOK'
    BY <1>1, <1>3, <1>4 DEF RegistryTypeOK
  <1>6. Counted' /\ Attached' /\ Separate'
    <2>1. \A q \in Objects : Users(q)' = Users(q)
      BY <1>1 DEF Users
    <2>2. Counted'
      BY <1>1, <2>1 DEF Counted
    <2>3. Attached'
      BY <1>1 DEF Attached
    <2>4. Separate'
      BY <1>1 DEF Separate
    <2> QED
      BY <2>2, <2>3, <2>4
  <1>7. Gate'
    BY <1>1 DEF Gate, Owner, Attached
  <1>8. Stamps'
    <2> SUFFICES ASSUME NEW j \in Keys
                 PROVE  IF entry[j] = None
                          THEN startAge'[j] = Interval /\ answerAge'[j] = Settle
                          ELSE /\ state'[entry[j]].sent = startAge'[j]
                               /\ state'[entry[j]].answered = answerAge'[j]
      BY <1>1 DEF Stamps
    <2>1. startAge'[j] = Older(startAge[j], Interval) /\ answerAge'[j] = Older(answerAge[j], Settle)
      BY DEF RegistryTick
    <2>2. CASE entry[j] = None
      BY <1>2, <2>1, <2>2 DEF Stamps
    <2>3. CASE entry[j] # None
      BY <1>1, <2>1, <2>3 DEF Stamps, RegistryTypeOK
    <2> QED
      BY <2>2, <2>3
  <1> QED
    BY <1>5, <1>6, <1>7, <1>8

\* No step takes the registry past its limit: a known key adds no entry, a new
\* one is taken only when there is room once the idle entries are dropped.
LEMMA BoundedStep ==
  ASSUME RegistryAssumption, RegistryTypeOK, Bounded, [RegistryNext]_registryVars
  PROVE  Bounded'
  <1>1. IsFiniteSet(Registered) /\ Cardinality(Registered) <= MaxEntries
        /\ Cardinality(Registered) \in Nat
    BY FS_CardinalityType DEF Bounded, RegistryBounded
  <1>2. ASSUME Registered' \subseteq Registered
        PROVE  Bounded'
    <2>1. IsFiniteSet(Registered') /\ Cardinality(Registered') <= Cardinality(Registered)
          /\ Cardinality(Registered') \in Nat
      BY <1>1, <1>2, FS_Subset, FS_CardinalityType
    <2> QED
      BY <1>1, <2>1 DEF Bounded, RegistryBounded, RegistryAssumption
  <1>3. CASE UNCHANGED entry
    BY <1>2, <1>3 DEF Registered
  <1>4. ASSUME NEW dropped, entry' = Without(dropped)
        PROVE  Bounded'
    BY <1>2, <1>4 DEF Registered, Without
  <1>5. ASSUME NEW t \in Threads, NEW k \in Keys, BorrowKnown(t, k)
        PROVE  Bounded'
    BY <1>2, <1>5 DEF BorrowKnown, Borrow, Registered, Without
  <1>6. ASSUME NEW t \in Threads, NEW k \in Keys, BorrowNew(t, k)
        PROVE  Bounded'
    <2> DEFINE dropped == Evicted(state, Registered \union {k}, k)
    <2>1. k \notin dropped
      BY EvictedIdle
    <2>2. PICK o \in Objects : entry' = [Without(dropped) EXCEPT ![k] = o]
      BY <1>6 DEF BorrowNew, Borrow
    <2>3. Cardinality((Registered \union {k}) \ dropped) <= MaxEntries
      BY <1>6 DEF BorrowNew
    <2> HIDE DEF dropped
    <2>4. Registered' = (Registered \union {k}) \ dropped
      BY <2>1, <2>2 DEF Registered, Without, RegistryAssumption
    <2>5. IsFiniteSet(Registered')
      BY <1>1, <2>4, FS_AddElement, FS_Subset
    <2> QED
      BY <2>3, <2>4, <2>5 DEF Bounded, RegistryBounded
  <1>7. ASSUME NEW t \in Threads, NEW k \in Keys, Exhausted(t, k)
        PROVE  Bounded'
    BY <1>4, <1>7 DEF Exhausted
  <1>8. ASSUME NEW t \in Threads, Release(t)
        PROVE  Bounded'
    BY <1>4, <1>8 DEF Release
  <1> QED
    BY <1>3, <1>5, <1>6, <1>7, <1>8
    DEF RegistryNext, Attempt, ThreadStep, RegistryTick, EnterBusy, Enter, Stamp, FinishTurn, Interrupt, registryVars

\* The empty registry keeps all promises.
LEMMA RegistryInitInv ==
  ASSUME PacingAssumption, RegistryAssumption, RegistryInit
  PROVE  RegistryInv
  <1>1. RegistryTypeOK
    <2>1. state \in [Objects -> State]
      BY FreshState DEF RegistryInit
    <2> QED
      BY <2>1 DEF RegistryInit, RegistryTypeOK, PacingAssumption
  <1>2. Counted
    <2>1. \A o \in Objects : Users(o) = {}
      BY DEF RegistryInit, Users
    <2> QED
      BY <2>1, FS_EmptySet DEF RegistryInit, Counted, Fresh
  <1>3. Attached /\ Separate /\ Gate /\ Stamps
    BY DEF RegistryInit, Attached, Separate, Gate, Owner, Stamps
  <1>4. Bounded
    <2>1. Registered = {}
      BY DEF RegistryInit, Registered
    <2> QED
      BY <2>1, FS_EmptySet DEF Bounded, RegistryBounded, RegistryAssumption
  <1> QED
    BY <1>1, <1>2, <1>3, <1>4 DEF RegistryInv

\* The inductive invariant: borrowers are counted, eviction takes nothing that is
\* referred to, so a thread's state stays the registry's state of its transport,
\* and its stamps are the ages of that transport's sends.
THEOREM RegistryInvariance == RegistrySpec => []RegistryInv
  <1>1. RegistryInit => RegistryInv
    BY RegistryInitInv, PacingAssumption, RegistryAssumption
  <1>2. RegistryInv /\ [RegistryNext]_registryVars => RegistryInv'
    <2> SUFFICES ASSUME RegistryInv, [RegistryNext]_registryVars
                 PROVE  RegistryInv'
      OBVIOUS
    <2> USE PacingAssumption, RegistryAssumption
    <2>0. RegistryTypeOK /\ Counted /\ Attached /\ Separate /\ Gate /\ Stamps /\ Bounded
      BY DEF RegistryInv
    <2> DEFINE Kept == RegistryTypeOK' /\ Counted' /\ Attached' /\ Separate' /\ Gate' /\ Stamps'
    <2>1. ASSUME RegistryTick
          PROVE  Kept
      BY <2>0, <2>1, TickStep
    <2>2. ASSUME NEW t \in Threads, NEW k \in Keys, BorrowKnown(t, k) \/ BorrowNew(t, k)
          PROVE  Kept
      <3>1. PICK o \in Objects, dropped \in SUBSET Keys : Borrowing(t, k, o, dropped)
        BY <2>0, <2>2, Borrows
      <3> QED
        BY <2>0, <3>1, BorrowStep
    <2>3. ASSUME NEW t \in Threads, NEW k \in Keys, Exhausted(t, k)
          PROVE  Kept
      BY <2>0, <2>3, ExhaustedStep
    <2>4. ASSUME NEW t \in Threads,
                 EnterBusy(t) \/ Enter(t) \/ Stamp(t) \/ FinishTurn(t) \/ Interrupt(t)
          PROVE  Kept
      BY <2>0, <2>4, QuietStep
    <2>5. ASSUME NEW t \in Threads, Release(t)
          PROVE  Kept
      BY <2>0, <2>5, ReleaseStep
    <2>6. ASSUME UNCHANGED registryVars
          PROVE  Kept
      BY <2>0, <2>6 DEF registryVars, RegistryTypeOK, Counted, Users, Attached, Separate, Gate, Owner, Stamps
    <2> HIDE DEF Kept
    <2>7. Kept
      BY <2>1, <2>2, <2>3, <2>4, <2>5, <2>6 DEF RegistryNext, Attempt, ThreadStep
    <2>8. Bounded'
      BY <2>0, BoundedStep
    <2> QED
      BY <2>7, <2>8 DEF RegistryInv, Kept
  <1> QED
    BY <1>1, <1>2, PTL DEF RegistrySpec

\* Every step keeps the types of the registry, its states and the threads.
THEOREM RegistryTypeCorrect == RegistrySpec => []RegistryTypeOK
  <1>1. RegistryInv => RegistryTypeOK
    BY DEF RegistryInv
  <1> QED
    BY <1>1, RegistryInvariance, PTL

\* _shared_pacing_state: the registry stays within its limit however many
\* transports are asked for, for any number of threads.
THEOREM Limit == RegistrySpec => []RegistryBounded
  <1>1. RegistryInv => RegistryBounded
    BY DEF RegistryInv, Bounded
  <1> QED
    BY <1>1, RegistryInvariance, PTL

\* _evict_idle_pacing_states never parts two threads of one transport.
THEOREM Shared == RegistrySpec => []SharedState
  <1>1. RegistryInv => SharedState
    BY DEF RegistryInv, Attached, SharedState
  <1> QED
    BY <1>1, RegistryInvariance, PTL
-------------------------------------------------------------------------------
Sending == {k \in Keys : \E t \in Threads : pc[t] = "send" /\ key[t] = k}

\* Who sends for a transport is alone in that.
LEMMA Alone ==
  ASSUME RegistryInv, NEW t \in Threads, NEW u \in Threads, Owner(t), Owner(u), key[t] = key[u]
  PROVE  t = u
  BY DEF RegistryInv, Attached, Gate, Owner

\* A step that neither starts nor ends a send is no step of the pacing.
LEMMA Stutter ==
  ASSUME \A t \in Threads : /\ pc'[t] = "send" <=> pc[t] = "send"
                            /\ pc[t] = "send" => key'[t] = key[t],
         UNCHANGED <<startAge, answerAge>>
  PROVE  UNCHANGED PacedThreads!vars
  BY DEF PacedThreads!vars

\* Each step of the registry and its threads is one of the pacing, or none.
LEMMA RegistryPacedStep ==
  ASSUME RegistryInv, [RegistryNext]_registryVars
  PROVE  [PacedThreads!Next]_(PacedThreads!vars)
  <1> USE PacingAssumption, RegistryAssumption
  <1>1. CASE RegistryTick
    BY <1>1 DEF RegistryTick, Older, PacedThreads!Next, PacedThreads!Tick
  <1>2. ASSUME NEW t \in Threads, Stamp(t)
        PROVE  PacedThreads!Next
    <2> DEFINE k == key[t]
    <2>1. k \in Keys /\ entry[k] = mine[t] /\ mine[t] \in Objects /\ entry[k] # None
      BY <1>2 DEF RegistryInv, Attached, Stamp, RegistryAssumption
    <2>2. startAge[k] >= Interval /\ answerAge[k] >= Settle
      BY <1>2, <2>1 DEF RegistryInv, Stamps, Stamp, Cooled
    <2>3. k \notin Sending
      BY <1>2, Alone DEF Stamp, Sending, Owner
    <2>4. Sending' = Sending \union {k}
      BY <1>2, <2>1 DEF Stamp, Sending, RegistryInv, RegistryTypeOK
    <2>5. startAge' = [startAge EXCEPT ![k] = 0] /\ UNCHANGED answerAge
      BY <1>2 DEF Stamp
    <2> QED
      BY <2>1, <2>2, <2>3, <2>4, <2>5 DEF PacedThreads!Next, PacedThreads!Start, Sending
  <1>3. ASSUME NEW t \in Threads, FinishTurn(t)
        PROVE  PacedThreads!Next
    <2> DEFINE k == key[t]
    <2>1. k \in Keys /\ pc[t] = "send"
      BY <1>3 DEF RegistryInv, Attached, FinishTurn
    <2>2. \A u \in Threads : pc'[u] = "send" <=> pc[u] = "send" /\ u # t
      BY <1>3 DEF FinishTurn, ReleasedBy, RegistryInv, RegistryTypeOK
    <2>3. \A u \in Threads : pc[u] = "send" /\ key[u] = k => u = t
      BY <2>1, Alone DEF Owner
    <2>4. k \in Sending /\ Sending' = Sending \ {k}
      BY <1>3, <2>1, <2>2, <2>3 DEF FinishTurn, Sending
    <2>5. UNCHANGED startAge /\ answerAge' \in {answerAge, [answerAge EXCEPT ![k] = 0]}
      BY <1>3 DEF FinishTurn
    <2> QED
      BY <2>1, <2>4, <2>5 DEF PacedThreads!Next, PacedThreads!Stop, Sending
  <1>4. ASSUME NEW t \in Threads, NEW k \in Keys,
               BorrowKnown(t, k) \/ BorrowNew(t, k) \/ Exhausted(t, k)
        PROVE  UNCHANGED PacedThreads!vars
    <2>1. /\ \A u \in Threads : /\ pc'[u] = "send" <=> pc[u] = "send"
                                /\ pc[u] = "send" => key'[u] = key[u]
          /\ UNCHANGED <<startAge, answerAge>>
      BY <1>4 DEF BorrowKnown, BorrowNew, Exhausted, Borrow, RegistryInv, RegistryTypeOK
    <2> QED
      BY <2>1, Stutter
  <1>5. ASSUME NEW t \in Threads, EnterBusy(t) \/ Enter(t) \/ Release(t) \/ Interrupt(t)
        PROVE  UNCHANGED PacedThreads!vars
    <2>1. /\ \A u \in Threads : /\ pc'[u] = "send" <=> pc[u] = "send"
                                /\ pc[u] = "send" => key'[u] = key[u]
          /\ UNCHANGED <<startAge, answerAge>>
      BY <1>5 DEF EnterBusy, Enter, Release, Interrupt, ReleasedBy, RegistryInv, RegistryTypeOK
    <2> QED
      BY <2>1, Stutter
  <1>6. CASE UNCHANGED registryVars
    BY <1>6 DEF registryVars, PacedThreads!vars
  <1> QED
    BY <1>1, <1>2, <1>3, <1>4, <1>5, <1>6 DEF RegistryNext, Attempt, ThreadStep

\* The registry implements the pacing: for any number of threads and transports,
\* eviction and re-creation of states included, sends of a transport are
\* exclusive and keep their distance.
THEOREM RegistryRefinement == RegistrySpec => RegistryImplements
  <1>1. RegistryInit => PacedThreads!Init
    BY DEF RegistryInit, PacedThreads!Init
  <1>2. RegistryInv /\ [RegistryNext]_registryVars => [PacedThreads!Next]_(PacedThreads!vars)
    BY RegistryPacedStep
  <1> QED
    BY <1>1, <1>2, RegistryInvariance, PTL DEF RegistrySpec, RegistryImplements, PacedThreads!Spec
==============================================================================
