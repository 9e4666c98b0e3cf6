---------------------------- MODULE OperationFence ----------------------------
(***************************************************************************)
(* What operation_flock and the fence of the operation journal promise to  *)
(* the run, the reconcile and the journal updates inside them, with the    *)
(* table, its guard and the lock file out of sight.  An operation has one  *)
(* holder at a time.  Only the holder enters again, one body at a time,    *)
(* and leaves its bodies in the reverse order; the operation is free when  *)
(* the outermost is left, or when the holder's process is killed.  A fence *)
(* gives its holder the next lease epoch in one step.                      *)
(***************************************************************************)
EXTENDS Naturals

CONSTANTS
  Threads, Processes, Locks,
  NoThread,      \* nobody
  ProcessOf,     \* [Threads -> Processes]
  LockOf         \* [Threads -> Locks]: the operation a thread works on

VARIABLES
  holder,        \* [Locks -> Threads \cup {NoThread}]
  level,         \* [Locks -> Nat]: how many bodies the holder is in
  epoch          \* [Locks -> Nat]: the last lease epoch given out

vars == <<holder, level, epoch>>

Init ==
  /\ holder = [l \in Locks |-> NoThread]
  /\ level = [l \in Locks |-> 0]
  /\ epoch = [l \in Locks |-> 0]

Take(t) ==
  /\ holder[LockOf[t]] = NoThread
  /\ holder' = [holder EXCEPT ![LockOf[t]] = t]
  /\ level' = [level EXCEPT ![LockOf[t]] = 1]
  /\ UNCHANGED epoch

Again(t) ==
  /\ holder[LockOf[t]] = t
  /\ level' = [level EXCEPT ![LockOf[t]] = @ + 1]
  /\ UNCHANGED <<holder, epoch>>

Back(t) ==
  /\ holder[LockOf[t]] = t /\ level[LockOf[t]] > 1
  /\ level' = [level EXCEPT ![LockOf[t]] = @ - 1]
  /\ UNCHANGED <<holder, epoch>>

Leave(t) ==
  /\ holder[LockOf[t]] = t /\ level[LockOf[t]] = 1
  /\ holder' = [holder EXCEPT ![LockOf[t]] = NoThread]
  /\ level' = [level EXCEPT ![LockOf[t]] = 0]
  /\ UNCHANGED epoch

Fence(t) ==
  /\ holder[LockOf[t]] = t
  /\ epoch' = [epoch EXCEPT ![LockOf[t]] = @ + 1]
  /\ UNCHANGED <<holder, level>>

Killed(p) ==
  LET Lost == {l \in Locks : holder[l] \in Threads /\ ProcessOf[holder[l]] = p} IN
  /\ holder' = [l \in Locks |-> IF l \in Lost THEN NoThread ELSE holder[l]]
  /\ level' = [l \in Locks |-> IF l \in Lost THEN 0 ELSE level[l]]
  /\ UNCHANGED epoch

Next ==
  \/ \E t \in Threads : Take(t) \/ Again(t) \/ Back(t) \/ Leave(t) \/ Fence(t)
  \/ \E p \in Processes : Killed(p)

Spec == Init /\ [][Next]_vars
===============================================================================
