--------------------------- MODULE MCOperationFlock ---------------------------
(***************************************************************************)
(* Two threads of one process and one of another on the same operation, as *)
(* in a test that submits two runs to a thread pool, and beside them one   *)
(* thread of each process on a second operation.                           *)
(***************************************************************************)
EXTENDS OperationFlock, TLC

CONSTANTS t1, t2, t3, t4, t5, p, q, op, op2

MCThreads == {t1, t2, t3, t4, t5}
MCRacing == {t1, t2, t3}
MCProcesses == {p, q}
MCProcessOf == [t \in Threads |-> IF t \in {t3, t5} THEN q ELSE p]
MCLocks == {op, op2}
MCLockOf == [t \in Threads |-> IF t \in {t4, t5} THEN op2 ELSE op]
MCMayDie == {q}

MCMaxNested == [t \in Threads |-> IF t = t1 THEN 2 ELSE IF t = t3 THEN 1 ELSE 0]
MCMaxRounds == [t \in Threads |-> 1]
MCMaxFences == [l \in Locks |-> IF l = op THEN 2 ELSE 0]
===============================================================================
