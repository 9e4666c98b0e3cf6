-------------------------- MODULE MCWorkerOperation ---------------------------
(***************************************************************************)
(* Two processes serve requests.  The configurations choose the operations *)
(* a (worker) and s (semantic).                                            *)
(***************************************************************************)
EXTENDS WorkerOperation

CONSTANTS p, q, a, s

MCProcesses == {p, q}
===============================================================================
