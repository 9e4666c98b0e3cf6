----------------------------- MODULE PacedSends -----------------------------
(***************************************************************************)
(* What send pacing promises, whichever backend keeps the time stamps: a   *)
(* transport has at most one send in flight, a send starts no sooner than  *)
(* Interval after the start of the previous one, and no sooner than Settle *)
(* after a response of that transport was seen to its end.                 *)
(*                                                                         *)
(* Time is counted as the age of the last start and of the last answer. An *)
(* age stops at the limit it is compared with, so that time itself needs   *)
(* no bound.                                                               *)
(***************************************************************************)
EXTENDS Naturals

CONSTANTS
  Transports,  \* the browser profiles prompts are sent through
  Interval,    \* least time between the starts of two sends
  Settle       \* least time between an answer and the next send

VARIABLES
  sending,      \* the transports with a send in flight
  sinceStart,   \* per transport: time since the last send started
  sinceAnswer   \* per transport: time since the last answer ended

vars == <<sending, sinceStart, sinceAnswer>>

Init ==
  /\ sending = {}
  /\ sinceStart = [k \in Transports |-> Interval]
  /\ sinceAnswer = [k \in Transports |-> Settle]

Start(k) ==
  /\ k \notin sending
  /\ sinceStart[k] >= Interval
  /\ sinceAnswer[k] >= Settle
  /\ sending' = sending \union {k}
  /\ sinceStart' = [sinceStart EXCEPT ![k] = 0]
  /\ UNCHANGED sinceAnswer

Stop(k) ==
  /\ k \in sending
  /\ sending' = sending \ {k}
  /\ sinceAnswer' \in {sinceAnswer, [sinceAnswer EXCEPT ![k] = 0]}
  /\ UNCHANGED sinceStart

Tick ==
  /\ sinceStart' = [k \in Transports |->
                      IF sinceStart[k] < Interval THEN sinceStart[k] + 1 ELSE Interval]
  /\ sinceAnswer' = [k \in Transports |->
                      IF sinceAnswer[k] < Settle THEN sinceAnswer[k] + 1 ELSE Settle]
  /\ UNCHANGED sending

Next == Tick \/ \E k \in Transports : Start(k) \/ Stop(k)

Spec == Init /\ [][Next]_vars
=============================================================================
