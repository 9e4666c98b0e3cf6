---------------------------- MODULE DurablePacing ----------------------------
(***************************************************************************)
(* The durable pacing of opencli_web_model.py: processes that send through *)
(* one transport and share a lock file and a state file                    *)
(* (DurablePacingBackend, _durable_send_and_reconcile). Another transport  *)
(* has other files, so one is enough.                                      *)
(*                                                                         *)
(* Abstractions: a stamp is its age by the wall clock, which may be set    *)
(* back; an age is negative while the stamp lies in the future, and Old    *)
(* stands for any age beyond Past and for the stamp 0. The lock is the     *)
(* kernel's: one holder, freed by its death. Damaged files and foreign     *)
(* owners, which only refuse, are left out. Reading the clock, replacing   *)
(* the file and starting the command are one step: the guarantee is about  *)
(* the recorded start.                                                     *)
(***************************************************************************)
EXTENDS Pacing

VARIABLES
  holder,       \* who holds the lock file
  file,         \* the state file: ages of last_send_started, last_response_finished
  at,           \* where a process is in _durable_send_and_reconcile
  left,         \* what is left of its sleep
  setBacks,
  stops,
  sinceStart,   \* history: real time since a send started
  sinceAnswer   \* history: real time since a recorded answer

durableVars == <<holder, file, at, left, setBacks, stops, sinceStart, sinceAnswer>>

Old == Past + 1

Init ==
  /\ holder = Nobody
  /\ file = NoFile
  /\ at = [p \in Processes |-> "idle"]
  /\ left = [p \in Processes |-> 0]
  /\ setBacks = 0
  /\ stops = 0
  /\ sinceStart = Interval
  /\ sinceAnswer = Settle

-----------------------------------------------------------------------------
\* Fault: a stamp older than a day is refused like one in the future.
RefusedOld(f) ==
  f # NoFile /\ \E age \in {f.sent, f.answered} : age < -Future \/ age = Old

\* OPENCLI_WEB_DURABLE_STATE_UNSAFE: a stamp too far in the future.
Refused(f) == f # NoFile /\ (f.sent < -Future \/ f.answered < -Future)

\* Fault: a process that lost its predecessor takes the state for settled.
WaitAnswered(f) == IF f = NoFile THEN 0 ELSE Larger(0, Settle - f.answered)

\* Fault: the eligible time is taken as it is, even if it has passed.
WaitPassed(f) ==
  IF f = NoFile THEN 0 ELSE Larger(Interval - f.sent, Settle - f.answered)

\* How long to sleep: eligible_at - now.
Wait(f) ==
  IF f = NoFile THEN 0
  ELSE Larger(0, Larger(Interval - f.sent, Settle - f.answered))

Acquire(p) ==
  /\ at[p] = "idle"
  /\ holder = Nobody
  /\ holder' = p
  /\ at' = [at EXCEPT ![p] = "locked"]
  /\ UNCHANGED <<file, left, setBacks, stops, sinceStart, sinceAnswer>>

Unlock(p) ==
  /\ holder' = Nobody
  /\ at' = [at EXCEPT ![p] = "idle"]
  /\ left' = [left EXCEPT ![p] = 0]

Refuse(p) ==
  /\ at[p] = "locked"
  /\ Refused(file)
  /\ Unlock(p)
  /\ UNCHANGED <<file, setBacks, stops, sinceStart, sinceAnswer>>

Read(p) ==
  /\ at[p] = "locked"
  /\ ~Refused(file)
  /\ left' = [left EXCEPT ![p] = Wait(file)]
  /\ at' = [at EXCEPT ![p] = "sleep"]
  /\ UNCHANGED <<holder, file, setBacks, stops, sinceStart, sinceAnswer>>

\* _write_durable_state: the whole file is replaced.
WriteState(sent, answered) == file' = [sent |-> sent, answered |-> answered]

\* The sleep is over: the send time is on disk before the prompt goes out.
Record(p) ==
  /\ at[p] = "sleep"
  /\ left[p] = 0
  /\ WriteState(0, IF file = NoFile THEN Old ELSE file.answered)
  /\ sinceStart' = 0
  /\ at' = [at EXCEPT ![p] = "send"]
  /\ UNCHANGED <<holder, left, setBacks, stops, sinceAnswer>>

\* Fault: the finish record forgets when the send started.
FinishForgetting(p) ==
  /\ at[p] = "send"
  /\ WriteState(Old, 0)
  /\ sinceAnswer' = 0
  /\ Unlock(p)
  /\ UNCHANGED <<setBacks, stops, sinceStart>>

\* The response was read to its end and the finish time is on disk.
Finish(p) ==
  /\ at[p] = "send"
  /\ WriteState(file.sent, 0)
  /\ sinceAnswer' = 0
  /\ Unlock(p)
  /\ UNCHANGED <<setBacks, stops, sinceStart>>

\* The send fails, needs a resume, or its process is killed: whatever was
\* answered, no finish time is written.
Fail(p) ==
  /\ at[p] = "send"
  /\ Unlock(p)
  /\ UNCHANGED <<file, setBacks, stops, sinceStart, sinceAnswer>>

\* An exception or a death before the send.
Stop(p) ==
  /\ stops < MaxStops
  /\ at[p] \in {"locked", "sleep"}
  /\ stops' = stops + 1
  /\ Unlock(p)
  /\ UNCHANGED <<file, setBacks, sinceStart, sinceAnswer>>

Tick ==
  /\ file' = IF file = NoFile THEN NoFile
             ELSE [sent |-> Older(file.sent, Old), answered |-> Older(file.answered, Old)]
  /\ left' = [p \in Processes |-> IF left[p] > 0 THEN left[p] - 1 ELSE 0]
  /\ sinceStart' = Older(sinceStart, Interval)
  /\ sinceAnswer' = Older(sinceAnswer, Settle)
  /\ UNCHANGED <<holder, at, setBacks, stops>>

\* The ages a stamp may have once the clock is set back by d.
Earlier(age, d) == IF age = Old THEN (Old - d)..Old ELSE {age - d}

SetBack ==
  /\ setBacks < MaxSetBacks
  /\ file # NoFile
  /\ \E d \in 1..MaxBack :
       \E sent \in Earlier(file.sent, d), answered \in Earlier(file.answered, d) :
          file' = [sent |-> sent, answered |-> answered]
  /\ setBacks' = setBacks + 1
  /\ UNCHANGED <<holder, at, left, stops, sinceStart, sinceAnswer>>

Proceed(p) == Acquire(p) \/ Refuse(p) \/ Read(p) \/ Record(p) \/ Finish(p) \/ Fail(p)

Next == Tick \/ SetBack \/ \E p \in Processes : Proceed(p) \/ Stop(p)

Spec == Init /\ [][Next]_durableVars

-----------------------------------------------------------------------------
File == [sent : Int, answered : Int]

TypeOK ==
  /\ holder \in Processes \union {Nobody}
  /\ file \in File \union {NoFile}
  /\ at \in [Processes -> {"idle", "locked", "sleep", "send"}]
  /\ left \in [Processes -> Nat]
  /\ setBacks \in Nat
  /\ stops \in Nat
  /\ sinceStart \in 0..Interval
  /\ sinceAnswer \in 0..Settle

Paced == INSTANCE PacedSends WITH
  Transports <- {NoFile},
  sending <- IF \E p \in Processes : at[p] = "send" THEN {NoFile} ELSE {},
  sinceStart <- [k \in {NoFile} |-> sinceStart],
  sinceAnswer <- [k \in {NoFile} |-> sinceAnswer]

\* Whoever is killed when, and however the clock is set back: by real time the
\* sends of all processes are exclusive, Interval apart, and Settle after an
\* answer that was recorded.
Implements == Paced!Spec

=============================================================================
