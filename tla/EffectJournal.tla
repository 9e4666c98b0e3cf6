---------------------------- MODULE EffectJournal -----------------------------
(***************************************************************************)
(* Durable INTENT/RESULT records for scoped file mutation: the tool        *)
(* methods of ScopedRepairBackend (cli.py) over DurableEffectJournal       *)
(* (recovery.py).  One worker process executes the tool calls of one       *)
(* operation (the operation fence keeps a second process out); it can stop *)
(* between any two durable steps and be restarted, and after a restart the *)
(* same call, with the same call id, may be executed again.  Editors and   *)
(* operations that share the workspace change files meanwhile.             *)
(*                                                                         *)
(* Abstractions.  A text is a model value and a digest is the text itself. *)
(* An effect's identity hashes turn, call, tool and arguments; the first   *)
(* three and the path are the model's call, and of the arguments only the  *)
(* resulting text can differ between two executions of a call (the         *)
(* arguments recorded for edit_file hold the edited text, not the edit).   *)
(* A step that reads the file and decides is one action; the decision and  *)
(* the write it leads to are two.  A raise inside a tool leaves what an    *)
(* interruption there leaves.  A text read through a symlink that appeared *)
(* during the call is taken to differ from the postimage.                  *)
(***************************************************************************)
EXTENDS Naturals

CONSTANTS
  Calls,         \* the tool calls of the operation's turns
  Files,         \* the authorized files they name
  Exclusive,     \* the files nobody else writes while a call on them runs
  Contents,      \* the texts a file can hold
  Absent,        \* no file at the path
  Symlink,       \* a symlink at the path
  NoMatch,       \* edit_file's old string is not in the text
  Tool,          \* Tool[c]: write_file, edit_file or the composite tool
  Target,        \* Target[c]: the file the call names
  Text,          \* Text[c]: the content argument of a write
  Rewrite,       \* Rewrite[c][text]: the replacement an edit makes
  MaxExternal    \* bound: changes made by others

Composite == "write_file_and_record_worker_result"
Tools == {"write_file", "edit_file", Composite}
Image == Contents \cup {Absent, Symlink}

ASSUME ConstantsAssumption ==
  /\ Exclusive \subseteq Files
  /\ Contents \cap {Absent, Symlink, NoMatch} = {}
  /\ Absent # Symlink
  /\ Tool \in [Calls -> Tools]
  /\ Target \in [Calls -> Files]
  /\ Text \in [Calls -> Contents]
  /\ Rewrite \in [Calls -> [Contents -> Contents \cup {NoMatch}]]
  /\ MaxExternal \in Nat

Effects == Calls \X Contents
PathOf(e) == Target[e[1]]
PostOf(e) == e[2]

VARIABLES
  file,          \* [Files -> Image]: the workspace
  rec,           \* the durable record of each effect
  pc,            \* where the worker is in a tool call
  eff,           \* the Effect object in the worker's memory
  held,          \* history: what the file of each effect has held since its INTENT
  ext            \* how many changes others have made

vars == <<file, rec, pc, eff, held, ext>>

Idle == [call |-> "none"]
Memory == [call : Calls, pre : Image, post : Contents]
Record == [status : {"none", "INTENT", "RESULT"}, pre : Image, receipt : BOOLEAN]
Steps == {"idle", "intent", "recover", "replace", "verify", "record", "receipt"}

Id == <<eff.call, eff.post>>     \* effect_id of the effect in memory
Place == Target[eff.call]

Init ==
  /\ file \in [Files -> Image]
  /\ rec = [e \in Effects |-> [status |-> "none", pre |-> Absent, receipt |-> FALSE]]
  /\ pc = "idle"
  /\ eff = Idle
  /\ held = [e \in Effects |-> {}]
  /\ ext = 0

Put(f, v) ==
  /\ file' = [file EXCEPT ![f] = v]
  /\ held' = [e \in Effects |->
                IF PathOf(e) = f /\ rec[e].status # "none" THEN held[e] \cup {v} ELSE held[e]]

\* The method ends: it returns to the tool loop, raises, or its process dies.
Leave == pc' = "idle" /\ eff' = Idle

\* The text a call would leave, given what its file holds now.
Outcome(c, old) ==
  IF Tool[c] = "edit_file" THEN Rewrite[c][old] ELSE Text[c]

\* write, edit and write_and_record_worker_result up to the journal: authorize
\* the path (never a symlink), read the old text, work out the new one.  A call
\* refused here changes nothing.
Open(c) ==
  LET old == file[Target[c]] IN
  /\ pc = "idle"
  /\ old # Symlink
  /\ Tool[c] = "edit_file" => old # Absent
  /\ Outcome(c, old) # NoMatch
  /\ eff' = [call |-> c, pre |-> old, post |-> Outcome(c, old)]
  /\ pc' = "intent"
  /\ UNCHANGED <<file, rec, held, ext>>

\* The record of an effect begins, and with it what its file has held.
Begin ==
  /\ rec' = [rec EXCEPT ![Id] = [status |-> "INTENT", pre |-> eff.pre, receipt |-> FALSE]]
  /\ held' = [held EXCEPT ![Id] = {file[Place]}]

\* Fault: intent starts a fresh record for a call that already has one.
IntentAnew ==
  /\ pc = "intent"
  /\ pc' = "recover"
  /\ Begin
  /\ UNCHANGED <<file, eff, ext>>

\* intent: an existing record wins, with the preimage it was made against.
Intent ==
  /\ pc = "intent"
  /\ pc' = "recover"
  /\ \/ /\ rec[Id].status # "none"
        /\ eff' = [eff EXCEPT !.pre = rec[Id].pre]
        /\ UNCHANGED <<rec, held>>
     \/ /\ rec[Id].status = "none"
        /\ Begin
        /\ UNCHANGED eff
  /\ UNCHANGED <<file, ext>>

\* Fault: the composite tool goes on without the Effect it needs.
ReturnForgetting ==
  IF Tool[eff.call] = Composite THEN pc' = "receipt" /\ eff' = Idle ELSE Leave

\* Back in the caller: the composite tool goes on to the receipt.
Return ==
  IF Tool[eff.call] = Composite
    THEN pc' = "receipt" /\ UNCHANGED eff
    ELSE Leave

\* Fault: a changed file is taken for the effect already applied.
DecideChanged ==
  /\ pc = "recover"
  /\ file[Place] # Symlink
  /\ \/ rec[Id].status = "RESULT" /\ Return
     \/ /\ rec[Id].status # "RESULT"
        /\ pc' = (IF file[Place] = eff.pre THEN "replace" ELSE "record")
        /\ UNCHANGED eff
  /\ UNCHANGED <<file, rec, held, ext>>

\* Fault: the preimage is not compared before the write.
DecideBlind ==
  /\ pc = "recover"
  /\ file[Place] # Symlink
  /\ \/ rec[Id].status = "RESULT" /\ Return
     \/ /\ rec[Id].status # "RESULT"
        /\ pc' = (IF file[Place] = eff.post THEN "record" ELSE "replace")
        /\ UNCHANGED eff
  /\ UNCHANGED <<file, rec, held, ext>>

\* recover_write up to its decision.
Decide ==
  /\ pc = "recover"
  /\ file[Place] # Symlink
  /\ \/ /\ rec[Id].status = "RESULT"
        /\ Return
     \/ /\ rec[Id].status # "RESULT"
        /\ file[Place] = eff.post
        /\ pc' = "record" /\ UNCHANGED eff
     \/ /\ rec[Id].status # "RESULT"
        /\ file[Place] # eff.post
        /\ file[Place] = eff.pre
        /\ pc' = "replace" /\ UNCHANGED eff
  /\ UNCHANGED <<file, rec, held, ext>>

\* recover_write raises: a symlink, neither image, or a failed verification.
Raise ==
  /\ \/ pc = "recover" /\ file[Place] = Symlink
     \/ pc = "recover" /\ rec[Id].status # "RESULT" /\ file[Place] \notin {eff.pre, eff.post}
     \/ pc = "verify" /\ file[Place] # eff.post
  /\ Leave
  /\ UNCHANGED <<file, rec, held, ext>>

\* os.replace of the written and fsynced temporary file.
Replace ==
  /\ pc = "replace"
  /\ Put(Place, eff.post)
  /\ pc' = "verify"
  /\ UNCHANGED <<rec, eff, ext>>

Verify ==
  /\ pc = "verify"
  /\ file[Place] = eff.post
  /\ pc' = "record"
  /\ UNCHANGED <<file, rec, eff, held, ext>>

\* The RESULT record, written from the Effect in memory over whatever is there.
RecordResult ==
  /\ pc = "record"
  /\ rec' = [rec EXCEPT ![Id] = [status |-> "RESULT", pre |-> eff.pre, receipt |-> FALSE]]
  /\ Return
  /\ UNCHANGED <<file, held, ext>>

\* record_worker_result: needs the matching RESULT, else raises; idempotent.
RecordWorkerResult ==
  /\ pc = "receipt"
  /\ \/ /\ rec[Id].status = "RESULT" /\ rec[Id].pre = eff.pre
        /\ rec' = [rec EXCEPT ![Id].receipt = TRUE]
     \/ /\ ~(rec[Id].status = "RESULT" /\ rec[Id].pre = eff.pre)
        /\ UNCHANGED rec
  /\ Leave
  /\ UNCHANGED <<file, held, ext>>

\* The process stops between two steps, or a step of the method raises.
Crash ==
  /\ pc # "idle"
  /\ Leave
  /\ UNCHANGED <<file, rec, held, ext>>

\* Somebody else changes a file.
External(f, v) ==
  /\ ext < MaxExternal
  /\ f \in Exclusive /\ pc # "idle" => Place # f
  /\ file[f] # v
  /\ Put(f, v)
  /\ ext' = ext + 1
  /\ UNCHANGED <<rec, pc, eff>>

Next ==
  \/ \E c \in Calls : Open(c)
  \/ Intent \/ Decide \/ Raise \/ Replace \/ Verify
  \/ RecordResult \/ RecordWorkerResult \/ Crash
  \/ \E f \in Files, v \in Image : External(f, v)

Spec == Init /\ [][Next]_vars
-------------------------------------------------------------------------------
\* Every variable has its type; a running call has an Effect in memory.
TypeOK ==
  /\ file \in [Files -> Image]
  /\ rec \in [Effects -> Record]
  /\ pc \in Steps
  /\ eff \in Memory \cup {Idle}
  /\ pc # "idle" => eff \in Memory
  /\ held \in [Effects -> SUBSET Image]
  /\ ext \in Nat

\* A RESULT record is never a guess: at some moment since its INTENT was written
\* the file really held that effect's text, whatever crashed or wrote in between,
\* and a text the file held only before does not count (recover_write records
\* RESULT only after seeing the postimage, and a result read back by
\* result_effects or run_created_files is taken as proof).
ResultWasHeld ==
  \A e \in Effects : rec[e].status = "RESULT" => PostOf(e) \in held[e]

\* A record is never lost or weakened by a replay: the preimage it was made
\* against stays, RESULT never falls back to INTENT, and the rewrite of a RESULT
\* never drops a worker receipt (recover_write rewrites the whole record).
RecordsNeverRegress ==
  [][\A e \in Effects :
       /\ rec[e].status # "none" => rec'[e].status # "none" /\ rec'[e].pre = rec[e].pre
       /\ rec[e].status = "RESULT" => rec'[e].status = "RESULT"
       /\ rec[e].receipt => rec'[e].receipt]_vars

\* The journal over the exclusive files implements the abstract atomic writes:
\* one begin per effect, a change of a file only from the recorded preimage to
\* the postimage of a pending effect, and done only while the postimage is there.
ExclusiveEffects == {e \in Effects : PathOf(e) \in Exclusive}
Stage(e) ==
  CASE rec[e].status = "none" -> "none"
    [] rec[e].status = "INTENT" -> "pending"
    [] OTHER -> "done"

Abstract ==
  INSTANCE AtomicWrites WITH
    Effects  <- ExclusiveEffects,
    Files    <- Exclusive,
    Path     <- [e \in ExclusiveEffects |-> PathOf(e)],
    Post     <- [e \in ExclusiveEffects |-> PostOf(e)],
    file     <- [f \in Exclusive |-> file[f]],
    stage    <- [e \in ExclusiveEffects |-> Stage(e)],
    preimage <- [e \in ExclusiveEffects |-> rec[e].pre],
    foreign  <- ext

Implements == Abstract!Spec
===============================================================================
