------------------------------ MODULE RepairLoop ------------------------------
(***************************************************************************)
(* The tool loop of the repair graph: the chat model turns each web        *)
(* response into tool calls (opencli_web_model.py: _generate and the batch *)
(* functions), the executor runs them one at a time and checkpoints every  *)
(* message, and worker_reconcile (cli.py) puts a restarted operation back  *)
(* at the call its journal and its checkpoint agree on.                    *)
(*                                                                         *)
(* A response is a single call or a batch.  A batch is released call by    *)
(* call, each after the success of the one before.  A turn is journaled    *)
(* before its ask is sent and once its response is read; WebTurn has the   *)
(* details of that exchange and EffectJournal those of one tool call.      *)
(* Here a file is reduced to how often each call has changed it.           *)
(*                                                                         *)
(* External: the graph executor appends the model's message and the tool's *)
(* result to the checkpoint in that order, one step each.  A single call   *)
(* has a fresh message every time it is put into the graph, a batch call   *)
(* keeps its identity and is replaced.  A recorder call always succeeds    *)
(* (an envelope its schema refuses is left out).                           *)
(***************************************************************************)
EXTENDS Naturals, Sequences, FiniteSets

CONSTANTS
  Calls,         \* the tool calls the web model may ask for
  Kind,          \* Kind[c]: read_file, write_file, edit_file or the recorder
  Again,         \* the edits whose old text is still found after the edit
  Responses,     \* what the web model may answer to a turn
  MaxCalls,      \* calls of one response (_MAX_TOOL_CALLS_PER_RESPONSE)
  Budget,        \* web turns of one process (_MAX_WEB_TURNS_PER_OPERATION)
  MaxStops       \* bound: processes that end without a result

Recorder == "record_worker_result"
Kinds == {"read_file", "write_file", "edit_file", Recorder}

\* _batch_calls: at least one call, and the recorder only as the last of them.
WellFormed(r) ==
  /\ r.calls \in Seq(Calls) /\ Len(r.calls) \in 1..MaxCalls
  /\ r.batch \in BOOLEAN
  /\ ~r.batch => Len(r.calls) = 1
  /\ \A i \in 1..Len(r.calls) : Kind[r.calls[i]] = Recorder => i = Len(r.calls)

ASSUME LoopAssumption ==
  /\ Kind \in [Calls -> Kinds]
  /\ Again \subseteq {c \in Calls : Kind[c] = "edit_file"}
  /\ \A r \in Responses : WellFormed(r)
  /\ MaxCalls \in Nat /\ Budget \in Nat /\ MaxStops \in Nat

VARIABLES
  pc,        \* where the process is; "down" when there is none
  jrn,       \* the journal: the turn it names, its status, conversation known
  answer,    \* answer[t]: the web's response to turn t, once it was sent
  ckpt,      \* the checkpointed calls, each with its result
  call,      \* the model message in memory: turn and index of its call
  result,    \* the tool result in memory
  used,      \* web turns this process has reserved
  stops,
  applied,   \* history: how often a call changed its file
  runs       \* history: how often a call was handed to its tool

vars == <<pc, jrn, answer, ckpt, call, result, used, stops, applied, runs>>

Slots == (1..(Budget * (MaxStops + 1))) \X (1..MaxCalls)
NoCall == <<0, 0>>
Ask(slot) == answer[slot[1]].calls[slot[2]]     \* the call a slot stands for
Batch(slot) == answer[slot[1]].batch
Size(slot) == Len(answer[slot[1]].calls)

Init ==
  /\ pc = "model"
  /\ jrn = [turn |-> 0, status |-> "PREPARED", bound |-> FALSE]
  /\ answer = <<>>
  /\ ckpt = <<>>
  /\ call = NoCall
  /\ result = "none"
  /\ used = 0
  /\ stops = 0
  /\ applied = [s \in Slots |-> 0]
  /\ runs = [s \in Slots |-> 0]

Tail1 == ckpt[Len(ckpt)]
Answered == ckpt # <<>> /\ Tail1.result # "none"
Succeeded == ckpt # <<>> /\ Tail1.result = "ok"

\* Fault: only a recorder call that came alone ends the graph.
RecorderCompletedAlone ==
  Succeeded /\ Kind[Ask(Tail1.slot)] = Recorder /\ ~Batch(Tail1.slot)

\* _terminal_recorder_completed.
RecorderCompleted == Succeeded /\ Kind[Ask(Tail1.slot)] = Recorder

\* Fault: the next call of a batch does not wait for a success.
ContinuesAnyway ==
  /\ Answered
  /\ Batch(Tail1.slot)
  /\ Tail1.slot[2] < Size(Tail1.slot)

\* _batch_continuation: a further call of the batch whose call just succeeded.
Continues ==
  /\ Succeeded
  /\ Batch(Tail1.slot)
  /\ Tail1.slot[2] < Size(Tail1.slot)

Quiet == UNCHANGED <<applied, runs, stops>>

\* The process ends without a result: it stops, or an exception (an exhausted
\* budget among them) ends the run.
Stop ==
  /\ stops < MaxStops
  /\ stops' = stops + 1
  /\ pc' = "down"
  /\ call' = NoCall
  /\ result' = "none"
  /\ used' = 0
  /\ UNCHANGED <<jrn, answer, ckpt, applied, runs>>

\* _recorded_payload: the result is the envelope of the only recorder call.
Recorded == {k \in 1..Len(ckpt) : Kind[Ask(ckpt[k].slot)] = Recorder}
ResultAccepted == Cardinality(Recorded) = 1

\* _generate after the recorder: the graph ends.
Finish ==
  /\ pc = "model" /\ RecorderCompleted
  /\ \/ /\ ResultAccepted
        /\ pc' = "done"
        /\ UNCHANGED <<jrn, answer, ckpt, call, result, used>> /\ Quiet
     \/ ~ResultAccepted /\ Stop

Continue ==
  /\ pc = "model" /\ ~RecorderCompleted /\ Continues
  /\ call' = <<Tail1.slot[1], Tail1.slot[2] + 1>>
  /\ pc' = "emit"
  /\ UNCHANGED <<jrn, answer, ckpt, result, used>> /\ Quiet

\* Fault: no budget.
JournalAskUnbounded ==
  /\ pc = "model" /\ ~RecorderCompleted /\ ~Continues
  /\ used' = used + 1
  /\ jrn' = [jrn EXCEPT !.turn = Len(answer) + 1, !.status = "ASK_DISPATCHING"]
  /\ pc' = "send"
  /\ UNCHANGED <<answer, ckpt, call, result>> /\ Quiet

\* A web turn: reserved, journaled, and only then sent.
JournalAsk ==
  /\ pc = "model" /\ ~RecorderCompleted /\ ~Continues
  /\ used < Budget
  /\ used' = used + 1
  /\ jrn' = [jrn EXCEPT !.turn = Len(answer) + 1, !.status = "ASK_DISPATCHING"]
  /\ pc' = "send"
  /\ UNCHANGED <<answer, ckpt, call, result>> /\ Quiet

Send ==
  /\ pc = "send"
  /\ \E r \in Responses : answer' = Append(answer, r)
  /\ pc' = "bind"
  /\ UNCHANGED <<jrn, ckpt, call, result, used>> /\ Quiet

Bind ==
  /\ pc = "bind"
  /\ jrn' = [jrn EXCEPT !.status = "CONVERSATION_BOUND", !.bound = TRUE]
  /\ pc' = "reply"
  /\ UNCHANGED <<answer, ckpt, call, result, used>> /\ Quiet

\* The response is read back and journaled; its first call goes to the graph.
Reply ==
  /\ pc = "reply"
  /\ jrn' = [jrn EXCEPT !.status = "RESPONSE_RECOVERED"]
  /\ call' = <<jrn.turn, 1>>
  /\ pc' = "emit"
  /\ UNCHANGED <<answer, ckpt, result, used>> /\ Quiet

Emit ==
  /\ pc = "emit"
  /\ ckpt' = Append(ckpt, [slot |-> call, result |-> "none"])
  /\ pc' = "tool"
  /\ UNCHANGED <<jrn, answer, call, result, used>> /\ Quiet

\* The executor runs the call at the end of the checkpoint.  A write is recorded
\* by the effect journal and changes the file once; an edit finds its old text in
\* the file as it is now, so a repetition is a new effect or an error.
RunTool ==
  LET s == Tail1.slot
      c == Ask(s)
      Changed == Kind[c] \in {"write_file", "edit_file"} /\ applied[s] = 0
      ChangedAgain == c \in Again /\ applied[s] > 0
      NotFound == Kind[c] = "edit_file" /\ c \notin Again /\ applied[s] > 0 IN
  /\ pc = "tool"
  /\ runs' = [runs EXCEPT ![s] = @ + 1]
  /\ \/ /\ ~NotFound
        /\ result' = "ok"
        /\ applied' = [applied EXCEPT ![s] = IF Changed \/ ChangedAgain THEN @ + 1 ELSE @]
     \/ /\ Kind[c] # Recorder
        /\ applied[s] = 0 \/ NotFound
        /\ result' = "error"
        /\ UNCHANGED applied
  /\ pc' = "ran"
  /\ UNCHANGED <<jrn, answer, ckpt, call, used, stops>>

SaveResult ==
  /\ pc = "ran"
  /\ ckpt' = [ckpt EXCEPT ![Len(ckpt)].result = result]
  /\ pc' = "model"
  /\ UNCHANGED <<jrn, answer, call, result, used>> /\ Quiet

Down ==
  /\ pc \notin {"down", "done"}
  /\ Stop

\* The turn the journal names can be read back: its response is in the journal,
\* or its conversation is and the turn was sent.
ReadableTurn ==
  \/ jrn.status = "RESPONSE_RECOVERED"
  \/ /\ jrn.status \in {"ASK_DISPATCHING", "CONVERSATION_BOUND"}
     /\ jrn.bound /\ jrn.turn <= Len(answer)

\* The checkpointed calls of the journaled turn.
Reached == {k \in 1..Len(ckpt) : ckpt[k].slot[1] = jrn.turn}

\* _batch_resume_message accepts a checkpoint that ends with the calls 1, 2, ...
\* of the batch, all but the last successful.
BatchTail ==
  \E first \in 1..Len(ckpt) :
    /\ Reached = first..Len(ckpt)
    /\ \A k \in Reached : ckpt[k].slot[2] = k - first + 1
    /\ \A k \in Reached \ {Len(ckpt)} : ckpt[k].result = "ok"

\* worker_reconcile, a single call: it goes into the graph again.
ResumeSingle ==
  /\ pc = "down" /\ ReadableTurn
  /\ ~answer[jrn.turn].batch
  /\ jrn' = [jrn EXCEPT !.status = "RESPONSE_RECOVERED"]
  /\ ckpt' = Append(ckpt, [slot |-> <<jrn.turn, 1>>, result |-> "none"])
  /\ pc' = "tool"
  /\ UNCHANGED <<answer, call, result, used>> /\ Quiet

\* Fault: a batch is put back at its first call.
ResumeBatchFromStart ==
  /\ pc = "down" /\ ReadableTurn
  /\ answer[jrn.turn].batch
  /\ jrn' = [jrn EXCEPT !.status = "RESPONSE_RECOVERED"]
  /\ ckpt' = Append(ckpt, [slot |-> <<jrn.turn, 1>>, result |-> "none"])
  /\ pc' = "tool"
  /\ UNCHANGED <<answer, call, result, used>> /\ Quiet

\* Fault: the call the checkpoint reached is run even if its result is there.
ResumeBatchRerun ==
  /\ pc = "down" /\ ReadableTurn
  /\ answer[jrn.turn].batch
  /\ jrn' = [jrn EXCEPT !.status = "RESPONSE_RECOVERED"]
  /\ ckpt' = (IF Reached = {}
                THEN Append(ckpt, [slot |-> <<jrn.turn, 1>>, result |-> "none"])
                ELSE ckpt)
  /\ pc' = "tool"
  /\ UNCHANGED <<answer, call, result, used>> /\ Quiet

\* worker_reconcile, a batch: at the call the checkpoint reached, or past it when
\* its result is there too; from the first call when it reached none.
ResumeBatch ==
  /\ pc = "down" /\ ReadableTurn
  /\ answer[jrn.turn].batch
  /\ jrn' = [jrn EXCEPT !.status = "RESPONSE_RECOVERED"]
  /\ \/ /\ Reached = {}
        /\ ckpt' = Append(ckpt, [slot |-> <<jrn.turn, 1>>, result |-> "none"])
        /\ pc' = "tool"
     \/ /\ Reached # {} /\ BatchTail
        /\ pc' = (IF Answered THEN "model" ELSE "tool")
        /\ UNCHANGED ckpt
  /\ UNCHANGED <<answer, call, result, used>> /\ Quiet

Next ==
  \/ Finish \/ Continue \/ JournalAsk \/ Send \/ Bind \/ Reply \/ Emit \/ RunTool
  \/ SaveResult \/ Down \/ ResumeSingle \/ ResumeBatch

Spec == Init /\ [][Next]_vars
-------------------------------------------------------------------------------
TypeOK ==
  /\ pc \in {"model", "send", "bind", "reply", "emit", "tool", "ran", "down", "done"}
  /\ jrn \in [turn : 0..(Len(answer) + 1), bound : BOOLEAN,
              status : {"PREPARED", "ASK_DISPATCHING", "CONVERSATION_BOUND",
                        "RESPONSE_RECOVERED"}]
  /\ answer \in Seq(Responses)
  /\ ckpt \in Seq([slot : Slots, result : {"none", "ok", "error"}])
  /\ call \in Slots \cup {NoCall}
  /\ result \in {"none", "ok", "error"}
  /\ used \in 0..Budget
  /\ stops \in 0..MaxStops
  /\ applied \in [Slots -> Nat] /\ runs \in [Slots -> Nat]

\* "Calls run strictly one at a time in the given order; if any call fails, the
\* remaining calls are skipped": whatever stops and resumes, a later call of a
\* batch was run only with the success of the one before it checkpointed.
BatchInOrder ==
  \A s \in Slots :
    runs[s] > 0 /\ s[2] > 1 =>
      \E k \in 1..Len(ckpt) :
        ckpt[k].slot = <<s[1], s[2] - 1>> /\ ckpt[k].result = "ok"

\* A restart never runs a batch call again whose result is in the checkpoint.
BatchResumesPastResults ==
  [][\A k \in 1..Len(ckpt) :
       Batch(ckpt[k].slot) /\ ckpt[k].result # "none"
         => runs'[ckpt[k].slot] = runs[ckpt[k].slot]]_vars

\* No stop leaves a checkpoint that _batch_resume_message refuses: a readable
\* batch turn can always be resumed (OPENCLI_WEB_BATCH_STATE_INVALID would leave
\* the operation unknown for good).
BatchResumable ==
  pc = "down" /\ ReadableTurn /\ answer[jrn.turn].batch => Reached = {} \/ BatchTail

\* After the recorder succeeded no further web turn is sent and no file changes,
\* across restarts.
RecorderIsLast ==
  [][(\E k \in Recorded : ckpt[k].result = "ok") => UNCHANGED <<answer, applied>>]_vars

\* The documentation: a write is recovered only when its postimage is present or
\* its preimage "still permits one execution".
EditAppliedOnce ==
  \A s \in Slots : s[1] <= Len(answer) /\ s[2] <= Size(s) /\ Kind[Ask(s)] = "edit_file"
                   => applied[s] <= 1

\* The documentation: a recovered message "can be injected at the saved model
\* node and the existing scoped tools can continue"; a result the recorder has
\* taken is the operation's result.
RecordedResultAccepted == pc = "model" /\ RecorderCompleted => ResultAccepted

\* It holds of a recorder that came in a batch: however often the batch was resumed,
\* its recorder call is in the checkpoint once, and no other one is.
BatchResultAccepted ==
  pc = "model" /\ RecorderCompleted /\ Batch(Tail1.slot) => ResultAccepted
===============================================================================
