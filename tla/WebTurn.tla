-------------------------------- MODULE WebTurn -------------------------------
(***************************************************************************)
(* The exchange of one operation with the web model                        *)
(* (opencli_web_model.py) and what a restart reads of it (recovery.py,     *)
(* worker_reconcile in cli.py).  A prompt is journaled as a turn, sent     *)
(* once, its conversation is journaled, its reply is read back from that   *)
(* conversation and journaled.  A send that times out is looked for, never *)
(* repeated; a reply that does not follow the protocol is read again and   *)
(* then repeated by a repair turn in a conversation of its own; a turn     *)
(* whose reply never came is resumed once by a resume turn.                *)
(*                                                                         *)
(* Abstractions.  A turn is a number and a kind: the hash of the rendered  *)
(* messages, or of the conversation and the text it is about.  A reply is  *)
(* the turn it answers, the call it intends (that of turn n, or 0 for a    *)
(* repair that drifted) and its form.  Re-reads and late polls only read   *)
(* again.  Every error of the transport ends the process like a stop.      *)
(* External: the web page.  It may lose a prompt, open a conversation not  *)
(* asked for, stop without a reply, and complete a partial reply later.    *)
(***************************************************************************)
EXTENDS Naturals, Sequences, FiniteSets

CONSTANTS
  Composite,     \* the composite tool is admitted
  MaxTurns,      \* bound: ordinary turns of the operation
  Broken,        \* Broken[n]: the incomplete forms a reply in turn n may have
  Budget         \* web turns of one process (_MAX_WEB_TURNS_PER_OPERATION)

\* A complete object with something after it; a write with unescaped quotes; the
\* composite call in its direct form; anything else.
Forms == {"tail", "write", "direct", "garbage"}

ASSUME WebAssumption ==
  /\ Composite \in BOOLEAN
  /\ Broken \in [1..MaxTurns -> SUBSET Forms]
  /\ (\E n \in 1..MaxTurns : "direct" \in Broken[n]) => Composite
  /\ Budget \in Nat /\ MaxTurns \in Nat

Kinds == {"turn", "resume", "repair", "repair_resume"}
Turns == (1..MaxTurns) \X Kinds
NoTurn == <<0, "turn">>
NoReply == [turn |-> NoTurn, intent |-> 0, form |-> "none"]
Repairs == {"repair", "repair_resume"}

VARIABLES
  pc,
  mem,      \* what the process holds
  jrn,      \* the operation journal
  web,      \* the prompts that reached the page, oldest first
  given     \* history: the turn last answered in the graph, and with which intent

vars == <<pc, mem, jrn, web, given>>

\* conv, base, turn: the conversation, the turn the graph waits for, the turn
\* sent.  fresh: in a new conversation; prior: the conversation before it.
\* late: a reply that never came may be resumed.  invalid: the response the
\* repair turn under way is about.
Fresh == [mode |-> "run", base |-> NoTurn, turn |-> NoTurn, conv |-> 0, prior |-> 0,
          fresh |-> FALSE, late |-> FALSE, resumed |-> FALSE,
          resp |-> NoReply, invalid |-> NoReply, used |-> 0, sends |-> 0]

Init ==
  /\ pc = "model"
  /\ mem = Fresh
  /\ jrn = [turn |-> NoTurn, status |-> "PREPARED", conv |-> 0, resp |-> NoReply,
            origin |-> NoReply, rturn |-> NoTurn, rconv |-> 0, rstatus |-> "none"]
  /\ web = <<>>
  /\ given = <<0, 0>>

Complete(r) == r.form = "complete"
\* _canonicalize_direct_composite_response
Canonical(r) == IF Composite /\ r.form = "direct" THEN [r EXCEPT !.form = "complete"] ELSE r
\* _repair_matches_invalid_response
Matches(r, origin) == r.intent = origin.intent

\* The journal updates of recovery.py.
RepairStarted(j, origin, turn) ==
  [j EXCEPT !.origin = origin, !.rturn = turn, !.rconv = j.conv, !.rstatus = "DISPATCHING"]
RepairRecovered(j) == [j EXCEPT !.rstatus = "RECOVERED"]
ResponseRecovered(j, r) == [j EXCEPT !.status = "RESPONSE_RECOVERED", !.resp = r]
MayRecover(turn) == jrn.turn = turn /\ jrn.conv # 0
-------------------------------------------------------------------------------
\* _generate: the next ordinary turn.
Generate ==
  /\ pc = "model" /\ mem.used < Budget /\ jrn.turn[1] < MaxTurns
  /\ LET t == <<jrn.turn[1] + 1, "turn">> IN
       mem' = [mem EXCEPT !.mode = "run", !.base = t, !.turn = t, !.used = @ + 1,
                          !.fresh = FALSE, !.invalid = NoReply, !.resp = NoReply]
  /\ pc' = "ask"
  /\ UNCHANGED <<jrn, web, given>>

\* Fault: a repair or a resume is not counted against the budget.
ReserveUnbounded ==
  /\ pc = "reserve"
  /\ mem' = [mem EXCEPT !.used = @ + 1]
  /\ pc' = "ask"
  /\ UNCHANGED <<jrn, web, given>>

Reserve ==
  /\ pc = "reserve" /\ mem.used < Budget
  /\ mem' = [mem EXCEPT !.used = @ + 1]
  /\ pc' = "ask"
  /\ UNCHANGED <<jrn, web, given>>

\* Fault: only the first prompt of a turn is journaled.
JournalAskOnce ==
  /\ pc = "ask"
  /\ IF mem.turn[2] = "turn"
       THEN jrn' = [jrn EXCEPT !.turn = mem.turn, !.status = "ASK_DISPATCHING"]
       ELSE UNCHANGED jrn
  /\ mem' = [mem EXCEPT !.prior = mem.conv, !.late = FALSE]
  /\ pc' = "send"
  /\ UNCHANGED <<web, given>>

JournalAsk ==
  /\ pc = "ask"
  /\ jrn' = [jrn EXCEPT !.turn = mem.turn, !.status = "ASK_DISPATCHING"]
  /\ mem' = [mem EXCEPT !.prior = mem.conv, !.late = FALSE]
  /\ pc' = "send"
  /\ UNCHANGED <<web, given>>

\* The page opens the conversation asked for, or another one.
Opens == {mem.conv, Len(web) + 1} \ {0}
Prompt(c) ==
  Append(web, [turn |-> mem.turn, conv |-> c, reply |-> [NoReply EXCEPT !.form = "pending"]])
Reaches(c) ==
  /\ web' = Prompt(c)
  /\ mem' = [mem EXCEPT !.sends = @ + 1]

\* _run_ask gives up, or sees the conversation its prompt went to.
AskFails ==
  /\ pc = "send"
  /\ \E c \in Opens : web' = Prompt(c)
  /\ pc' = "down"
  /\ mem' = Fresh
  /\ UNCHANGED <<jrn, given>>

\* Fault: a prompt that timed out is sent again.
AskTimesOutRepeated ==
  /\ pc = "send"
  /\ \/ \E c \in Opens : Reaches(c)
     \/ UNCHANGED <<web, mem>>
  /\ pc' \in {"send", "timeout"}
  /\ UNCHANGED <<jrn, given>>

\* _execute_web_send_inner: the time-out of a prompt that may have gone out.  (The
\* retry in _run_ask is of a composer that failed before any prompt went out.)
AskTimesOut ==
  /\ pc = "send"
  /\ \/ \E c \in Opens : Reaches(c)
     \/ UNCHANGED <<web, mem>>
  /\ pc' = "timeout"
  /\ UNCHANGED <<jrn, given>>

AskReturns ==
  /\ pc = "send"
  /\ \E c \in Opens :
       /\ mem.fresh => c # mem.prior
       /\ mem.prior # 0 /\ ~mem.fresh => c = mem.prior
       /\ web' = Prompt(c)
       /\ mem' = [mem EXCEPT !.sends = @ + 1, !.conv = c]
  /\ pc' = "bind"
  /\ UNCHANGED <<jrn, given>>

Bind ==
  /\ pc = "bind"
  /\ jrn' = [jrn EXCEPT !.status = "CONVERSATION_BOUND", !.conv = mem.conv]
  /\ pc' = (IF mem.resp = NoReply THEN "read" ELSE "save")
  /\ UNCHANGED <<mem, web, given>>

\* _reconcile_timeout: the conversation is known, or the history is searched.
TurnTimedOut ==
  /\ pc = "timeout" /\ ~mem.fresh
  /\ pc' = (IF mem.conv # 0 THEN "read" ELSE "scan")
  /\ mem' = [mem EXCEPT !.late = mem.conv # 0]
  /\ UNCHANGED <<jrn, web, given>>

\* _reconcile_fresh_repair_timeout: a malformed write is repaired locally, any
\* other repair is searched for.
Projectable ==
  /\ jrn.rstatus = "DISPATCHING" /\ jrn.origin.form = "write"
  /\ jrn.rconv # 0 /\ mem.prior \in {0, jrn.rconv}
RepairTimedOut ==
  /\ pc = "timeout" /\ mem.fresh
  /\ IF Projectable
       THEN /\ mem' = [mem EXCEPT !.conv = jrn.rconv,
                                  !.resp = [jrn.origin EXCEPT !.form = "complete"]]
            /\ pc' = "bind"
       ELSE /\ mem' = [mem EXCEPT !.late = TRUE]
            /\ pc' = "scan"
  /\ UNCHANGED <<jrn, web, given>>

\* _reconcile_timeout takes a conversation that has the id of the turn anywhere in
\* it, the search for a fresh repair only one whose prompt is the turn's.  The id is
\* a digest that other prompts do not have; a reply that quotes it can only make
\* the search ambiguous or the read after it fail, which leaves what a stop leaves.
Found == {i \in 1..Len(web) :
            web[i].turn = mem.turn /\ (mem.fresh => web[i].conv # mem.prior)}
Scan ==
  /\ pc = "scan"
  /\ Cardinality(Found) = 1
  /\ \E i \in Found : mem' = [mem EXCEPT !.conv = web[i].conv]
  /\ pc' = "bind"
  /\ UNCHANGED <<jrn, web, given>>

\* _extract_detail_response: the one row of the turn in the conversation.
Rows(c, t) == {i \in 1..Len(web) : web[i].conv = c /\ web[i].turn = t}
\* Fault: any reply in the conversation.
ShownAny(c, t) ==
  {web[i].reply : i \in {k \in 1..Len(web) :
     web[k].conv = c /\ web[k].reply.form \notin {"pending", "stopped"}}}

Shown(c, t) ==
  {web[i].reply : i \in {k \in Rows(c, t) : web[k].reply.form \notin {"pending", "stopped"}}}

Read ==
  /\ pc = "read"
  /\ \E r \in Shown(mem.conv, mem.turn) : mem' = [mem EXCEPT !.resp = r]
  /\ pc' = "save"
  /\ UNCHANGED <<jrn, web, given>>

\* _resume_bound_turn_once, once in the life of the process and only for a prompt
\* of its own: a restart that finds the reply missing ends there.
ResumeTurn(t) == <<t[1], IF t[2] \in Repairs THEN "repair_resume" ELSE "resume">>
Silent(i) ==
  /\ web[i].reply.form = "stopped"
  /\ \A k \in (i + 1)..Len(web) : web[k].conv # web[i].conv
MayResume ==
  /\ pc = "read" /\ mem.late /\ ~mem.resumed
  /\ mem.mode = "run" \/ mem.invalid # NoReply
  /\ \E i \in Rows(mem.conv, mem.turn) : Silent(i)

\* Fault: the resume takes no turn of the budget.
ResumeUnreserved ==
  /\ MayResume
  /\ mem' = [mem EXCEPT !.turn = ResumeTurn(@), !.resumed = TRUE, !.fresh = FALSE]
  /\ pc' = "ask"
  /\ UNCHANGED <<jrn, web, given>>

Resume ==
  /\ MayResume
  /\ mem' = [mem EXCEPT !.turn = ResumeTurn(@), !.resumed = TRUE, !.fresh = FALSE]
  /\ pc' = "reserve"
  /\ UNCHANGED <<jrn, web, given>>

\* _journal_response
NeedsOrigin == Canonical(mem.resp) # mem.resp
Repairing == mem.invalid # NoReply
AfterSave == IF Repairing THEN "check" ELSE "refresh"

SaveOrigin ==
  /\ pc = "save" /\ NeedsOrigin
  /\ jrn' = RepairStarted(jrn, mem.resp, mem.turn)
  /\ pc' = "origin"
  /\ UNCHANGED <<mem, web, given>>

SaveRepaired ==
  /\ pc = "origin"
  /\ jrn' = RepairRecovered(jrn)
  /\ pc' = "store"
  /\ UNCHANGED <<mem, web, given>>

Save ==
  /\ \/ pc = "save" /\ ~NeedsOrigin
     \/ pc = "store"
  /\ MayRecover(mem.turn)
  /\ jrn' = ResponseRecovered(jrn, Canonical(mem.resp))
  /\ pc' = (IF mem.turn[2] = "repair" THEN "settle" ELSE AfterSave)
  /\ UNCHANGED <<mem, web, given>>

Settle ==
  /\ pc = "settle"
  /\ jrn.origin # NoReply
  /\ jrn' = RepairRecovered(jrn)
  /\ pc' = AfterSave
  /\ UNCHANGED <<mem, web, given>>

\* _refresh_protocol_response: a complete reply stays, another one is read again.
Refresh ==
  /\ pc = "refresh"
  /\ LET r == Canonical(mem.resp)
         t == IF mem.mode = "run" THEN mem.base ELSE jrn.turn IN
       \/ /\ Complete(r) \/ mem.conv = 0
          /\ mem' = [mem EXCEPT !.resp = r]
       \/ /\ ~Complete(r) /\ mem.conv # 0
          /\ \E s \in Shown(mem.conv, t) : mem' = [mem EXCEPT !.resp = s]
  /\ pc' = "check"
  /\ UNCHANGED <<jrn, web, given>>

\* Fault: the origin in the journal is forgotten by a restart.
OriginInMemory == mem.invalid

\* The response the reply has to match, if any: the one just repaired, and after
\* a restart whatever origin the journal holds.
Origin ==
  IF Repairing THEN mem.invalid
  ELSE IF mem.mode = "reconcile" THEN jrn.origin ELSE NoReply

Accept ==
  /\ pc = "check"
  /\ Complete(mem.resp)
  /\ Origin # NoReply => Matches(mem.resp, Origin)
  /\ given' = <<jrn.turn[1], mem.resp.intent>>
  /\ pc' = "model"
  /\ UNCHANGED <<mem, jrn, web>>

\* _repair_protocol_response
StartRepair ==
  /\ pc = "check" /\ Origin = NoReply /\ mem.conv # 0
  /\ mem.resp.form \in {"tail", "write"}
  /\ LET t == <<jrn.turn[1], "repair">> IN
       /\ jrn' = RepairStarted(jrn, mem.resp, t)
       /\ mem' = [mem EXCEPT !.turn = t, !.fresh = TRUE, !.invalid = mem.resp,
                             !.resp = NoReply]
  /\ pc' = "reserve"
  /\ UNCHANGED <<web, given>>

Down ==
  /\ pc # "down"
  /\ pc' = "down"
  /\ mem' = Fresh
  /\ UNCHANGED <<jrn, web, given>>
-------------------------------------------------------------------------------
\* worker_reconcile.  First a composite call the journal holds in its direct form
\* is rewritten, under the turn the journal names; a stop within is repeated.
Rewritten ==
  IF Canonical(jrn.resp) # jrn.resp /\ jrn.conv # 0
    THEN ResponseRecovered(RepairRecovered(RepairStarted(jrn, jrn.resp, jrn.turn)),
                           Canonical(jrn.resp))
    ELSE jrn

Reconcile ==
  /\ pc = "down"
  /\ LET j == Rewritten
         m == [Fresh EXCEPT !.mode = "reconcile", !.conv = j.conv] IN
       /\ jrn' = j
       /\ \/ /\ j.rstatus = "DISPATCHING" /\ j.conv = j.rconv
             /\ mem' = [m EXCEPT !.turn = j.rturn, !.fresh = TRUE, !.prior = j.rconv]
             /\ pc' = "timeout"
          \/ /\ j.rstatus = "DISPATCHING" => j.conv # j.rconv
             /\ j.conv # 0
             /\ mem' = [m EXCEPT !.turn = j.turn,
                                 !.resp = IF j.status = "RESPONSE_RECOVERED"
                                            THEN j.resp ELSE NoReply]
             /\ pc' = (IF j.status = "RESPONSE_RECOVERED" THEN "refresh" ELSE "bound")
  /\ UNCHANGED <<web, given>>

\* reconcile_bound_turn: the exact turn in the exact conversation.
ReadBound ==
  /\ pc = "bound"
  /\ \E r \in Shown(jrn.conv, jrn.turn) :
       /\ mem' = [mem EXCEPT !.resp = r]
       /\ jrn' = ResponseRecovered(jrn, r)
  /\ pc' = "refresh"
  /\ UNCHANGED <<web, given>>

\* The page answers a prompt, stops, or completes what it had answered.
Intents(t) == {t[1]} \cup (IF t[2] \in Repairs THEN {0} ELSE {})
Answers(row) ==
  [turn : {row.turn}, intent : Intents(row.turn), form : {"complete"} \cup Broken[row.turn[1]]]
Page ==
  /\ \E i \in 1..Len(web) :
       \/ /\ web[i].reply.form = "pending"
          /\ \E r \in Answers(web[i]) \cup {[NoReply EXCEPT !.form = "stopped"]} :
               web' = [web EXCEPT ![i].reply = r]
       \/ /\ web[i].reply.form \in {"tail", "garbage"}
          /\ web' = [web EXCEPT ![i].reply.form = "complete"]
  /\ UNCHANGED <<pc, mem, jrn, given>>

Next ==
  \/ Generate \/ Reserve \/ JournalAsk \/ AskFails \/ AskTimesOut \/ AskReturns \/ Bind
  \/ TurnTimedOut \/ RepairTimedOut \/ Scan \/ Read \/ Resume
  \/ SaveOrigin \/ SaveRepaired \/ Save \/ Settle \/ Refresh \/ Accept \/ StartRepair
  \/ Down \/ Reconcile \/ ReadBound \/ Page

Spec == Init /\ [][Next]_vars
-------------------------------------------------------------------------------
Replies == [turn : Turns \cup {NoTurn}, intent : 0..MaxTurns,
            form : Forms \cup {"none", "pending", "stopped", "complete"}]

Named == Turns \cup {NoTurn}
MemType ==
  [mode : {"run", "reconcile"}, base : Named, turn : Named, conv : Nat, prior : Nat,
   fresh : BOOLEAN, late : BOOLEAN, resumed : BOOLEAN,
   resp : Replies, invalid : Replies, used : 0..Budget, sends : Nat]
JrnType ==
  [turn : Named, status : {"PREPARED", "ASK_DISPATCHING", "CONVERSATION_BOUND",
                           "RESPONSE_RECOVERED"},
   conv : Nat, resp : Replies, origin : Replies, rturn : Named, rconv : Nat,
   rstatus : {"none", "DISPATCHING", "RECOVERED"}]

TypeOK ==
  /\ pc \in {"model", "reserve", "ask", "send", "timeout", "scan", "bind", "read", "save",
             "origin", "store", "settle", "refresh", "check", "bound", "down"}
  /\ mem \in MemType /\ jrn \in JrnType
  /\ web \in Seq([turn : Turns, conv : Nat, reply : Replies])
  /\ {mem.conv, mem.prior, jrn.conv, jrn.rconv} \subseteq 0..Len(web)
  /\ \A i \in 1..Len(web) : web[i].conv \in 1..i

\* No prompt reaches the page twice, whatever times out, stops or is reconciled:
\* "It must not resend the initial ask".
NoTurnSentTwice ==
  \A i, k \in 1..Len(web) : web[i].turn = web[k].turn => i = k

\* "Before an OpenCLI request the exact turn ID" is recorded: the journal never
\* names a turn that is older than a prompt on the page.
JournalNamesLastSend ==
  \A i \in 1..Len(web) : web[i].turn = jrn.turn => i = Len(web)

\* The response the journal holds for a turn is a reply to that turn, or the
\* local repair of the response the turn was to repair.
ResponseOfTurn ==
  jrn.status = "RESPONSE_RECOVERED" =>
    \/ jrn.resp.turn = jrn.turn
    \/ jrn.turn[2] = "repair" /\ jrn.resp = [jrn.origin EXCEPT !.form = "complete"]

\* What the graph acts on is what the web model meant by its answer to that turn:
\* a repair that changed the call is never let through, before or after a restart.
GivenIsMeant == given[1] = given[2]

\* A process sends no more prompts than its budget, repairs and resumes included.
SendsWithinBudget == mem.sends <= Budget
===============================================================================
