---------------------------- MODULE WorkerOperation ---------------------------
(***************************************************************************)
(* The life of an operation (cli.py): worker_run and worker_reconcile      *)
(* under the operation fence, semantic_run and semantic_reconcile without  *)
(* it.  Every request is served by a process of its own kind of life: it   *)
(* reads and replaces whole files (operation record, recovery journal,     *)
(* workspace index) and may stop between any two of those steps.           *)
(*                                                                         *)
(* Abstractions.  Mutual exclusion of the fence is one step here (see      *)
(* OperationFlock).  The diagnosis and the repair graph are a few steps    *)
(* that only leave their durable traces; what happens inside them is       *)
(* modelled in EffectJournal, RepairLoop and WebTurn.  All operations work *)
(* in one workspace, so they share one index.  Identity checks compare a   *)
(* request with a record: "bound" says the request names workspace and     *)
(* provider of the record, "match" that transport, runtime code, hints and *)
(* tool projection are those of the journal.  A run request is always      *)
(* bound.  An exception no handler catches leaves what a stopped process   *)
(* leaves.  INTELLIGENCE_COMPLETED is the COMPLETED of a semantic run.     *)
(***************************************************************************)
EXTENDS Naturals

CONSTANTS
  Processes,
  Worker,        \* worker operations
  Semantic,      \* semantic operations
  NoProcess,     \* nobody holds the fence
  NoEntry,       \* the workspace has no index yet
  MaxCrashes     \* bound: processes that stop, and writes that fail, midway

ASSUME OperationAssumption ==
  /\ Worker \cap Semantic = {}
  /\ NoProcess \notin Processes
  /\ MaxCrashes \in Nat

Ops == Worker \cup Semantic
Statuses == {"none", "STARTED", "UNKNOWN", "COMPLETED"}
\* CONVERSATION_BOUND and RESPONSE_RECOVERED are ASK_DISPATCHING here: reconcile
\* tells a journal that is COMPLETED from one that is not, and what those two
\* statuses add, a conversation to read, is in "readable".
JournalStatuses == {"none", "PREPARED", "ASK_DISPATCHING", "COMPLETED"}
Requests == [op : Ops, kind : {"run", "reconcile"}, bound : BOOLEAN, match : BOOLEAN]

VARIABLES
  composite,  \* worker operations whose admission names the composite tool
  pc,         \* what each process does next
  req,        \* the request it serves
  out,        \* the status it is about to persist
  lock,       \* lock[o]: who holds the operation fence
  rec,        \* rec[o]: status of operations/<o>.json
  jrn,        \* jrn[o]: status of recovery/operations/<o>.json
  checkpoint, \* checkpoint[o]: the checkpoint database exists and is bound
  readable,   \* readable[o]: the journal names a conversation or a repair turn
  receipt,    \* receipt[o]: a composite worker result is in the effect journal
  material,   \* material[o]: which of record and journaled result name the
              \* execution material, the digest a resent run is compared with
  index,      \* the workspace index: an operation and its status
  asked,      \* history: initial asks of the repair sent for each operation
  ran,        \* history: semantic graphs run for each operation
  told,       \* history: some caller was told COMPLETED
  crashes

local == <<pc, req, out>>
disk == <<rec, jrn, checkpoint, readable, receipt, material, index>>
history == <<asked, ran, told>>
moving == <<local, lock, disk, history, crashes>>
vars == <<composite, moving>>

NoRequest == [op |-> "none"]

Init ==
  /\ composite \in SUBSET Worker
  /\ pc = [p \in Processes |-> "idle"]
  /\ req = [p \in Processes |-> NoRequest]
  /\ out = [p \in Processes |-> "none"]
  /\ lock = [o \in Ops |-> NoProcess]
  /\ rec = [o \in Ops |-> "none"]
  /\ jrn = [o \in Ops |-> "none"]
  /\ checkpoint = [o \in Ops |-> FALSE]
  /\ readable = [o \in Ops |-> FALSE]
  /\ receipt = [o \in Ops |-> FALSE]
  /\ material = [o \in Ops |-> {}]
  /\ index = NoEntry
  /\ asked = [o \in Ops |-> 0]
  /\ ran = [o \in Ops |-> 0]
  /\ told = [o \in Ops |-> FALSE]
  /\ crashes = 0

Goto(p, l) == pc' = [pc EXCEPT ![p] = l] /\ UNCHANGED <<req, out>>
Op(p) == req[p].op

\* The process is gone: its memory is, and the kernel frees the fence it held.
Gone(p) ==
  /\ pc' = [pc EXCEPT ![p] = "idle"]
  /\ req' = [req EXCEPT ![p] = NoRequest]
  /\ out' = [out EXCEPT ![p] = "none"]
  /\ lock' = [o \in Ops |-> IF lock[o] = p THEN NoProcess ELSE lock[o]]

\* The caller gets its answer and the request ends.
Answer(p, status) ==
  /\ Gone(p)
  /\ told' = [told EXCEPT ![Op(p)] = @ \/ status = "COMPLETED"]
  /\ UNCHANGED <<asked, ran>>

\* dispatch: a request arrives; worker requests go through the fence.
Request(p, r) ==
  /\ pc[p] = "idle"
  /\ r.kind = "run" \/ r.op \in Semantic => r.bound /\ r.match
  /\ r.bound \/ r.match
  /\ pc' = [pc EXCEPT ![p] = IF r.op \in Worker THEN "lock" ELSE "read"]
  /\ req' = [req EXCEPT ![p] = r]
  /\ UNCHANGED <<out, lock, disk, history, crashes>>

\* Fault: the fence does not keep a second process out.
LockAnyway(p) ==
  /\ pc[p] = "lock"
  /\ lock' = [lock EXCEPT ![Op(p)] = p]
  /\ Goto(p, "read")
  /\ UNCHANGED <<disk, history, crashes>>

Lock(p) ==
  /\ pc[p] = "lock"
  /\ lock[Op(p)] = NoProcess
  /\ lock' = [lock EXCEPT ![Op(p)] = p]
  /\ Goto(p, "read")
  /\ UNCHANGED <<disk, history, crashes>>

\* The file written now names the execution material, or does not.
Material(p, f, named) ==
  material' = [material EXCEPT ![Op(p)] = IF named THEN @ \cup {f} ELSE @ \ {f}]

\* The record this request may build on: ended, and of the same identity.
Known(p) == rec[Op(p)] \notin {"none", "STARTED"} /\ req[p].bound

\* _reconcile_operation: what the record alone entitles this request to.  A run
\* that is sent again must find its execution material in the record.  (A
\* reconcile that names a worker identity finds none in a rebuilt record; it is
\* then one that is not bound, and the journal answers it.)
Cached(p) ==
  IF Known(p) /\ (Op(p) \in Worker /\ req[p].kind = "run" => "record" \in material[Op(p)])
    THEN rec[Op(p)] ELSE "UNKNOWN"

\* worker_run and semantic_run on an operation that has a record: never again.
RunKnown(p) ==
  /\ pc[p] = "read" /\ req[p].kind = "run"
  /\ rec[Op(p)] # "none"
  /\ Answer(p, Cached(p))
  /\ UNCHANGED <<disk, crashes>>

\* Invalid input or a blocked projection: answered, nothing persisted.
RunInvalid(p) ==
  /\ pc[p] = "read" /\ req[p].kind = "run"
  /\ rec[Op(p)] = "none"
  /\ Answer(p, "INVALID")
  /\ UNCHANGED <<disk, crashes>>

\* Fault: a run that was started and never finished is run again.
RunUnfinished(p) ==
  /\ pc[p] = "read" /\ req[p].kind = "run"
  /\ rec[Op(p)] \in {"none", "STARTED"}
  /\ Goto(p, "start")
  /\ UNCHANGED <<lock, disk, history, crashes>>

RunAccepted(p) ==
  /\ pc[p] = "read" /\ req[p].kind = "run"
  /\ rec[Op(p)] = "none"
  /\ Goto(p, "start")
  /\ UNCHANGED <<lock, disk, history, crashes>>

\* _write_started.
WriteStarted(p) ==
  /\ pc[p] = "start"
  /\ rec' = [rec EXCEPT ![Op(p)] = "STARTED"]
  /\ Material(p, "record", Op(p) \in Worker)
  /\ Goto(p, IF Op(p) \in Worker THEN "prepare" ELSE "execute")
  /\ UNCHANGED <<lock, jrn, checkpoint, readable, receipt, index, history, crashes>>

\* Fault: the journal is given the status of the record.
PrepareStarted(p) ==
  /\ pc[p] = "prepare"
  /\ rec' = [rec EXCEPT ![Op(p)] = "STARTED"]
  /\ jrn' = [jrn EXCEPT ![Op(p)] = "STARTED"]
  /\ Goto(p, "checkpoint")
  /\ UNCHANGED <<lock, checkpoint, readable, receipt, material, index, history, crashes>>

\* Session, admission and hints pass; the record is written again (still
\* STARTED) and the recovery journal is made.
Prepare(p) ==
  /\ pc[p] = "prepare"
  /\ rec' = [rec EXCEPT ![Op(p)] = "STARTED"]
  /\ jrn' = [jrn EXCEPT ![Op(p)] = "PREPARED"]
  /\ Goto(p, "checkpoint")
  /\ UNCHANGED <<lock, checkpoint, readable, receipt, material, index, history, crashes>>

Checkpoint(p) ==
  /\ pc[p] = "checkpoint"
  /\ checkpoint' = [checkpoint EXCEPT ![Op(p)] = TRUE]
  /\ Goto(p, "diagnose")
  /\ UNCHANGED <<lock, rec, jrn, readable, receipt, material, index, history, crashes>>

\* An inconclusive diagnosis is a result; a supported one admits the repair.
Diagnose(p) ==
  /\ pc[p] = "diagnose"
  /\ \E next \in {"terminal", "ask"} : Goto(p, next)
  /\ UNCHANGED <<lock, disk, history, crashes>>

\* ask_dispatching is durable before the ask is sent.
JournalAsk(p) ==
  /\ pc[p] = "ask"
  /\ jrn' = [jrn EXCEPT ![Op(p)] = "ASK_DISPATCHING"]
  /\ Goto(p, "send")
  /\ UNCHANGED <<lock, rec, checkpoint, readable, receipt, material, index, history, crashes>>

SendAsk(p) ==
  /\ pc[p] = "send"
  /\ asked' = [asked EXCEPT ![Op(p)] = @ + 1]
  /\ Goto(p, "repair")
  /\ UNCHANGED <<lock, disk, ran, told, crashes>>

\* The repair graph, first or resumed: the conversation becomes known, and the
\* composite tool may leave its receipt.
Repair(p) ==
  /\ pc[p] \in {"repair", "resume"}
  /\ \/ readable' = [readable EXCEPT ![Op(p)] = TRUE] /\ UNCHANGED receipt
     \/ /\ Op(p) \in composite /\ readable[Op(p)]
        /\ receipt' = [receipt EXCEPT ![Op(p)] = TRUE] /\ UNCHANGED readable
  /\ UNCHANGED <<local, lock, rec, jrn, checkpoint, material, index, history, crashes>>

\* The graph ends with its result; the composite result is the receipt.
RepairResult(p) ==
  /\ pc[p] \in {"repair", "resume"}
  /\ readable[Op(p)]
  /\ Op(p) \in composite => receipt[Op(p)]
  /\ Goto(p, "terminal")
  /\ UNCHANGED <<lock, disk, history, crashes>>

\* Fault: the terminal result is never journaled.
TerminalUnjournaled(p) ==
  /\ pc[p] = "terminal"
  /\ pc' = [pc EXCEPT ![p] = IF req[p].kind = "run" THEN "receipts" ELSE "write"]
  /\ out' = [out EXCEPT ![p] = "COMPLETED"]
  /\ UNCHANGED <<req, lock, disk, history, crashes>>

\* journal.terminal; a run reads the invocation receipts only after it.  A result
\* that reconcile puts together extends the record it could build on; without one
\* (it was still STARTED, or the request is not bound) it names no material.
Terminal(p) ==
  /\ pc[p] = "terminal"
  /\ jrn' = [jrn EXCEPT ![Op(p)] = "COMPLETED"]
  /\ Material(p, "journal",
              req[p].kind = "run" \/ (Known(p) /\ "record" \in material[Op(p)]))
  /\ pc' = [pc EXCEPT ![p] = IF req[p].kind = "run" THEN "receipts" ELSE "write"]
  /\ out' = [out EXCEPT ![p] = "COMPLETED"]
  /\ UNCHANGED <<req, lock, rec, checkpoint, readable, receipt, index, history, crashes>>

Receipts(p) ==
  /\ pc[p] = "receipts"
  /\ Goto(p, "write")
  /\ UNCHANGED <<lock, disk, history, crashes>>

\* An exception inside the run: an UNKNOWN terminal result, even when the
\* journal is already COMPLETED.
Guarded == {"prepare", "checkpoint", "diagnose", "ask", "send", "repair", "terminal", "receipts"}
RunFails(p) ==
  /\ req[p] # NoRequest /\ req[p].kind = "run"
  /\ pc[p] \in Guarded
  /\ pc' = [pc EXCEPT ![p] = "write"]
  /\ out' = [out EXCEPT ![p] = "UNKNOWN"]
  /\ UNCHANGED <<req, lock, disk, history, crashes>>

\* semantic_run: the graph runs, with or without a finding.
Execute(p) ==
  /\ pc[p] = "execute"
  /\ ran' = [ran EXCEPT ![Op(p)] = @ + 1]
  /\ pc' = [pc EXCEPT ![p] = "write"]
  /\ \E s \in {"COMPLETED", "UNKNOWN"} : out' = [out EXCEPT ![p] = s]
  /\ UNCHANGED <<req, lock, disk, asked, told, crashes>>

\* Fault: the index is written where the record should come first.
WriteIndexFirst(p) ==
  /\ pc[p] = "write"
  /\ index' = [op |-> Op(p), status |-> out[p]]
  /\ Goto(p, "index")
  /\ UNCHANGED <<lock, rec, jrn, checkpoint, readable, receipt, material, history, crashes>>

\* _write_terminal: the operation record, then (a worker request that names its
\* workspace) the index.  What reconcile writes is what the journal has.
WriteRecord(p) ==
  /\ pc[p] = "write"
  /\ rec' = [rec EXCEPT ![Op(p)] = out[p]]
  /\ Material(p, "record", Op(p) \in Worker
                            /\ (req[p].kind = "run" \/ "journal" \in material[Op(p)]))
  /\ Goto(p, "index")
  /\ UNCHANGED <<lock, jrn, checkpoint, readable, receipt, index, history, crashes>>

WriteIndex(p) ==
  /\ pc[p] = "index"
  /\ IF Op(p) \in Worker /\ req[p].bound
       THEN index' = [op |-> Op(p), status |-> out[p]]
       ELSE UNCHANGED index
  /\ Answer(p, out[p])
  /\ UNCHANGED <<rec, jrn, checkpoint, readable, receipt, material, crashes>>

\* reconcile: the record answers, unless it leaves a worker's outcome unknown.
ReconcileCached(p) ==
  /\ pc[p] = "read" /\ req[p].kind = "reconcile"
  /\ Op(p) \in Semantic \/ Cached(p) # "UNKNOWN"
  /\ Answer(p, Cached(p))
  /\ UNCHANGED <<disk, crashes>>

\* Fault: a completed journal is not looked at.
CanReadBack(o) == receipt[o] \/ (readable[o] /\ checkpoint[o])

\* No journal, a journal of another identity, or nothing to read back.
CanResume(o) ==
  \/ jrn[o] = "COMPLETED"
  \/ receipt[o]
  \/ readable[o] /\ checkpoint[o]

ReconcileUnknown(p) ==
  /\ pc[p] = "read" /\ req[p].kind = "reconcile"
  /\ Op(p) \in Worker /\ Cached(p) = "UNKNOWN"
  /\ ~req[p].match \/ ~CanResume(Op(p))
  /\ Answer(p, "UNKNOWN")
  /\ UNCHANGED <<disk, crashes>>

\* The journal goes first, then a persisted composite result, then the graph.
ReconcileJournal(p) ==
  /\ pc[p] = "read" /\ req[p].kind = "reconcile"
  /\ Op(p) \in Worker /\ Cached(p) = "UNKNOWN"
  /\ req[p].match
  /\ \/ /\ jrn[Op(p)] = "COMPLETED"
        /\ pc' = [pc EXCEPT ![p] = "write"]
        /\ out' = [out EXCEPT ![p] = "COMPLETED"]
     \/ /\ jrn[Op(p)] # "COMPLETED" /\ receipt[Op(p)]
        /\ pc' = [pc EXCEPT ![p] = "terminal"]
        /\ UNCHANGED out
     \/ /\ jrn[Op(p)] # "COMPLETED" /\ ~receipt[Op(p)]
        /\ readable[Op(p)] /\ checkpoint[Op(p)]
        /\ pc' = [pc EXCEPT ![p] = "resume"]
        /\ UNCHANGED out
  /\ UNCHANGED <<req, lock, disk, history, crashes>>

\* An exception inside reconcile: the cached UNKNOWN is the answer, whatever the
\* steps before it have already written.
ReconcileFails(p) ==
  /\ req[p] # NoRequest /\ req[p].kind = "reconcile"
  /\ \/ pc[p] = "resume" /\ UNCHANGED crashes
     \/ /\ pc[p] \in {"terminal", "write", "index"}
        /\ crashes < MaxCrashes /\ crashes' = crashes + 1
  /\ Answer(p, "UNKNOWN")
  /\ UNCHANGED disk

Crash(p) ==
  /\ pc[p] # "idle"
  /\ crashes < MaxCrashes
  /\ crashes' = crashes + 1
  /\ Gone(p)
  /\ UNCHANGED <<disk, history>>

Step(p) ==
  \/ Lock(p) \/ RunKnown(p) \/ RunInvalid(p) \/ RunAccepted(p) \/ WriteStarted(p)
  \/ Prepare(p) \/ Checkpoint(p) \/ Diagnose(p) \/ JournalAsk(p) \/ SendAsk(p)
  \/ Repair(p) \/ RepairResult(p) \/ Terminal(p) \/ Receipts(p) \/ RunFails(p)
  \/ Execute(p) \/ WriteRecord(p) \/ WriteIndex(p)
  \/ ReconcileCached(p) \/ ReconcileUnknown(p) \/ ReconcileJournal(p) \/ ReconcileFails(p)

Next ==
  /\ \E p \in Processes : Step(p) \/ Crash(p) \/ \E r \in Requests : Request(p, r)
  /\ UNCHANGED composite

Spec == Init /\ [][Next]_vars

\* The processes run, the fence is granted to one that keeps waiting for it, and
\* callers keep asking to reconcile an unknown operation, with the request that
\* belongs to it (the documented duty of a client).
Matching(o) == [op |-> o, kind |-> "reconcile", bound |-> TRUE, match |-> TRUE]

Fairness ==
  /\ \A p \in Processes : WF_moving(Step(p)) /\ SF_moving(Lock(p))
  /\ \A o \in Worker : SF_moving(\E p \in Processes : Request(p, Matching(o)))

FairSpec == Spec /\ Fairness
-------------------------------------------------------------------------------
TypeOK ==
  /\ composite \subseteq Worker
  /\ pc \in [Processes -> {"idle", "lock", "read", "start", "execute", "write",
                           "index", "resume"} \cup Guarded]
  /\ req \in [Processes -> Requests \cup {NoRequest}]
  /\ \A p \in Processes : pc[p] # "idle" => req[p] \in Requests
  /\ out \in [Processes -> Statuses]
  /\ lock \in [Ops -> Processes \cup {NoProcess}]
  /\ rec \in [Ops -> Statuses]
  /\ jrn \in [Ops -> JournalStatuses]
  /\ checkpoint \in [Ops -> BOOLEAN] /\ readable \in [Ops -> BOOLEAN]
  /\ receipt \in [Ops -> BOOLEAN]
  /\ material \in [Ops -> SUBSET {"record", "journal"}]
  /\ index \in [op : Ops, status : Statuses] \cup {NoEntry}
  /\ asked \in [Ops -> Nat] /\ ran \in [Ops -> Nat]
  /\ told \in [Ops -> BOOLEAN]
  /\ crashes \in Nat

\* Whatever is resent, redispatched or restarted, the initial ask of a worker
\* operation goes out at most once, and never without its journal entry.
SingleDispatch ==
  \A o \in Worker :
    /\ asked[o] <= 1
    /\ asked[o] > 0 => jrn[o] \in {"ASK_DISPATCHING", "COMPLETED"}

\* A worker record says COMPLETED only if the recovery journal does: the terminal
\* result is durable in the journal first, on every path that writes the record.
RecordFollowsJournal ==
  \A o \in Worker : rec[o] = "COMPLETED" => jrn[o] = "COMPLETED"

\* A worker's completion is final: no later request, retry, race or crash takes
\* it back, and what a caller was told stays what the record says.
CompletionSticks ==
  [][\A o \in Worker :
       /\ rec[o] = "COMPLETED" => rec'[o] = "COMPLETED"
       /\ jrn[o] = "COMPLETED" => jrn'[o] = "COMPLETED"
       /\ told'[o] => rec'[o] = "COMPLETED"]_vars

\* The index is a projection: it never claims more than the record of the
\* operation it names (continuation admission reads the index alone).
IndexNeverAhead ==
  index # NoEntry =>
    \/ rec[index.op] = index.status
    \/ index.status = "UNKNOWN" /\ rec[index.op] = "COMPLETED"

\* A result that reached the journal reaches the record, however the process
\* that produced it ended, as long as callers reconcile.
ResultReachesRecord ==
  \A o \in Worker : jrn[o] = "COMPLETED" ~> rec[o] = "COMPLETED"

\* The documentation's promise for every operation: resending a completed
\* operation returns the cached terminal result.
CompletedStaysCached ==
  \A o \in Semantic : told[o] => rec[o] = "COMPLETED"
===============================================================================
