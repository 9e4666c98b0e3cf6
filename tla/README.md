# Formal models of nexus-open-swe-runtime

TLA+ modules for the parts of this runtime whose correctness depends on the order
of durable writes, on stops between them and on several actors: the effect
journal, the operation lock, the life of an operation, the repair tool loop, the
exchange with the web model, the pacing of sends, and the sessions that tie
several operations to one Core identity. TLC checks them on small instances; for
every one of these parts TLAPS proves the safety properties for all values of the
constants. Source paths below are relative to `src/nexus_open_swe_runtime/`.

- [The system](#the-system)
- [Modules](#modules): [effect journal](#effect-journal), [operation lock](#operation-lock),
  [operation life cycle](#operation-life-cycle), [repair loop](#repair-loop), [web turn](#web-turn),
  [send pacing](#send-pacing), [session binding](#session-binding)
- [Runs](#runs), [bounds](#bounds), [fairness](#fairness)
- [What is proved](#what-is-proved), [what is only model-checked](#what-is-only-model-checked)
- [Where code and promise disagree](#where-code-and-promise-disagree)
- [What is not modelled](#what-is-not-modelled), [plan](#plan)

## The system

One command, `nexus-open-swe-runtime`, reads one JSON request, does one thing and
prints one JSON result. A worker request diagnoses a defect in a workspace and
repairs it; a semantic request only investigates. The reasoning is done by a
language model behind a web page, reached through an external command (OpenCLI)
that types a prompt and reads the conversation back. Sending a prompt is not
idempotent, the command may time out after the prompt was sent, and the process
may be killed at any moment; everything the runtime keeps on disk exists so that
a later `reconcile` request can go on without sending a prompt twice, without
writing a file twice and without losing a result that was already there.

| Component | Code | State | Operations |
| --- | --- | --- | --- |
| Effect journal | `recovery.py` 327-579, tool methods of `ScopedRepairBackend` in `cli.py` 376-751 | one record per effect: `INTENT`, `RESULT`, with preimage, and the worker receipt; the workspace files | `intent`, `recover_write`, `record_worker_result`, `result_effects`, `run_created_files`; `write`, `edit`, `write_and_record_worker_result` |
| Operation lock and fence | `recovery.py` 25-75, 150-200 | the process-wide table `_FLOCKS`, its guard, the kernel's lock on the lock file, `lease_epoch` | `operation_flock`, `fence` |
| Operation journal | `recovery.py` 100-325 | status, turn, conversation, recovered response, repair origin and turn | `ask_dispatching`, `conversation_bound`, `response_recovered`, `protocol_repair_started`, `protocol_repair_recovered`, `terminal` |
| Operation life cycle | `cli.py` 3057-3297, 3647-4600 | operation record, recovery journal, checkpoint database, workspace index | `worker_run`, `worker_reconcile`, `semantic_run`, `semantic_reconcile` |
| Web model | `opencli_web_model.py` | conversation, turn, budget, whether a late reply may be resumed | send, time-out reconciliation, readback, late resume, protocol refresh and repair |
| Tool loop and batches | `opencli_web_model.py` 600-720, 2860-3000; `cli.py` 1180-1220, 4450-4560 | messages in the checkpoint | continue a batch, resume a batch, inject a recovered call, accept the recorder's result |
| Send pacing | `opencli_web_model.py` 210-569, 1595-1656, 2118-2215 | start of the last send and end of the last answer, per transport in memory, per profile on disk; who is sending | borrow and release a state, evict, wait, send, finish; lock, sleep, record, send, finish |
| Sessions, continuation | `cli.py` 3299-3645 | session files, workspace index, the workspace | start or retain a session, bind an identity, admit a continuation |
| Physical changeset projection | `cli.py` 1867-2060 | none of its own | check the workspace against the effects, compute the candidate tree |
| Scoped mutation gates | `cli.py` 163-375 | none | decide whether a path may be changed |
| Admission, core binding, projections, receipts, hints, command line | rest of `cli.py`, `model_invocation.py`, `hint_execution.py`, `execution_resume.py`, `tool_projection.py` | append-only evidence | validation and formatting |

How they interact. `worker_run` and `worker_reconcile` take the **operation lock**
for their whole body and write the **operation journal** and the **record** inside
it; every journal update takes the lock again, re-entrantly. The repair graph, an
external library that checkpoints each message in SQLite, calls the **web model**
and the **scoped backend** in turn. The web model reports each step of an exchange
through callbacks that update the journal; the backend's tools go through the
**effect journal**. `worker_reconcile` reads journal and checkpoint, decides where
the process stopped, reads the web page again if it has to, puts the recovered
call back into the graph and lets it run on. Every prompt passes the **send
pacing** of its transport, which threads of a process share in memory and
processes share through a lock and a state file. Operations of one task unit share
a **session file** and the **workspace index** without a common lock; a
continuation is admitted only on the tree an earlier operation of the same
identity **projected** from its effects.

What is hard. A stop between any two durable steps. A send that timed out and may
have happened. A conversation with the replies of several turns in it. A repair
turn in a conversation of its own, with a resume of its own. A batch of calls of
which some are done. Threads and processes competing for one operation, or waiting for
one another's. Other writers in the workspace and in the session file. A pacing
state that is evicted while somebody waits on it, a sender that is killed, a clock
that is set back. The properties the modules state are about these; the
complete list, with source lines, is under `hazards` in `PROJECT.json`.

What makes each component correct:

- *effect journal*: a `RESULT` was true at some moment; a record never regresses;
  a file is changed only from the recorded preimage, once;
- *operation lock*: one holder; the table tells the truth about the kernel lock;
  no lease epoch twice; everybody is served;
- *life cycle*: the first ask goes out once; record and index never claim what
  the journal does not have; a completion is final; a journaled result arrives;
- *tool loop*: a batch in order, resumed where it stood; nothing after the
  recorder; an edit applied once; a recorded result accepted;
- *web turn*: no prompt twice; the journal names what was sent last; its response
  answers its turn; a repair may change the form of a call, not the call; repairs
  and resumes count against the budget;
- *send pacing*: one send per transport at a time, spaced by real time, and nobody
  waits for ever, whatever is evicted, killed or set back;
- *sessions*: what runs under an identity stays in the paths the identity was
  admitted with; a projected tree holds only what its identity journaled;
- *projection*: records without an order tell what a file holds.

## Modules

| Module | Extends or instantiates | Role |
| --- | --- | --- |
| `AtomicWrites` | | what the effect journal promises |
| `EffectJournal` | instantiates `AtomicWrites` | the code |
| `EffectChain` | `EffectJournal` | what a projection computes from the records |
| `EffectJournalProofs` | `EffectChain` | theorems about both |
| `OperationFence` | | what the lock and the fence promise |
| `OperationFlock` | instantiates `OperationFence` | the code |
| `OperationFlockProofs` | `OperationFlock` | theorems |
| `WorkerOperation` | | the code; fence and graph abstracted to the steps the modules above and below detail |
| `WorkerOperationProofs` | `WorkerOperation` | theorems |
| `RepairLoop` | | the code; exchange and tool call abstracted likewise |
| `RepairLoopProofs` | `RepairLoop` | theorems |
| `WebTurn` | | the code |
| `WebTurnProofs` | `WebTurn` | theorems |
| `PacedSends` | | what pacing promises |
| `Pacing` | | constants both backends share |
| `PacingRegistry` | `Pacing`, instantiates `PacedSends` | the in-process backend |
| `PacingRegistryProofs` | `PacingRegistry` | theorems |
| `DurablePacing` | `Pacing`, instantiates `PacedSends` | the backend of several processes |
| `SendPacing` | `DurablePacing`, `PacingRegistry` | which backend a send goes through |
| `SendPacingProofs` | `SendPacing` | theorems about the durable backend and the composition |
| `SessionBinding` | | the code |
| `SessionBindingProofs` | `SessionBinding` | theorems |
| `MC...` | the module named | the constants of an instance |

A module writes the *history* variables (`held`, `fences`, `asked`, `ran`, `told`,
`applied`, `runs`, `given`, `base` of a chain, `sinceStart`, `startAge` and their
counterparts, `disturbed`) that properties need and the code does not have; no
guard reads them, except that `fences` and similar counters carry a bound. The
operators commented "Fault:" are wrong variants of the definition that follows
them. No module uses them: they document the mistake a property is there to
catch, and putting one in the place of its neighbour makes the property fail.

### Effect journal

`EffectJournal` has one worker that calls `write_file`, `edit_file` or the
composite tool `write_file_and_record_worker_result`. `Open` is the tool method up
to the journal (authorise the path, read the old text, compute the new one),
`Intent` is `DurableEffectJournal.intent`, and `recover_write` is four actions:
`Decide` (return what is recorded, record what is already there, or write),
`Replace` (`os.replace` of the synced temporary file), `Verify` and
`RecordResult`; `Raise` collects its refusals. `RecordWorkerResult` is the
composite tool's receipt. `Crash` ends the process anywhere, after which the same
call may be opened again; `External` is any other writer.

The identity of an effect is `<<call, resulting text>>`. The code hashes turn,
call id, tool and arguments, and the arguments it records for an edit hold the
edited *text*; this is why an edit that is opened again after it was applied is
another effect, and why the model keeps the text in the identity.

`held` is a history per *record*: it starts with what the file holds when the
`INTENT` is written and takes up whatever the file holds from then on.
`ResultWasHeld` is about this history, so a text that was in the file only before
the `INTENT` justifies no `RESULT`.

`AtomicWrites` knows effects that are `none`, `pending` or `done` and four
actions. `Implements` is the refinement, with `INTENT` mapped to `pending` and
`RESULT` to `done`, over the files of `Exclusive`: those nobody else writes
*during a call on them*. For other files it does not hold: the code compares and
then replaces, without a lock over the workspace.

`EffectChain` adds what a projection makes of the records
(`_terminal_effect_postimage`): each effect of a path is an edge from preimage to
postimage, and from these edges alone, which have no order, it computes where a
walk from the base content ends, or refuses. `JournalTellsFile` says that this is
what the file holds. It is not said in two cases, in which `base` is forgotten:
others changed a file, or an effect was begun while another one was interrupted
and may still be taken up (an edit executed again on its own result is one; the
projection would refuse there).

### Operation lock

`OperationFlock` gives every thread a program counter in `operation_flock`:

| pc | where the thread is |
| --- | --- |
| `out` | before the waiting loop |
| `seen` | it saw no entry and has left the guard |
| `flock` | it holds the guard and waits in `flock()` |
| `in` | the body, guard free |
| `again` | in the body, it saw its own entry and will enter again |
| `nested` | a nested body, which runs *inside* the guard |
| `popped` | the entry is gone, the file lock is still held |

`_FLOCKS_GUARD` is a re-entrant lock (owner and depth), `kernel` the external
file lock: one holder, freed by `LOCK_UN`, close or death. `ReadEpoch` and
`WriteEpoch` are the two halves of `fence`. `Die` kills a whole process.

`OperationFence` is what the callers count on: an operation has a holder and a
level, only the holder enters again and leaves its bodies in the reverse order, a
fence gives the next epoch in one step, and a kill frees what the process held. It
knows neither table nor guard nor lock file. `Implements` maps its `holder` to the
thread that the kernel lock was granted to *and* that is inside its body (`Holder`),
and its `level` to the depth of the table entry (`Level`). So an entry takes effect
when the entry is written, the outermost exit when it is popped, before the file
lock is free, and a fence when its epoch is on disk; the looks, the waits and the
unlocking are stutters. This is the lock that `WorkerOperation` has as `Lock`, which
is why that module may take it in one step.

### Operation life cycle

`WorkerOperation` has processes that each serve one request, and one action per
durable write: `WriteStarted`, `Prepare`, `Checkpoint`, `JournalAsk`, `Terminal`,
`WriteRecord`, `WriteIndex`. `RunKnown`, `RunInvalid`, `RunAccepted` and
`ReconcileCached`, `ReconcileUnknown`, `ReconcileJournal` are the branches of the
two entry points; `RunFails` and `ReconcileFails` their exception handlers, which
differ: a failed run writes an `UNKNOWN` record, a failed reconcile answers the
cached status and writes nothing. `Cached` is `_reconcile_operation`. `material` says
which of record and journaled result name the execution material, the digest by
which a run request that is sent again is recognised: every result of a run does,
one that reconcile puts together only if it extends the record of a run that failed.
Built from a record that is still `STARTED`, or for a request that is not bound, it
lacks the digest, and a run request sent again is then answered `UNKNOWN` (3148-3153)
although the record is completed, against the documentation's promise that a resend
returns the cached result (the promise of `semantic_resend`, there broken in a worse
way). No wrong state follows, and a reconcile answers `COMPLETED`. Two journal statuses, `CONVERSATION_BOUND` and `RESPONSE_RECOVERED`, are
not told apart from `ASK_DISPATCHING`. Semantic
requests skip `Lock`, as the code does. Which operations admit the composite tool
(`composite`) is chosen once, at the start.

### Repair loop

`RepairLoop` keeps the checkpoint as a sequence of calls with their results.
A *slot* is turn and index in the response. `Continue` releases the next call of
a batch, `JournalAsk`/`Send`/`Bind`/`Reply` are a web turn, `Emit` and `SaveResult`
the executor's checkpoint writes, `RunTool` the tool. `ResumeSingle` and
`ResumeBatch` are what `worker_reconcile` does with a readable turn; `BatchTail` is
the checkpoint `_batch_resume_message` accepts; `ResultAccepted` is
`_recorded_payload`. Whether an edit still finds its old text after it was applied
is a constant of the call (`Again`).

### Web turn

`WebTurn` has one process (`pc`, `mem`), the journal (`jrn`) and the page (`web`:
the prompts that arrived, each with its conversation and reply). Each prompt goes
`Generate` or `Reserve` → `JournalAsk` → send → `Bind` → `Read` → `Save` →
`Refresh` → `Accept`; the branches are

- a time-out (`AskTimesOut`): the turn is read in its known conversation or
  searched for (`TurnTimedOut`, `RepairTimedOut`, `Scan`), never sent again. (The
  retry in `_run_ask` follows a composer that failed before any prompt went out, and
  is no step here. `_reconcile_timeout` looks for the turn's id anywhere in a
  conversation; the model looks for the turn's prompt. The id is a digest, so they
  can differ only by a reply that quotes it, which ends the process with an error:
  the search becomes ambiguous, or the read after it finds no prompt of the turn);
- a reply that does not come (`Resume`): once per process, a resume turn in the
  same conversation; a restart that finds the reply missing ends instead, unless it
  has started a repair of its own;
- a reply out of protocol (`StartRepair`): a repair turn in a new conversation,
  whose reply must intend the same call (`Accept`, `Matches`);
- a stop (`Down`) and a restart (`Reconcile`, `ReadBound`), which goes on from the
  journal alone.

A turn is `<<n, kind>>`. A reply has the turn it answers, the call it *intends* and
its form: `complete`, `tail`, `write`, `direct` or `garbage`. A repair may answer
with another intent, which is the drift the code has to detect. `Page` is
external.

### Send pacing

`PacedSends` is the promise: per transport one send in flight, `Interval` between
the starts of two sends, `Settle` between the end of an answer and the next send.
It knows *ages*, which stop growing at the limit they are compared with, so that
time needs no bound. Both backends implement it.

`PacingRegistry` is the backend of one process. Its registry maps a transport to a
state and drops the least recently used idle states when it is full. States are
objects with an identity, because a thread keeps a reference to the state it
borrowed: a thread that waits on a state the registry no longer holds would pace
against nobody. Each block under `_PACING_STATES_LOCK` and each block under a
state's condition is an action:

| pc | where the thread is |
| --- | --- |
| `out` | not sending; `BorrowKnown`, `BorrowNew` or `Exhausted` begin an attempt |
| `enter`, `wait` | before the gate, in `condition.wait()` |
| `sleep` | the state is its own, the eligible time has not come |
| `send` | stamped, the prompt is under way |
| `release` | the state is free, the reference not yet given back |

`Interrupt` is an exception in the wait or in the sleep. The eviction in `Release`
never drops anything, since the registry was within its limit before; it is
modelled because the code does it. A model that has no profile has a state of its
own and is not in the registry. `_session_pacing_state` (1595-1598) is used by
tests only.

`DurablePacing` is the backend of several processes: a lock file, held from before
the read until after the finish is recorded, and a state file with two wall-clock
stamps. `Record` writes the start of a send before the prompt goes out. No finish
is written when a send ends in an exception, when a time-out has to be resumed, or
when the process is killed (`Fail`), unlike in the process, whose `finally` records
it. `SetBack` sets the clock back, so that a stamp lies in the future; the clock is
never set forward here, which would only shorten a wait of any program that trusts
the clock. `Refuse` is the refusal of a stamp too far in the future; damaged or
foreign files only refuse and are left out. Threads of one process that use the
durable backend open the lock file each for itself and behave like processes.

`SendPacing` puts the two side by side: a model with a profile and a state root
goes through the durable backend, any other through the registry, and the two
share nothing.

### Session binding

`SessionBinding` has operations of one task unit on one workspace, and what they
share: the session file (paths and Core identity), the workspace index, the
committed tree and the files. An operation starts a session (`WorkerContext`) or
retains one (`RetainedContext`); a first one with a proven packet is admitted on
the bound source and binds its identity in two steps (`ReadContext`,
`BindIdentity`), because the code reads the session file and replaces it later
without a lock; a continuation reads the identity (`ReadIdentity`), is admitted
against artifact, workspace, index and session (`AdmitWorkspace`, `AdmitPrior`,
`Recheck`), and every check may refuse. Effects are journaled writes inside the
paths. A projection is two steps, its checks (`Project`) and its tree
(`WriteTree`), because the files are read twice. The checks themselves read the
workspace several times (`cli.py` 1943, 1973, 1997) and are one step here; a change
inside that window is of the same kind as one between the two steps, which the
history variable `disturbed` marks. The controller commits whenever
it likes and resets between operations.

What the model shows beside its properties:

- a request without a session identity overwrites the session file, even if it is
  refused afterwards;
- the two-step bind can put an identity onto a context with other paths, and of two
  initial binds the later one can win. `BoundScope` holds nevertheless, because the
  hash-pinned artifact of a continuation names the scope its binding was admitted
  with and the admission compares it. That the artifact says so is an assumption
  about the controller, which is outside this repository;
- a change between the checks of a projection (`cli.py` near 1974) and its reading
  of the files (near 2040) enters the tree without a journal entry, although the
  docstring at `cli.py` 3452-3454 excludes unjournaled changes. `BoundTreeJournaled`
  excepts identities one of whose projections was disturbed in this way; without
  the exception TLC finds such a tree.

## Runs

| Run | What it asks | What it shows |
| --- | --- | --- |
| `effects` | a write on a shared file, a composite write and an edit on an exclusive one, two changes by others, stops anywhere | records keep their preimage, results and receipts (`RecordsNeverRegress`), a result was in the file at some time after its `INTENT` (`ResultWasHeld`), once-only atomic writes (`Implements`), the records alone tell what a file holds (`JournalTellsFile`) |
| `flock` | three threads of two processes on one operation, and one thread of each on a second operation; one process may die | `MutualExclusion`, `TableMatchesKernel`, `EpochCountsFences`, to callers a re-entrant lock with a one-step fence (`Implements`), and service for everybody unless processes stay stuck on one another (`ServedUnlessWedged`) |
| `flock_threads` | the same code without that condition | a deadlock, see below |
| `operation` | two processes, a worker operation (composite or not) and a semantic one, any requests in any order, two stops, under fairness | one first ask (`SingleDispatch`); journal before record before index (`RecordFollowsJournal`, `IndexNeverAhead`); finality (`CompletionSticks`); a journaled result reaches the record (`ResultReachesRecord`) |
| `semantic_resend` | two requests for one semantic operation | a completed operation is run again, see below |
| `repair_loop` | an edit, a recorder, a batch of three; two stops | `BatchInOrder`, `BatchResumesPastResults`, `BatchResumable`, `BatchResultAccepted`, `RecorderIsLast` |
| `edit_replay`, `recorder_replay` | the same with one stop and one turn | two disagreements, see below |
| `web_turn` | three turns, a budget of four, every time-out, repair, resume and any number of stops | `NoTurnSentTwice`, `JournalNamesLastSend`, `ResponseOfTurn`, `GivenIsMeant`, `SendsWithinBudget` |
| `repair_drift` | one turn with the composite tool admitted | a drifted repair is accepted, see below |
| `send_pacing` | either three threads on two transports with room for one state, or three processes with two kills and two changes of the clock | sends are paced (`RegistryImplements`, `Implements`), within the registry's limit (`RegistryBounded`) and on shared states (`SharedState`); every attempt ends (`AttemptsEnd`) and no state left behind stops the sending (`SendingGoesOn`) |
| `session_binding` | three operations, two files, requests for one or both | `BoundScope`, `BoundTreeJournaled` |

Each passing run also checks `TypeOK` (`send_pacing` that of both backends).
Deadlock is checked where somebody can always go on: in `operation` a process can
serve another request, in `send_pacing` time passes. Elsewhere the system may
really stop: the loop ends, the rounds are used up, the reply never comes, all
operations are done.

### Bounds

| Bound | Value | Why it is enough |
| --- | --- | --- |
| `MaxExternal` | 2 | a change between intent and replace, and a change back |
| `Calls`, `Files`, `Contents` | 3, 2, 2 | two calls on one file, one on another; an edit that applies to its own result needs two texts |
| `Threads`, `Locks` (`OperationFlock`) | 5, 2 | on the first operation two competitors inside a process and one outside; on the second a thread of each process, so that each process can hold what the other waits for |
| `MaxNested`, `MaxRounds`, `MaxFences` | at most 2, 1, 2 | a re-entry inside a re-entry; an entry after a full exit, by another thread; epochs of two holders. The bounds are per thread and per lock: nesting and fences only on the first operation |
| `Processes`, `MaxCrashes` | 2, 2 | a stop, and a stop of the request that repairs it, with another request beside it |
| `Worker`, `Semantic` | 1, 1 | operations share only the workspace index, whose entry each write replaces; the run has an operation that writes it under the fence and one without a fence |
| `MaxStops`, `Budget` (`RepairLoop`) | 2, 2 | a stop in the run and one in the resume; a turn before and after |
| `MaxTurns`, `Budget` (`WebTurn`) | 3, 4 | a turn, its repair, the repair's resume and one more turn; the third turn carries the `direct` form |
| `MaxEntries`, `Keys`, `Threads` (`PacingRegistry`) | 1, 2, 3 | a full registry with a transport outside; two threads that share a state while the third needs room |
| `MaxRounds` (`PacingRegistry`) | 2 | a second send on a state that was evicted and made again |
| `Interval`, `Settle` | 3, 2 | different limits, each longer than one tick; the code has 15 and 3 |
| `Future`, `Past`, `MaxBack` | 4, 6, 3 | two changes of the clock together reach the refusal, one does not; an old stamp comes back into range |
| `MaxSetBacks`, `MaxStops` (`DurablePacing`) | 2, 2 | see above; a stop before the send on either side of another process's send |
| `Ops`, `Paths`, `Scopes` (`SessionBinding`) | 3, 2, 2 | an admitted operation, its continuation and a stranger that replaces the session file; a path inside and one outside the scope |

`MCBroken` lets the `direct` form answer only the last turn and lets no repairable
form answer there. Both restrictions keep out states in which the code really
violates `GivenIsMeant` or `ResponseOfTurn`: with a `direct` reply to a *repair*
(run `repair_drift`), and with a `direct` response of an earlier turn that is still
in the journal when a later turn is journaled, which a reconcile then takes for
that turn's response (`cli.py` 4333-4360; with
`Broken = <<{"direct"}, {}>>` TLC shows `ResponseOfTurn` violated). The run is
therefore a statement about operations in which the composite call comes last, as
its prompt demands, and in protocol when it answers a repair. `WebTurnProofs` names
the condition, `DirectLast`, and proves both properties from it for any number of
turns and any other forms.

### Fairness

Three specifications state it.

`OperationFlock!FairSpec`: weak fairness of every thread's next step, that is, the
scheduler runs it. Nothing obliges a thread to nest or to fence once more, but a
body ends, as those of the code do. For `flock()` it means that the lock is granted
to somebody who waits while it stays free; no order among the waiting is assumed,
and since each thread enters a bounded number of times none is overtaken for ever.

`WorkerOperation!FairSpec`: weak fairness of every process, strong fairness of
being granted the fence (the waiting request is not overtaken for ever) and strong
fairness of a matching reconcile request for every worker operation. The last is
the documented duty of a client: an operation whose outcome is unknown is to be
reconciled, not run again. Stops are bounded by `MaxCrashes`. The fairness is over
`moving`, all variables but `composite`, which never changes.

`SendPacing!FairSpec`: weak fairness of time, and of every process and thread past
the start of an attempt, that is, the scheduler runs it and a send ends (the command
has a time-out). Processes are always willing to send again, which
`SendingGoesOn` needs; a thread of the registry need not begin an attempt.

## What is proved

Every proof module has the same shape: an inductive invariant `...Inv` whose parts
are named, one lemma per part with one step per action, `Invariance` (or a name that
ends in it) as the temporal conclusion, and a theorem for each property the runs check. TLC checked each
invariant on the instances before it was proved.

`EffectJournalProofs`, from `ConstantsAssumption` (types of the constants, texts
that differ from the markers `Absent`, `Symlink` and `NoMatch`):

- `Invariance`: the inductive invariant is
  `TypeOK /\ HeldInv /\ ResultWasHeld /\ ReceiptInv /\ CallInv /\ ExclusiveInv`.
  `ResultWasHeld` is not inductive alone: that `RecordResult` tells the truth depends
  on the file having held the postimage when `Decide` or `Verify` looked, possibly
  before another writer changed it. `CallInv` therefore says of each `pc` what has
  been seen: past `intent` a record exists with the preimage in memory; it is an
  `INTENT` until the `RESULT` is written; at `record` the postimage is in the
  record's `held`; at `receipt` the record is a `RESULT`. `HeldInv` keeps the present
  file in the `held` of every record there is.
- `TypeCorrect`, `ResultsWereHeld`, `NoRegress` follow, the last as an action
  property.
- `Refinement`: `Spec => Implements`. Initial states map to initial states and each
  action to `Begin`, `Land`, `Finish`, `Foreign` or a stutter. It needs
  `ExclusiveInv`: an exclusive file is the preimage in memory at `intent` and
  `replace`, and the postimage at `verify` and `record`.
- `ChainInvariance` and `JournalTells`, of `EffectChain!ChainSpec`. That the records
  tell the file looks like an induction over walks in a graph, which is out of
  reach. It is avoided by keeping, with the state, what such a walk leaves behind
  (`WalksTo`): the contents that the `RESULT` records of a file name are connected to
  the base content, and each is left as often as it is entered, except the base,
  once more left, and the end, once more entered. A new record adds one edge at the
  end (`WalkGrows`), anything else adds none (`WalkStays`), and from such edges the
  code finds the end (`WalkTells`), since only base and end are unbalanced.
  `WalkInv` says where the walk of each file ends, `AloneInv` and `SeenInv` why the
  edge that `RecordResult` adds leaves that end: only one effect is under way, and
  what it saw of the file is still true.

`OperationFlockProofs`, from `FlockAssumption` (`ProcessOf`, `LockOf` are functions
of the right type and `NoThread` is no thread; nothing about the numbers of
threads, processes or locks):

- `Invariance`: `TypeOK /\ HolderInv /\ EntryInv /\ ReadInv /\ EpochCountsFences`. A
  thread that is inside or `popped` is the kernel's holder (`HolderInv`); a table
  entry names a thread of that process that is inside on that lock (`EntryInv`); a
  fence that has read and not yet written is inside and has read the present epoch
  (`ReadInv`). `MutualExclusion` alone is not inductive: nothing in it says that a
  thread inside holds the kernel lock, and the re-entrant path never asks the kernel,
  so it is only as good as the table.
- `TypeCorrect`, `Exclusion`, `TableAgrees`, `LeasesCount`.
- `FenceInvariance`: `Invariance` with `KernelInv` and `DepthInv`. The kernel's holder
  is a thread of that operation that is inside or `popped`, and the entry of a thread
  inside is its own and as deep as the thread's place says.
- `Refinement`: `Spec => Implements`. Under `FenceInv` a caller sees exactly the
  threads that are inside (`Seen`), so each action maps to `Take`, `Again`, `Back`,
  `Leave`, `Fence`, `Killed` or a stutter. `ReadInv` makes the fence one step: the
  epoch read before is still the present one when the next is written.

`WorkerOperationProofs`, from `OperationAssumption` (worker and semantic operations
are disjoint, `NoProcess` is no process):

- `Invariance`: `TypeOK /\ FenceInv /\ StageInv /\ TraceInv /\ IndexInv /\
  IndexNeverAhead`. A process past the fence of a worker operation holds its lock
  (`FenceInv`); at each label it knows what record and journal hold (`StageInv`);
  an operation without a record has left no other trace (`TraceInv`). The properties
  alone are not inductive: that `SendAsk` sends for the first time follows from the
  journal entry its process made under the fence, and that a record is not
  overwritten from what the process read there.
- `Dispatch`, `JournalFirst`, `IndexBehind`, `CompletionStays`.

`RepairLoopProofs`, from `LoopAssumption` (responses are nonempty, the kinds of calls
known): batches of any length, any budget and any number of stops.

- `Invariance`: `TypeOK /\ BudgetInv /\ JournalInv /\ SlotInv /\ BatchInv /\ TurnInv /\
  RunInv /\ RecorderInv`. What is needed beside the properties is where the process
  stands relative to the checkpoint: its calls up to an index stand right before it
  and all succeeded (`BatchInv`), the journaled turn is one the checkpoint has not
  reached or ends with (`TurnInv`), and everything that ran is in the checkpoint
  (`RunInv`).
- `InOrder`, `Resumable`, `PastResults`, `LastCall`.
- `OnceInvariance` and `BatchAccepted`: the result of a recorder that came in a batch
  is always accepted, which bounds the disagreement of `recorder_replay` to recorders
  that came alone. Needed is `LastTurnInv`: every recorder call in the checkpoint is of
  the journaled turn. It is inductive because a turn is journaled only when no recorder
  call is there (`NoRecorderYet`): a single one has succeeded by then, and the one of a
  batch is its last call.

`WebTurnProofs`, from `WebAssumption`:

- `Invariance`: `ExchangeInv`, that is, `TypeOK /\ NamedInv /\ OrderInv /\ ProcessInv /\
  BudgetInv`. Turns have a `Rank`: by number, and within a number turn, resume,
  repair, resume of the repair. The prompts on the page are in this order, none
  after the journaled one, and before a send the journaled one is new (`OrderInv`).
  That a resume or a repair is a step forward needs `ProcessInv`: a process that has
  not resumed waits for a turn or a repair, and a turn that is a repair has left an
  origin in the journal, which forbids another one.
- `SentOnce`, `NamesLastSend`, `WithinBudget`.
- `RepliesInvariance`, assuming `DirectLast`: only the last turn is answered in the
  `direct` form of the composite call, and no form that is repaired is due there. It
  holds of every operation that does not admit the composite tool. What the page
  shows, what the process holds and what the journal holds answers the turn it is
  held for (`PageInv`, `HeldInv`), and a repair is about a response whose call is known
  (`OriginInv`). With the composite tool the journal *rewrites* a response, so that
  one must also know what may be rewritten: a reply has a form its turn may have,
  and a turn with the `direct` form is never repaired (`FormInv`); a `direct` form in
  the journal is the last thing it holds until a restart rewrites it (`DirectInv`).
- `ResponseToTurn` and `NoDrift` follow. The condition is needed: without it both
  properties fail (see [bounds](#bounds) and the next sections).

`PacingRegistryProofs`, from `PacingAssumption` and `RegistryAssumption`:

- `RegistryInvariance`: borrowers are counted, a thread's state is the registry's state of
  its key, two keys never share a state, one thread at a time is past a gate, and the
  stamps of a registered state are the ages of its transport's last start and answer,
  while those of a transport without a state are at their limits. The last is why
  eviction is harmless: only cooled states are dropped.
- `RegistryTypeCorrect`, `Limit`, `Shared`, and `RegistryRefinement` of `PacedSends`.

`SendPacingProofs`, from the assumptions of both backends:

- `DurableInvariance`: whoever is past the lock holds it, whoever sends has left its stamp, a
  stamp never claims more age than the event has by real time (setting the clock
  back keeps this), and what is left of a sleep covers what is missing.
- `DurableTypeCorrect`, and `DurableRefinement` of `PacedSends`.
- `SendsPaced` and `SendsSafe`: a behaviour of `SendPacing!SendSpec`, the system the
  run checks, is one of each backend (`DurablePart`, `RegistryPart`), so what was proved
  of each holds of the sends together.

`SessionBindingProofs`, from `SessionAssumption`:

- `ScopeInvariance`: an identity that anybody has read belongs to an operation that
  passed its own admission and keeps its paths from then on, and whoever runs under
  it has the same paths. `ScopeKept` follows.
- `TreeInvariance`: projected trees are owned by their identity, the index and the
  base of a continuation are projected trees, an undisturbed projection still sees
  what it checked. `TreesJournaled` follows, along chains of any length, for
  identities none of whose projections was disturbed.

The theorems need no bound: every bound constant is only assumed to be a natural
number.

## What is only model-checked

Liveness: `ServedUnlessWedged`, `ResultReachesRecord`, `AttemptsEnd` and
`SendingGoesOn` are stated under fairness, which the provers used here do not handle.
Every invariant, action property and refinement that a passing run checks is also
proved; `ResponseOfTurn` and `GivenIsMeant` under `DirectLast`, as said above.

## Where code and promise disagree

Five runs end in a counterexample. Each states what the documentation, a docstring
or a test says.

1. `flock_threads`: a thread that found no table entry holds the process-wide guard
   while it waits in `flock()` (`recovery.py` 41-55). If another thread of its
   process is the holder, that one needs the guard to leave (line 60): neither ever
   returns. Two processes can do the same to each other over two operations, each
   holding the one the other waits for; in the run `flock` both are the hypothesis of
   `ServedUnlessWedged`.
2. `semantic_resend`: `_semantic_run` (`cli.py` 3169-3297) takes no fence. Two
   requests can both find no record; the later one writes `STARTED` over the
   completed record and runs the graph again.
3. `edit_replay`: after a stop between an edit and its checkpointed result the call
   is put into the graph again. Its effect is computed from the file as it is now
   (`cli.py` 685-718), so the record of the first edit does not stop it.
4. `recorder_replay`: after a stop behind the checkpointed recorder call the call is
   appended a second time, and `_recorded_payload` accepts exactly one. A recorder
   that ends a batch is not affected (`BatchResultAccepted`).
5. `repair_drift`: journaling a direct-form composite response replaces the origin
   of the repair it answers (`opencli_web_model.py` 1161-1166, `cli.py` 4349-4359),
   after which the comparison that should reject a drifted repair is of the response
   with itself.

## What is not modelled

- *Text*: parsing and repairing a model response, hashing, JSON layout. Models decide
  by the outcome (`Forms`, `Matches`, `Canonical`).
- *Late polls and re-reads* of one readback: they only read, and in `WebTurn` a read
  may happen at any later time.
- *Identity gates* of `worker_reconcile` are two Booleans of a request.
- *Pure validation and projection* (admission, core binding, tool projection, hint
  evidence, execution resume, the manifest of a changeset): no state and no
  interleaving. In `SessionBinding` the checks that read nothing the others write are
  one refusal.
- *Graph builders, prompts, command line, CI scripts*: wiring.
- *Mutation gates* (`cli.py` 163-375): not yet, next section; `Effect` of
  `SessionBinding` and `Open` of `EffectJournal` take their verdict as given.
- *Damaged state files*: they only make a request refuse.

Of the hazards in `PROJECT.json`, those with a note and no property are not covered.
Three of them are close to a property that stops short of them: the receipts of the
operation record (`cli.py` 4326; `CompletionSticks` is about its status), a direct
composite response before the last turn (4335; kept out by `MCBroken`) and a change
between the checks and the tree of a projection (2040; excepted by
`BoundTreeJournaled`).

## Plan

Done: effect journal with refinement, chain of effects and proofs; operation lock
with two operations and proofs; life cycle with proofs; repair loop with proofs; web
turn with proofs, the composite call included; the lock's and the effect journal's
refinements; the chain of effects with proof; send pacing in memory and on disk with
refinements, proofs and the proof of their composition; session binding, continuation
and projection with proofs.

Next, in this order:

1. `WebTurn`: the repair origin of an earlier turn that stays in the journal and
   makes later turns unrecoverable (`cli.py` 4497), as a liveness property of a
   restarted exchange.
2. The path gates of a mutation (`cli.py` 163-300) against a reference definition.
3. Receipts in the operation record, which a reconcile without a workspace drops
   (`cli.py` 4326).
