------------------------ MODULE WorkerOperationProofs -------------------------
(***************************************************************************)
(* Worker operations of any number, served by any number of processes that *)
(* stop at any write: one first ask, a journal ahead of the record, a      *)
(* record ahead of the index, and completions that stay.                   *)
(***************************************************************************)
EXTENDS WorkerOperation, TLAPS

\* A process past the fence of a worker operation.
Fenced(p) == pc[p] \notin {"idle", "lock"} /\ Op(p) \in Worker

FenceInv == \A p \in Processes : Fenced(p) => lock[Op(p)] = p

\* What a process in the fence knows of its operation's files.
Running(p) == req[p].kind = "run"

Stage(p) ==
  /\ pc[p] # "execute"
  /\ pc[p] \in (Guarded \ {"terminal"}) \cup {"start"} => Running(p)
  /\ pc[p] = "resume" => ~Running(p)
  /\ pc[p] = "start" => rec[Op(p)] = "none"
  /\ Running(p) /\ pc[p] \in Guarded \cup {"write"} => rec[Op(p)] = "STARTED"
  /\ pc[p] = "prepare" => jrn[Op(p)] = "none" /\ asked[Op(p)] = 0
  /\ pc[p] \in {"checkpoint", "diagnose", "ask"} => jrn[Op(p)] = "PREPARED" /\ asked[Op(p)] = 0
  /\ pc[p] = "send" => jrn[Op(p)] = "ASK_DISPATCHING" /\ asked[Op(p)] = 0
  /\ pc[p] \in {"terminal", "resume"} => rec[Op(p)] \in {"STARTED", "UNKNOWN"}
  /\ pc[p] = "receipts" => jrn[Op(p)] = "COMPLETED" /\ out[p] = "COMPLETED"
  /\ pc[p] \in {"write", "index"} =>
       out[p] \in {"UNKNOWN", "COMPLETED"} /\ (out[p] = "COMPLETED" => jrn[Op(p)] = "COMPLETED")
  /\ pc[p] = "write" /\ ~Running(p) => out[p] = "COMPLETED" /\ rec[Op(p)] # "none"
  /\ pc[p] = "index" => rec[Op(p)] = out[p]

StageInv == \A p \in Processes : Fenced(p) => Stage(p)

\* An operation without a record has left no other trace, the first ask went out
\* once and after its entry, record follows journal, and a caller was told of a
\* completion only when the record says so.
Trace(o) ==
  /\ rec[o] = "none" => jrn[o] = "none" /\ asked[o] = 0 /\ ~readable[o] /\ ~receipt[o]
  /\ asked[o] <= 1
  /\ asked[o] > 0 => jrn[o] \in {"ASK_DISPATCHING", "COMPLETED"}
  /\ rec[o] = "COMPLETED" => jrn[o] = "COMPLETED"
  /\ told[o] => rec[o] = "COMPLETED"

TraceInv == \A o \in Worker : Trace(o)

\* The index names worker operations that came to an end.
IndexInv ==
  index # NoEntry => index.op \in Worker /\ index.status \in {"UNKNOWN", "COMPLETED"}

OperationInv ==
  /\ TypeOK /\ FenceInv /\ StageInv /\ TraceInv
  /\ IndexInv /\ IndexNeverAhead

\* What a completion may not lose.
Sticks(o) ==
  /\ rec[o] = "COMPLETED" => rec'[o] = "COMPLETED"
  /\ jrn[o] = "COMPLETED" => jrn'[o] = "COMPLETED"
  /\ told'[o] => rec'[o] = "COMPLETED"

\* The files of an operation nobody touches.
Same(o) ==
  /\ rec'[o] = rec[o] /\ jrn'[o] = jrn[o] /\ asked'[o] = asked[o] /\ told'[o] = told[o]
  /\ readable'[o] = readable[o] /\ receipt'[o] = receipt[o]

\* A step of p leaves other processes alone, and all worker operations but the
\* one in whose fence it is.
Frame(p) ==
  /\ \A q \in Processes \ {p} :
       /\ pc'[q] = pc[q] /\ req'[q] = req[q] /\ out'[q] = out[q]
       /\ \A o \in Ops : lock[o] = q => lock'[o] = q
  /\ \A o \in Worker : (Fenced(p) => o # Op(p)) => Same(o)
-------------------------------------------------------------------------------
\* Every write keeps the types of what it writes.
LEMMA TypeStep ==
  ASSUME OperationAssumption, TypeOK, [Next]_vars
  PROVE  TypeOK'
  <1> USE DEF TypeOK, Op, Statuses, JournalStatuses, Guarded, Goto, Gone, Answer,
              local, disk, history, moving
  <1>0. UNCHANGED composite
    BY DEF Next, vars
  <1>a. ASSUME NEW p \in Processes, NEW f \in {"record", "journal"}, NEW named, Material(p, f, named)
        PROVE  material' \in [Ops -> SUBSET {"record", "journal"}]
    BY <1>a DEF Material
  <1>1. ASSUME NEW p \in Processes, NEW r \in Requests, Request(p, r)
        PROVE  TypeOK'
    BY <1>0, <1>1 DEF Request
  <1>2. ASSUME NEW p \in Processes, Lock(p) PROVE TypeOK'
    BY <1>0, <1>2 DEF Lock
  <1>3. ASSUME NEW p \in Processes, RunKnown(p) \/ RunInvalid(p) \/ ReconcileCached(p) \/ ReconcileUnknown(p)
        PROVE TypeOK'
    <2>1. PICK status : Answer(p, status)
      BY <1>3 DEF RunKnown, RunInvalid, ReconcileCached, ReconcileUnknown
    <2>2. UNCHANGED <<disk, crashes>>
      BY <1>3 DEF RunKnown, RunInvalid, ReconcileCached, ReconcileUnknown
    <2> QED
      BY <1>0, <2>1, <2>2
  <1>4. ASSUME NEW p \in Processes, RunAccepted(p) \/ Diagnose(p) \/ RepairResult(p) \/ Receipts(p) \/ RunFails(p)
        PROVE TypeOK'
    BY <1>0, <1>4 DEF RunAccepted, Diagnose, RepairResult, Receipts, RunFails
  <1>5. ASSUME NEW p \in Processes, WriteStarted(p) \/ Prepare(p) \/ Checkpoint(p) \/ JournalAsk(p)
        PROVE TypeOK'
    <2>1. CASE WriteStarted(p)
      <3>1. material' \in [Ops -> SUBSET {"record", "journal"}]
        BY <2>1, <1>a DEF WriteStarted
      <3> QED
        BY <1>0, <2>1, <3>1 DEF WriteStarted
    <2>2. CASE Prepare(p)
      BY <1>0, <2>2 DEF Prepare
    <2>3. CASE Checkpoint(p)
      BY <1>0, <2>3 DEF Checkpoint
    <2>4. CASE JournalAsk(p)
      BY <1>0, <2>4 DEF JournalAsk
    <2> QED
      BY <1>5, <2>1, <2>2, <2>3, <2>4
  <1>6. ASSUME NEW p \in Processes, SendAsk(p) \/ Execute(p) PROVE TypeOK'
    BY <1>0, <1>6 DEF SendAsk, Execute, Requests
  <1>7. ASSUME NEW p \in Processes, Repair(p) PROVE TypeOK'
    BY <1>0, <1>7 DEF Repair
  <1>8. ASSUME NEW p \in Processes, Terminal(p) \/ WriteRecord(p) PROVE TypeOK'
    BY <1>0, <1>8, <1>a DEF Terminal, WriteRecord
  <1>9. ASSUME NEW p \in Processes, WriteIndex(p) PROVE TypeOK'
    BY <1>0, <1>9 DEF WriteIndex, Requests
  <1>10. ASSUME NEW p \in Processes, ReconcileJournal(p) PROVE TypeOK'
    <2>1. /\ UNCHANGED <<req, lock, disk, history, crashes>> /\ pc[p] = "read"
          /\ \/ pc' = [pc EXCEPT ![p] = "write"] /\ out' = [out EXCEPT ![p] = "COMPLETED"]
             \/ pc' = [pc EXCEPT ![p] = "terminal"] /\ UNCHANGED out
             \/ pc' = [pc EXCEPT ![p] = "resume"] /\ UNCHANGED out
      BY <1>10 DEF ReconcileJournal
    <2> QED
      BY <1>0, <2>1
  <1>11. ASSUME NEW p \in Processes, ReconcileFails(p) PROVE TypeOK'
    <2>1. crashes' \in Nat
      BY <1>11 DEF ReconcileFails
    <2>2. UNCHANGED disk /\ Answer(p, "UNKNOWN")
      BY <1>11 DEF ReconcileFails
    <2> QED
      BY <1>0, <2>1, <2>2
  <1>12. ASSUME NEW p \in Processes, Crash(p) PROVE TypeOK'
    BY <1>0, <1>12 DEF Crash
  <1>13. CASE UNCHANGED vars
    BY <1>13 DEF vars
  <1> QED
    BY <1>1, <1>2, <1>3, <1>4, <1>5, <1>6, <1>7, <1>8, <1>9, <1>10, <1>11, <1>12, <1>13
    DEF Next, Step

\* Every step stays in its frame.
LEMMA FrameStep ==
  ASSUME OperationAssumption, TypeOK, NEW p \in Processes,
         Step(p) \/ Crash(p) \/ \E r \in Requests : Request(p, r)
  PROVE  Frame(p)
  <1> DEFINE Others ==
               \A q \in Processes \ {p} :
                 /\ pc'[q] = pc[q] /\ req'[q] = req[q] /\ out'[q] = out[q]
                 /\ \A o \in Ops : lock[o] = q => lock'[o] = q
             Files == \A o \in Ops : o # Op(p) => Same(o)
  <1> USE DEF TypeOK, Goto, Gone, Answer, local, disk, history, Same
  <1>1. CASE Crash(p) \/ \E r \in Requests : Request(p, r)
    BY <1>1 DEF Crash, Request, OperationAssumption, Frame, Ops
  <1>2. ASSUME Lock(p) \/ RunAccepted(p) \/ Diagnose(p) \/ RepairResult(p) \/ Receipts(p)
               \/ RunFails(p) \/ ReconcileJournal(p)
        PROVE  Others /\ Files
    BY <1>2 DEF Lock, RunAccepted, Diagnose, RepairResult, Receipts, RunFails, ReconcileJournal,
                OperationAssumption
  <1>3. ASSUME RunKnown(p) \/ RunInvalid(p) \/ ReconcileCached(p) \/ ReconcileUnknown(p)
        PROVE  Others /\ Files
    BY <1>3 DEF RunKnown, RunInvalid, ReconcileCached, ReconcileUnknown
  <1>4. ASSUME WriteStarted(p) \/ Prepare(p) \/ Checkpoint(p) \/ JournalAsk(p) \/ SendAsk(p)
        PROVE  Others /\ Files
    BY <1>4 DEF WriteStarted, Prepare, Checkpoint, JournalAsk, SendAsk
  <1>5. ASSUME Repair(p) \/ Terminal(p) \/ Execute(p) \/ WriteRecord(p)
        PROVE  Others /\ Files
    BY <1>5 DEF Repair, Terminal, Execute, WriteRecord
  <1>6. ASSUME WriteIndex(p) \/ ReconcileFails(p)
        PROVE  Others /\ Files
    BY <1>6 DEF WriteIndex, ReconcileFails
  <1>7. CASE Lock(p)
    BY <1>2, <1>7 DEF Lock, Frame, Ops
  <1>8. CASE Step(p) /\ ~Lock(p)
    <2>1. Others /\ Files
      BY <1>2, <1>3, <1>4, <1>5, <1>6, <1>8 DEF Step
    <2>2. pc[p] \notin {"idle", "lock"}
      BY <1>8 DEF Step, RunAccepted, Diagnose, RepairResult, Receipts, RunFails, ReconcileJournal,
                  RunKnown, RunInvalid, ReconcileCached, ReconcileUnknown, WriteStarted, Prepare,
                  Checkpoint, JournalAsk, SendAsk, Repair, Terminal, Execute, WriteRecord,
                  WriteIndex, ReconcileFails, Guarded
    <2> QED
      BY <2>1, <2>2 DEF Frame, Fenced, Ops
  <1> QED
    BY <1>1, <1>7, <1>8

\* What the others know stays true: they are in the fences of other operations.
LEMMA OthersStay ==
  ASSUME TypeOK, FenceInv, StageInv, NEW p \in Processes, Frame(p),
         NEW q \in Processes, q # p, Fenced(q)'
  PROVE  lock'[Op(q)'] = q /\ Stage(q)'
  <1>1. /\ pc'[q] = pc[q] /\ req'[q] = req[q] /\ out'[q] = out[q] /\ Op(q)' = Op(q)
        /\ \A o \in Ops : lock[o] = q => lock'[o] = q
    BY DEF Frame, Op
  <1>2. Fenced(q) /\ Op(q) \in Ops /\ lock[Op(q)] = q /\ Stage(q)
    BY <1>1 DEF Fenced, FenceInv, StageInv, Ops, Op
  <1>3. Fenced(p) => Op(q) # Op(p)
    BY <1>2 DEF FenceInv
  <1>4. Same(Op(q))
    BY <1>2, <1>3 DEF Frame, Fenced
  <1> QED
    BY <1>1, <1>2, <1>4 DEF Same, Stage, Running, Op

\* The files of the operation in whose fence p is stay in order, and keep a
\* completion.
LEMMA OwnFiles ==
  ASSUME TypeOK, StageInv, TraceInv, NEW p \in Processes, NEW o \in Worker, o = Op(p), Fenced(p),
         Step(p) \/ Crash(p) \/ \E r \in Requests : Request(p, r)
  PROVE  Trace(o)' /\ Sticks(o)
  <1>1. Stage(p) /\ Trace(o) /\ o \in Ops /\ pc[p] \notin {"idle", "lock"} /\ req[p].op = o
    BY DEF StageInv, TraceInv, Ops, Fenced, Op
  <1> USE <1>1 DEF Op, Trace, Sticks
  <1>2. CASE Crash(p)
    BY <1>2 DEF Crash, disk, history, TypeOK
  <1>3. ASSUME NEW r \in Requests, Request(p, r)
        PROVE  FALSE
    BY <1>3 DEF Request
  <1>4. CASE Lock(p) \/ RunAccepted(p) \/ Diagnose(p) \/ RepairResult(p) \/ Receipts(p)
             \/ RunFails(p) \/ ReconcileJournal(p)
    BY <1>4 DEF Lock, RunAccepted, Diagnose, RepairResult, Receipts, RunFails, ReconcileJournal,
                disk, history, TypeOK
  <1>5. CASE RunKnown(p) \/ RunInvalid(p) \/ ReconcileCached(p) \/ ReconcileUnknown(p)
             \/ ReconcileFails(p)
    BY <1>5 DEF RunKnown, RunInvalid, ReconcileCached, ReconcileUnknown, ReconcileFails, Cached,
                Answer, disk, TypeOK
  <1>6. CASE WriteStarted(p)
    BY <1>6 DEF WriteStarted, Stage, history, TypeOK
  <1>7. CASE Prepare(p)
    BY <1>7 DEF Prepare, Stage, Guarded, Running, history, TypeOK
  <1>8. CASE Checkpoint(p)
    BY <1>8 DEF Checkpoint, history, TypeOK
  <1>9. CASE JournalAsk(p)
    BY <1>9 DEF JournalAsk, Stage, Guarded, Running, history, TypeOK
  <1>10. CASE SendAsk(p)
    BY <1>10 DEF SendAsk, Stage, Guarded, Running, disk, TypeOK
  <1>11. CASE Repair(p)
    BY <1>11 DEF Repair, Stage, Guarded, Running, history, TypeOK
  <1>12. CASE Terminal(p)
    BY <1>12 DEF Terminal, Stage, history, TypeOK
  <1>13. CASE Execute(p)
    BY <1>13 DEF Execute, Stage
  <1>14. CASE WriteRecord(p)
    BY <1>14 DEF WriteRecord, Stage, Guarded, history, TypeOK
  <1>15. CASE WriteIndex(p)
    BY <1>15 DEF WriteIndex, Stage, Answer, TypeOK
  <1> QED
    BY <1>2, <1>3, <1>4, <1>5, <1>6, <1>7, <1>8, <1>9, <1>10, <1>11, <1>12, <1>13, <1>14, <1>15
    DEF Step

\* What p knows after its step is true.
LEMMA OwnStage ==
  ASSUME TypeOK, FenceInv, StageInv, TraceInv, NEW p \in Processes, Fenced(p)',
         Step(p) \/ Crash(p) \/ \E r \in Requests : Request(p, r)
  PROVE  lock'[Op(p)'] = p /\ Stage(p)'
  <1> USE DEF Op, Guarded, Running
  <1>1. ASSUME NEW r \in Requests, Request(p, r)
        PROVE  FALSE
    BY <1>1 DEF Request, Fenced, TypeOK
  <1>2. CASE Lock(p)
    BY <1>2 DEF Lock, Goto, Fenced, Stage, TypeOK, Ops
  <1>3. CASE \/ Crash(p) \/ RunKnown(p) \/ RunInvalid(p) \/ ReconcileCached(p) \/ ReconcileUnknown(p)
             \/ ReconcileFails(p) \/ WriteIndex(p)
    BY <1>3 DEF Crash, RunKnown, RunInvalid, ReconcileCached, ReconcileUnknown, ReconcileFails,
                WriteIndex, Answer, Gone, Fenced, TypeOK
  <1>4. ASSUME Step(p), ~Lock(p), pc'[p] # "idle"
        PROVE  UNCHANGED <<req, lock>> /\ Fenced(p) /\ Stage(p) /\ Trace(Op(p)) /\ lock[Op(p)] = p
               /\ Op(p) \in Ops
    <2>1. UNCHANGED <<req, lock>>
      BY <1>4 DEF Step, RunAccepted, Diagnose, RepairResult, Receipts, RunFails, ReconcileJournal,
                  RunKnown, RunInvalid, ReconcileCached, ReconcileUnknown, WriteStarted, Prepare,
                  Checkpoint, JournalAsk, SendAsk, Repair, Terminal, Execute, WriteRecord,
                  WriteIndex, ReconcileFails, Answer, Gone, Goto, local, TypeOK
    <2>2. pc[p] \notin {"idle", "lock"}
      BY <1>4 DEF Step, RunAccepted, Diagnose, RepairResult, Receipts, RunFails, ReconcileJournal,
                  RunKnown, RunInvalid, ReconcileCached, ReconcileUnknown, WriteStarted, Prepare,
                  Checkpoint, JournalAsk, SendAsk, Repair, Terminal, Execute, WriteRecord,
                  WriteIndex, ReconcileFails
    <2>3. Fenced(p)
      BY <2>1, <2>2 DEF Fenced
    <2> QED
      BY <2>1, <2>3 DEF FenceInv, StageInv, TraceInv, Fenced, Ops
  <1>5. CASE Step(p) /\ ~Lock(p) /\ pc'[p] # "idle"
    <2> DEFINE o == Op(p)
    <2>1. /\ UNCHANGED <<req, lock>> /\ o \in Ops /\ o \in Worker /\ Stage(p) /\ Trace(o)
          /\ lock'[o] = p /\ Op(p)' = o /\ pc[p] \notin {"idle", "lock"}
      BY <1>4, <1>5 DEF Fenced
    <2> USE <2>1 DEF Stage, Trace
    <2>2. CASE RunAccepted(p)
      BY <2>2 DEF RunAccepted, Goto, local, disk, history, TypeOK
    <2>3. CASE WriteStarted(p)
      BY <2>3 DEF WriteStarted, Goto, local, disk, history, TypeOK
    <2>4. CASE Prepare(p)
      BY <2>4 DEF Prepare, Goto, local, disk, history, TypeOK
    <2>5. CASE Checkpoint(p)
      BY <2>5 DEF Checkpoint, Goto, local, disk, history, TypeOK
    <2>6. CASE Diagnose(p)
      BY <2>6 DEF Diagnose, Goto, local, disk, history, TypeOK
    <2>7. CASE JournalAsk(p)
      BY <2>7 DEF JournalAsk, Goto, local, disk, history, TypeOK
    <2>8. CASE SendAsk(p)
      BY <2>8 DEF SendAsk, Goto, local, disk, history, TypeOK
    <2>9. CASE Repair(p)
      BY <2>9 DEF Repair, Goto, local, disk, history, TypeOK
    <2>10. CASE RepairResult(p)
      BY <2>10 DEF RepairResult, Goto, local, disk, history, TypeOK
    <2>11. CASE Terminal(p)
      BY <2>11 DEF Terminal, Goto, local, disk, history, TypeOK
    <2>12. CASE Receipts(p)
      BY <2>12 DEF Receipts, Goto, local, disk, history, TypeOK
    <2>13. CASE RunFails(p)
      BY <2>13 DEF RunFails, Goto, local, disk, history, TypeOK
    <2>14. CASE Execute(p)
      BY <2>14 DEF Execute, Goto, local, disk, history, TypeOK
    <2>15. CASE WriteRecord(p)
      BY <2>15 DEF WriteRecord, Goto, local, disk, history, TypeOK
    <2>16. CASE ReconcileJournal(p)
      <3>1. /\ req[p].kind = "reconcile" /\ pc[p] = "read"
            /\ UNCHANGED <<rec, jrn, asked>> /\ rec[o] \in Statuses
        BY <2>16 DEF ReconcileJournal, disk, history, TypeOK
      <3>2. CASE pc' = [pc EXCEPT ![p] = "write"] /\ out' = [out EXCEPT ![p] = "COMPLETED"]
                 /\ jrn[o] = "COMPLETED"
        BY <3>1, <3>2 DEF TypeOK
      <3>3. CASE /\ \/ pc' = [pc EXCEPT ![p] = "terminal"] /\ receipt[o]
                    \/ pc' = [pc EXCEPT ![p] = "resume"] /\ readable[o]
                 /\ jrn[o] # "COMPLETED"
        <4>1. rec[o] \in {"STARTED", "UNKNOWN"}
          BY <3>1, <3>3 DEF Statuses
        <4> QED
          BY <3>1, <3>3, <4>1 DEF TypeOK
      <3> QED
        BY <2>16, <3>2, <3>3 DEF ReconcileJournal
    <2> QED
      BY <1>5, <2>2, <2>3, <2>4, <2>5, <2>6, <2>7, <2>8, <2>9, <2>10, <2>11, <2>12, <2>13, <2>14, <2>15, <2>16, <1>3 DEF Step
  <1> QED
    BY <1>1, <1>2, <1>3, <1>5 DEF Step, Fenced

\* The index stays behind the record it names: it is written after it, and a record
\* it names changes from UNKNOWN to COMPLETED only.
LEMMA IndexStep ==
  ASSUME OperationAssumption, OperationInv, NEW p \in Processes,
         Step(p) \/ Crash(p) \/ \E r \in Requests : Request(p, r)
  PROVE  IndexInv' /\ IndexNeverAhead'
  <1> USE DEF OperationInv
  <1>1. CASE UNCHANGED index
    <2> SUFFICES ASSUME index # NoEntry
                 PROVE  IndexInv' /\ IndexNeverAhead'
      BY <1>1 DEF IndexInv, IndexNeverAhead
    <2> DEFINE o == index.op
    <2>1. /\ o \in Worker /\ o \in Ops /\ index.status \in {"UNKNOWN", "COMPLETED"}
          /\ rec[o] = index.status \/ (index.status = "UNKNOWN" /\ rec[o] = "COMPLETED")
      BY DEF IndexInv, IndexNeverAhead, Ops
    <2>2. CASE ~(Fenced(p) /\ o = Op(p))
      <3>1. rec'[o] = rec[o]
        BY <2>1, <2>2, FrameStep DEF Frame, Same
      <3> QED
        BY <1>1, <2>1, <3>1 DEF IndexInv, IndexNeverAhead
    <2>3. CASE Fenced(p) /\ o = Op(p)
      <3>1. Stage(p) /\ Sticks(o)
        BY <2>1, <2>3, OwnFiles DEF StageInv
      <3>2. CASE WriteStarted(p) \/ Prepare(p)
        BY <2>1, <2>3, <3>1, <3>2 DEF WriteStarted, Prepare, Stage, Running, Guarded
      <3>3. CASE WriteRecord(p)
        <4>1. rec'[o] = out[p] /\ out[p] \in {"UNKNOWN", "COMPLETED"}
          BY <2>1, <2>3, <3>1, <3>3 DEF WriteRecord, Stage, TypeOK
        <4>2. ~Running(p)
          BY <2>1, <2>3, <3>1, <3>3 DEF WriteRecord, Stage
        <4>3. rec'[o] = "COMPLETED"
          BY <3>1, <3>3, <4>1, <4>2 DEF WriteRecord, Stage
        <4> QED
          BY <1>1, <2>1, <4>3 DEF IndexInv, IndexNeverAhead
      <3>4. CASE UNCHANGED rec
        BY <1>1, <2>1, <3>4 DEF IndexInv, IndexNeverAhead
      <3> QED
        BY <3>2, <3>3, <3>4
        DEF Step, Lock, Crash, Request, RunAccepted, Diagnose, RepairResult, Receipts, RunFails,
            ReconcileFails, ReconcileJournal, RunKnown, RunInvalid, ReconcileCached,
            ReconcileUnknown, Checkpoint, JournalAsk, SendAsk, Repair, Terminal, Execute,
            WriteIndex, disk
    <2> QED
      BY <2>2, <2>3
  <1>2. CASE WriteIndex(p) /\ Op(p) \in Worker /\ index' = [op |-> Op(p), status |-> out[p]]
    <2>1. Fenced(p) /\ Stage(p) /\ rec[Op(p)] = out[p] /\ out[p] \in {"UNKNOWN", "COMPLETED"}
          /\ UNCHANGED rec
      BY <1>2 DEF WriteIndex, Fenced, StageInv, Stage
    <2>2. index'.op = Op(p) /\ index'.status = out[p] /\ rec'[index'.op] = index'.status
      BY <1>2, <2>1
    <2> QED
      BY <1>2, <2>1, <2>2 DEF IndexInv, IndexNeverAhead
  <1> QED
    BY <1>1, <1>2
    DEF Step, Lock, Crash, Request, RunAccepted, Diagnose, RepairResult, Receipts, RunFails,
        ReconcileFails, ReconcileJournal, RunKnown, RunInvalid, ReconcileCached,
        ReconcileUnknown, WriteStarted, Prepare, Checkpoint, JournalAsk, SendAsk, Repair,
        Terminal, Execute, WriteRecord, WriteIndex, disk

\* One step keeps the invariant, and what a completion may not lose.
LEMMA OperationStep ==
  ASSUME OperationAssumption, OperationInv, [Next]_vars
  PROVE  OperationInv' /\ \A o \in Worker : Sticks(o)
  <1> USE DEF OperationInv
  <1>1. TypeOK'
    BY TypeStep
  <1>2. ASSUME NEW p \in Processes, Step(p) \/ Crash(p) \/ \E r \in Requests : Request(p, r)
        PROVE  /\ FenceInv' /\ StageInv' /\ TraceInv' /\ IndexInv' /\ IndexNeverAhead'
               /\ \A o \in Worker : Sticks(o)
    <2>1. Frame(p)
      BY <1>2, FrameStep
    <2>2. ASSUME NEW q \in Processes, Fenced(q)'
          PROVE  lock'[Op(q)'] = q /\ Stage(q)'
      BY <1>2, <2>1, <2>2, OthersStay, OwnStage
    <2>3. FenceInv' /\ StageInv'
      BY <2>2 DEF FenceInv, StageInv
    <2>4. ASSUME NEW o \in Worker
          PROVE  Trace(o)' /\ Sticks(o)
      <3>1. CASE Fenced(p) /\ o = Op(p)
        BY <1>2, <3>1, OwnFiles
      <3>2. CASE ~(Fenced(p) /\ o = Op(p))
        <4>1. Same(o) /\ Trace(o)
          BY <2>1, <3>2 DEF Frame, TraceInv
        <4> QED
          BY <4>1 DEF Same, Trace, Sticks
      <3> QED
        BY <3>1, <3>2
    <2>5. IndexInv' /\ IndexNeverAhead'
      BY <1>2, IndexStep
    <2> QED
      BY <2>3, <2>4, <2>5 DEF TraceInv
  <1>3. CASE UNCHANGED vars
    <2>1. FenceInv' /\ StageInv'
      BY <1>3 DEF FenceInv, StageInv, Fenced, Stage, Running, Op, vars, moving, local, disk, history
    <2>2. TraceInv' /\ (\A o \in Worker : Sticks(o))
      BY <1>3 DEF TraceInv, Trace, Sticks, vars, moving, disk, history
    <2>3. IndexInv' /\ IndexNeverAhead'
      BY <1>3 DEF IndexInv, IndexNeverAhead, vars, moving, disk
    <2> QED
      BY <1>1, <2>1, <2>2, <2>3
  <1> QED
    BY <1>1, <1>2, <1>3 DEF Next

\* The inductive invariant: the fence keeps a second process out, so what the one
\* in it has read and written still stands; record, journal and index are ahead of
\* each other in that order.
THEOREM Invariance == Spec => []OperationInv
  <1>1. Init => OperationInv
    <2> SUFFICES ASSUME Init
                 PROVE  OperationInv
      OBVIOUS
    <2>1. TypeOK
      BY OperationAssumption
      DEF Init, TypeOK, Statuses, JournalStatuses, OperationAssumption
    <2>2. FenceInv /\ StageInv /\ TraceInv /\ IndexInv /\ IndexNeverAhead
      BY DEF Init, FenceInv, StageInv, Fenced, TraceInv, Trace, Ops, IndexInv, IndexNeverAhead
    <2> QED
      BY <2>1, <2>2 DEF OperationInv
  <1>2. OperationInv /\ [Next]_vars => OperationInv'
    BY OperationStep, OperationAssumption
  <1> QED
    BY <1>1, <1>2, PTL DEF Spec

\* Every write keeps the types of records, journals, index and requests.
THEOREM TypeCorrect == Spec => []TypeOK
  <1>1. OperationInv => TypeOK
    BY DEF OperationInv
  <1> QED
    BY <1>1, Invariance, PTL

\* worker_run: the first ask of an operation is sent once, after its entry.
THEOREM Dispatch == Spec => []SingleDispatch
  <1>1. OperationInv => SingleDispatch
    BY DEF OperationInv, TraceInv, Trace, SingleDispatch
  <1> QED
    BY <1>1, Invariance, PTL

\* The journal is completed before the record, on every path of run and reconcile.
THEOREM JournalFirst == Spec => []RecordFollowsJournal
  <1>1. OperationInv => RecordFollowsJournal
    BY DEF OperationInv, TraceInv, Trace, RecordFollowsJournal
  <1> QED
    BY <1>1, Invariance, PTL

\* _write_terminal: the index never claims more than the record it names.
THEOREM IndexBehind == Spec => []IndexNeverAhead
  <1>1. OperationInv => IndexNeverAhead
    BY DEF OperationInv
  <1> QED
    BY <1>1, Invariance, PTL

\* No request, race or stop takes a worker's completion back.
THEOREM CompletionStays == Spec => CompletionSticks
  <1>1. OperationInv /\ [Next]_vars =>
          [\A o \in Worker :
             /\ rec[o] = "COMPLETED" => rec'[o] = "COMPLETED"
             /\ jrn[o] = "COMPLETED" => jrn'[o] = "COMPLETED"
             /\ told'[o] => rec'[o] = "COMPLETED"]_vars
    BY OperationStep, OperationAssumption DEF Sticks
  <1> QED
    BY <1>1, Invariance, PTL DEF Spec, CompletionSticks
===============================================================================
