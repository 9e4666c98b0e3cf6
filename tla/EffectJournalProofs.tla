-------------------------- MODULE EffectJournalProofs -------------------------
(***************************************************************************)
(* Proofs about EffectJournal, and about what a projection computes from   *)
(* its records (EffectChain), for every choice of their constants.         *)
(***************************************************************************)
EXTENDS EffectChain, FiniteSetTheorems, TLAPS

\* What a running call may rely on, step by step.
CallInv ==
  /\ pc \in {"recover", "replace", "verify", "record", "receipt"} =>
       rec[Id].status # "none" /\ rec[Id].pre = eff.pre
  /\ pc \in {"replace", "verify", "record"} => rec[Id].status = "INTENT"
  /\ pc = "receipt" => rec[Id].status = "RESULT"
  /\ pc = "record" => eff.post \in held[Id]

\* On an exclusive file the last look at the content is still true.
ExclusiveInv ==
  pc # "idle" /\ Place \in Exclusive =>
    /\ pc \in {"intent", "replace"} => file[Place] = eff.pre
    /\ pc \in {"verify", "record"} => file[Place] = eff.post

ReceiptInv == \A e \in Effects : rec[e].receipt => rec[e].status = "RESULT"
HeldInv == \A e \in Effects : rec[e].status # "none" => file[PathOf(e)] \in held[e]

IInv == TypeOK /\ HeldInv /\ ResultWasHeld /\ ReceiptInv /\ CallInv /\ ExclusiveInv
-------------------------------------------------------------------------------
\* What typing gives about the effect in memory.
LEMMA MemoryFacts ==
  ASSUME ConstantsAssumption, TypeOK, pc # "idle"
  PROVE  /\ eff.call \in Calls /\ eff.pre \in Image /\ eff.post \in Contents
         /\ Id \in Effects /\ Place \in Files
         /\ PathOf(Id) = Place /\ PostOf(Id) = eff.post
         /\ eff = [call |-> eff.call, pre |-> eff.pre, post |-> eff.post]
         /\ eff.post \in Image /\ eff.post # Symlink /\ eff.post # Absent
  BY DEF ConstantsAssumption, TypeOK, Memory, Idle, Effects, Id, Place, PathOf, PostOf, Image

\* The text a call would leave is a text.
LEMMA OutcomeType ==
  ASSUME ConstantsAssumption, NEW c \in Calls, NEW old \in Image, old # Symlink,
         Tool[c] = "edit_file" => old # Absent, Outcome(c, old) # NoMatch
  PROVE  Outcome(c, old) \in Contents
  <1>1. CASE Tool[c] = "edit_file"
    <2>1. old \in Contents
      BY <1>1 DEF Image
    <2> QED
      BY <1>1, <2>1 DEF ConstantsAssumption, Outcome
  <1>2. CASE Tool[c] # "edit_file"
    BY <1>2 DEF ConstantsAssumption, Outcome
  <1> QED
    BY <1>1, <1>2

\* The inductive invariant holds initially.
LEMMA InitInv ==
  ASSUME ConstantsAssumption
  PROVE  Init => IInv
  <1> SUFFICES ASSUME Init PROVE IInv
    OBVIOUS
  <1>1. TypeOK
    BY DEF Init, TypeOK, Record, Steps, Image
  <1> QED
    BY <1>1 DEF Init, IInv, HeldInv, ResultWasHeld, ReceiptInv, CallInv, ExclusiveInv

\* Every step keeps the types.
LEMMA TypeStep ==
  ASSUME ConstantsAssumption, TypeOK, [Next]_vars
  PROVE  TypeOK'
  <1> USE DEF TypeOK, Steps
  <1>1. ASSUME NEW c \in Calls, Open(c) PROVE TypeOK'
    <2>1. Target[c] \in Files /\ file[Target[c]] \in Image
      BY DEF ConstantsAssumption
    <2>2. Outcome(c, file[Target[c]]) \in Contents
      BY <1>1, <2>1, OutcomeType DEF Open
    <2>3. eff' \in Memory
      BY <1>1, <2>1, <2>2 DEF Open, Memory
    <2> QED
      BY <1>1, <2>3 DEF Open
  <1>2. CASE Intent
    <2>1. Id \in Effects /\ eff.pre \in Image /\ eff \in Memory
      BY <1>2, MemoryFacts DEF Intent
    <2>2. eff' \in Memory
      BY <1>2, <2>1 DEF Intent, Memory, Record
    <2>3. [status |-> "INTENT", pre |-> eff.pre, receipt |-> FALSE] \in Record
      BY <2>1 DEF Record
    <2>4. rec' \in [Effects -> Record]
      BY <1>2, <2>1, <2>3 DEF Intent, Begin
    <2>5. held' \in [Effects -> SUBSET Image]
      <3>1. Place \in Files /\ file[Place] \in Image
        BY <1>2, MemoryFacts DEF Intent
      <3> QED
        BY <1>2, <2>1, <3>1 DEF Intent, Begin
    <2> QED
      BY <1>2, <2>2, <2>4, <2>5 DEF Intent
  <1>3. CASE Decide
    BY <1>3 DEF Decide, Return, Leave
  <1>4. CASE Raise
    BY <1>4 DEF Raise, Leave
  <1>5. CASE Replace
    BY <1>5, MemoryFacts DEF Replace, Put
  <1>6. CASE Verify
    BY <1>6 DEF Verify
  <1>7. CASE RecordResult
    <2>1. rec' \in [Effects -> Record]
      BY <1>7, MemoryFacts DEF RecordResult, Record
    <2> QED
      BY <1>7, <2>1 DEF RecordResult, Return, Leave
  <1>8. CASE RecordWorkerResult
    <2>1. rec' \in [Effects -> Record]
      BY <1>8, MemoryFacts, ZenonT(60) DEF RecordWorkerResult, Record
    <2> QED
      BY <1>8, <2>1 DEF RecordWorkerResult, Leave
  <1>9. CASE Crash
    BY <1>9 DEF Crash, Leave
  <1>10. ASSUME NEW f \in Files, NEW v \in Image, External(f, v) PROVE TypeOK'
    BY <1>10 DEF External, Put
  <1>11. CASE UNCHANGED vars
    BY <1>11 DEF vars
  <1> QED
    BY <1>1, <1>2, <1>3, <1>4, <1>5, <1>6, <1>7, <1>8, <1>9, <1>10, <1>11 DEF Next

\* The history of a record has the file's present content, and only grows.
LEMMA HeldStep ==
  ASSUME ConstantsAssumption, IInv, [Next]_vars
  PROVE  /\ HeldInv'
         /\ \A e \in Effects : rec[e].status # "none" => held[e] \subseteq held'[e]
  <1>0. TypeOK /\ HeldInv
    BY DEF IInv
  <1> SUFFICES ASSUME NEW e \in Effects
               PROVE  /\ rec'[e].status # "none" => file'[PathOf(e)] \in held'[e]
                      /\ rec[e].status # "none" => held[e] \subseteq held'[e]
    BY DEF HeldInv
  <1>1. PathOf(e) \in Files
    BY DEF PathOf, Effects, ConstantsAssumption
  <1>2. ASSUME NEW f \in Files, NEW v \in Image, Put(f, v), UNCHANGED rec
        PROVE  /\ rec'[e].status # "none" => file'[PathOf(e)] \in held'[e]
               /\ rec[e].status # "none" => held[e] \subseteq held'[e]
    <2>1. file'[PathOf(e)] = IF PathOf(e) = f THEN v ELSE file[PathOf(e)]
      BY <1>0, <1>1, <1>2 DEF Put, TypeOK
    <2>2. held'[e] = IF PathOf(e) = f /\ rec[e].status # "none"
                       THEN held[e] \cup {v} ELSE held[e]
      BY <1>2 DEF Put
    <2> QED
      BY <1>0, <1>2, <2>1, <2>2 DEF HeldInv
  <1>3. CASE Replace
    <2>1. Place \in Files /\ eff.post \in Image
      BY <1>0, <1>3, MemoryFacts DEF Replace
    <2> QED
      BY <1>2, <1>3, <2>1 DEF Replace
  <1>4. ASSUME NEW f \in Files, NEW v \in Image, External(f, v)
        PROVE  /\ rec'[e].status # "none" => file'[PathOf(e)] \in held'[e]
               /\ rec[e].status # "none" => held[e] \subseteq held'[e]
    BY <1>2, <1>4 DEF External
  <1>5. CASE Intent /\ rec[Id].status = "none"
    <2>1. Id \in Effects /\ PathOf(Id) = Place
      BY <1>0, <1>5, MemoryFacts DEF Intent
    <2>2. CASE e = Id
      <3>1. held'[e] = {file[Place]}
        BY <1>0, <1>5, <2>1, <2>2 DEF Intent, Begin, TypeOK
      <3> QED
        BY <1>5, <2>1, <2>2, <3>1 DEF Intent
    <2>3. CASE e # Id
      <3>1. rec'[e] = rec[e] /\ held'[e] = held[e]
        BY <1>0, <1>5, <2>3 DEF Intent, Begin, TypeOK
      <3> QED
        BY <1>0, <1>5, <3>1 DEF Intent, HeldInv
    <2> QED
      BY <2>2, <2>3
  <1>6. CASE UNCHANGED <<file, held>> /\ (rec'[e].status # "none" => rec[e].status # "none")
    BY <1>0, <1>6 DEF HeldInv
  <1>7. CASE RecordResult
    <2>1. Id \in Effects /\ rec[Id].status # "none"
      BY <1>0, <1>7, MemoryFacts DEF RecordResult, IInv, CallInv
    <2>2. rec[e].status = "none" => rec'[e] = rec[e]
      BY <1>0, <1>7, <2>1 DEF RecordResult, TypeOK
    <2> QED
      BY <1>6, <1>7, <2>2 DEF RecordResult
  <1>8. CASE RecordWorkerResult
    <2>1. Id \in Effects /\ rec[Id].status # "none"
      BY <1>0, <1>8, MemoryFacts DEF RecordWorkerResult, IInv, CallInv
    <2>2. rec[e].status = "none" => rec'[e] = rec[e]
      BY <1>0, <1>8, <2>1 DEF RecordWorkerResult, TypeOK
    <2> QED
      BY <1>6, <1>8, <2>2 DEF RecordWorkerResult
  <1>9. CASE UNCHANGED <<file, held, rec>>
    BY <1>6, <1>9
  <1> QED
    BY <1>3, <1>4, <1>5, <1>7, <1>8, <1>9
    DEF Next, vars, Open, Intent, Decide, Raise, Verify, Crash

\* What a step may do to the records: only the record of the effect in memory
\* changes, a new INTENT only where there was none, a RESULT only at "record".
LEMMA RecordStep ==
  ASSUME ConstantsAssumption, IInv, [Next]_vars, NEW e \in Effects, rec'[e] # rec[e]
  PROVE  /\ pc \in {"intent", "record", "receipt"} /\ e = Id
         /\ pc = "intent" => /\ rec[e].status = "none"
                             /\ rec'[e] = [status |-> "INTENT", pre |-> eff.pre, receipt |-> FALSE]
         /\ pc = "record" => /\ rec[e].status = "INTENT" /\ rec[e].pre = eff.pre
                             /\ rec'[e] = [status |-> "RESULT", pre |-> eff.pre, receipt |-> FALSE]
         /\ pc = "receipt" => /\ rec[e].status = "RESULT"
                              /\ rec'[e] = [rec[e] EXCEPT !.receipt = TRUE]
  <1>0. TypeOK /\ CallInv
    BY DEF IInv
  <1>1. CASE Intent
    <2>1. Id \in Effects
      BY <1>0, <1>1, MemoryFacts DEF Intent
    <2> QED
      BY <1>0, <1>1, <2>1 DEF Intent, Begin, TypeOK
  <1>2. CASE RecordResult
    <2>1. Id \in Effects
      BY <1>0, <1>2, MemoryFacts DEF RecordResult
    <2> QED
      BY <1>0, <1>2, <2>1 DEF RecordResult, TypeOK, CallInv
  <1>3. CASE RecordWorkerResult
    <2>1. Id \in Effects
      BY <1>0, <1>3, MemoryFacts DEF RecordWorkerResult
    <2> QED
      BY <1>0, <1>3, <2>1 DEF RecordWorkerResult, TypeOK, CallInv
  <1>4. CASE UNCHANGED rec
    BY <1>4
  <1> QED
    BY <1>1, <1>2, <1>3, <1>4
    DEF Next, vars, Open, Decide, Raise, Replace, Verify, Crash, External

\* The record invariants are inductive: RESULT appears only at "record", where
\* the history already has the postimage.
LEMMA ResultStep ==
  ASSUME ConstantsAssumption, IInv, [Next]_vars
  PROVE  ResultWasHeld' /\ ReceiptInv'
  <1>0. TypeOK /\ CallInv /\ ResultWasHeld /\ ReceiptInv
    BY DEF IInv
  <1> SUFFICES ASSUME NEW e \in Effects
               PROVE  /\ rec'[e].status = "RESULT" => PostOf(e) \in held'[e]
                      /\ rec'[e].receipt => rec'[e].status = "RESULT"
    BY DEF ResultWasHeld, ReceiptInv
  <1>1. rec[e] \in Record
    BY <1>0 DEF TypeOK
  <1>2. rec[e].status # "none" => held[e] \subseteq held'[e]
    BY HeldStep
  <1>3. CASE rec'[e] = rec[e]
    BY <1>0, <1>2, <1>3 DEF ResultWasHeld, ReceiptInv
  <1>4. CASE rec'[e] # rec[e]
    <2>1. pc \in {"intent", "record", "receipt"} /\ e = Id
      BY <1>4, RecordStep
    <2>2. PathOf(e) = Place /\ PostOf(e) = eff.post
      BY <1>0, <2>1, MemoryFacts
    <2>3. CASE pc = "intent"
      BY <1>4, <2>3, RecordStep
    <2>4. CASE pc = "record"
      <3>1. /\ rec[e].status = "INTENT"
            /\ rec'[e] = [status |-> "RESULT", pre |-> eff.pre, receipt |-> FALSE]
        BY <1>4, <2>4, RecordStep
      <3>2. PostOf(e) \in held[e]
        BY <1>0, <2>1, <2>2, <2>4 DEF CallInv
      <3> QED
        BY <1>2, <3>1, <3>2
    <2>5. CASE pc = "receipt"
      <3>1. rec[e].status = "RESULT" /\ rec'[e] = [rec[e] EXCEPT !.receipt = TRUE]
        BY <1>4, <2>5, RecordStep
      <3>2. rec'[e].status = "RESULT"
        BY <1>1, <3>1 DEF Record
      <3> QED
        BY <1>0, <1>2, <3>1, <3>2 DEF ResultWasHeld
    <2> QED
      BY <2>1, <2>3, <2>4, <2>5
  <1> QED
    BY <1>3, <1>4

\* The facts a running call relies on are inductive.
LEMMA CallStep ==
  ASSUME ConstantsAssumption, IInv, [Next]_vars
  PROVE  CallInv'
  <1>0. TypeOK /\ CallInv /\ HeldInv
    BY DEF IInv
  <1> USE <1>0
  <1> USE DEF CallInv, Id, Place
  <1>1. CASE \E c \in Calls : Open(c)
    BY <1>1 DEF Open
  <1>2. CASE Intent
    <2>1. Id \in Effects /\ eff \in Memory
      BY <1>2, MemoryFacts DEF Intent, TypeOK
    <2>2. eff'.call = eff.call /\ eff'.post = eff.post
      BY <1>2, <2>1 DEF Intent, Memory
    <2>3. rec'[Id].status # "none" /\ rec'[Id].pre = eff'.pre
      BY <1>2, <2>1 DEF Intent, Begin, Memory, TypeOK
    <2> QED
      BY <1>2, <2>2, <2>3 DEF Intent
  <1>3. CASE Decide
    <2>1. rec[Id] \in Record /\ file[Place] \in held[Id]
      BY <1>3, MemoryFacts DEF Decide, TypeOK, HeldInv
    <2>2. UNCHANGED <<rec, held>> /\ (UNCHANGED eff \/ pc' = "idle")
      BY <1>3 DEF Decide, Return, Leave
    <2> QED
      BY <1>3, <2>1, <2>2 DEF Decide, Return, Leave, Record
  <1>4. CASE Replace
    BY <1>4 DEF Replace
  <1>5. CASE Verify
    <2>1. file[Place] \in held[Id]
      BY <1>5, MemoryFacts DEF Verify, HeldInv
    <2> QED
      BY <1>5, <2>1 DEF Verify
  <1>6. CASE RecordResult
    <2>1. Id \in Effects
      BY <1>6, MemoryFacts DEF RecordResult
    <2>2. rec'[Id] = [status |-> "RESULT", pre |-> eff.pre, receipt |-> FALSE]
      BY <1>6, <2>1 DEF RecordResult, TypeOK
    <2> QED
      BY <1>6, <2>2 DEF RecordResult, Return, Leave
  <1>7. CASE pc' = "idle"
    BY <1>7
  <1>8. ASSUME NEW f \in Files, NEW v \in Image, External(f, v) PROVE CallInv'
    <2>1. pc # "idle" /\ rec[Id].status # "none" => held[Id] \subseteq held'[Id]
      BY MemoryFacts, HeldStep
    <2> QED
      BY <1>8, <2>1 DEF External
  <1>9. CASE UNCHANGED vars
    BY <1>9 DEF vars
  <1> QED
    BY <1>1, <1>2, <1>3, <1>4, <1>5, <1>6, <1>7, <1>8, <1>9
    DEF Next, Raise, RecordWorkerResult, Crash, Leave

\* On an exclusive file nobody disturbs what the call has seen.
LEMMA ExclusiveStep ==
  ASSUME ConstantsAssumption, IInv, [Next]_vars
  PROVE  ExclusiveInv'
  <1>0. TypeOK /\ CallInv /\ ExclusiveInv
    BY DEF IInv
  <1> USE <1>0
  <1> USE DEF ExclusiveInv, Place
  <1>1. CASE \E c \in Calls : Open(c)
    BY <1>1 DEF Open
  <1>2. CASE Intent
    BY <1>2 DEF Intent
  <1>3. CASE Decide
    BY <1>3 DEF Decide, Return, Leave
  <1>4. CASE Replace
    BY <1>4, MemoryFacts DEF Replace, Put, TypeOK
  <1>5. CASE Verify
    BY <1>5 DEF Verify
  <1>6. CASE RecordResult
    BY <1>6 DEF RecordResult, Return, Leave
  <1>7. CASE pc' = "idle"
    BY <1>7
  <1>8. ASSUME NEW f \in Files, NEW v \in Image, External(f, v) PROVE ExclusiveInv'
    BY <1>8 DEF External, Put, TypeOK
  <1>9. CASE UNCHANGED vars
    BY <1>9 DEF vars
  <1> QED
    BY <1>1, <1>2, <1>3, <1>4, <1>5, <1>6, <1>7, <1>8, <1>9
    DEF Next, Raise, RecordWorkerResult, Crash, Leave

\* The conjuncts together are inductive.
LEMMA NextInv ==
  ASSUME ConstantsAssumption, IInv, [Next]_vars
  PROVE  IInv'
  <1>1. TypeOK
    BY DEF IInv
  <1> QED
    BY <1>1, TypeStep, HeldStep, ResultStep, CallStep, ExclusiveStep DEF IInv

\* The inductive invariant of the journal.
THEOREM Invariance == Spec => []IInv
  <1>1. Init => IInv
    BY ConstantsAssumption, InitInv
  <1>2. IInv /\ [Next]_vars => IInv'
    BY ConstantsAssumption, NextInv
  <1> QED
    BY <1>1, <1>2, PTL DEF Spec

\* Type correctness.
THEOREM TypeCorrect == Spec => []TypeOK
  <1>1. IInv => TypeOK
    BY DEF IInv
  <1> QED
    BY <1>1, Invariance, PTL

\* A RESULT record proves that the file held the effect's text at some moment since
\* the record's INTENT, on shared files too and whatever crashes or foreign writes
\* happened meanwhile.
THEOREM ResultsWereHeld == Spec => []ResultWasHeld
  <1>1. IInv => ResultWasHeld
    BY DEF IInv
  <1> QED
    BY <1>1, Invariance, PTL

\* No replay of a call weakens a durable record.
THEOREM NoRegress == Spec => RecordsNeverRegress
  <1>1. ASSUME IInv, [Next]_vars, NEW e \in Effects
        PROVE  /\ rec[e].status # "none" => rec'[e].status # "none" /\ rec'[e].pre = rec[e].pre
               /\ rec[e].status = "RESULT" => rec'[e].status = "RESULT"
               /\ rec[e].receipt => rec'[e].receipt
    <2>1. rec[e] \in Record
      BY <1>1 DEF IInv, TypeOK
    <2>2. rec[e].receipt => rec[e].status = "RESULT"
      BY <1>1 DEF IInv, ReceiptInv
    <2>3. CASE rec'[e] = rec[e]
      BY <2>3
    <2>4. CASE rec'[e] # rec[e]
      <3>1. CASE pc = "intent"
        BY <1>1, <2>2, <2>4, <3>1, ConstantsAssumption, RecordStep
      <3>2. CASE pc = "record"
        BY <1>1, <2>2, <2>4, <3>2, ConstantsAssumption, RecordStep
      <3>3. CASE pc = "receipt"
        <4>1. rec[e].status = "RESULT" /\ rec'[e] = [rec[e] EXCEPT !.receipt = TRUE]
          BY <1>1, <2>4, <3>3, ConstantsAssumption, RecordStep
        <4> QED
          BY <2>1, <4>1 DEF Record
      <3> QED
        BY <1>1, <2>4, <3>1, <3>2, <3>3, ConstantsAssumption, RecordStep
    <2> QED
      BY <2>3, <2>4
  <1>2. IInv /\ [Next]_vars =>
          [\A e \in Effects :
             /\ rec[e].status # "none" => rec'[e].status # "none" /\ rec'[e].pre = rec[e].pre
             /\ rec[e].status = "RESULT" => rec'[e].status = "RESULT"
             /\ rec[e].receipt => rec'[e].receipt]_vars
    BY <1>1
  <1> QED
    BY <1>2, Invariance, PTL DEF Spec, RecordsNeverRegress
-------------------------------------------------------------------------------
\* The journal implements the abstract atomic writes on the exclusive files:
\* Intent begins, Replace lands, RecordResult finishes, the rest is a stutter or
\* a foreign change.
THEOREM Refinement == Spec => Implements
  <1> DEFINE absFile == [f \in Exclusive |-> file[f]]
             absStage == [e \in ExclusiveEffects |-> Stage(e)]
             absPre == [e \in ExclusiveEffects |-> rec[e].pre]
  <1>1. ASSUME Init PROVE Abstract!Init
    BY <1>1, ConstantsAssumption
    DEF Init, Abstract!Init, ExclusiveEffects, Effects, PathOf, Stage, Image
  <1>2. ASSUME IInv, [Next]_vars PROVE [Abstract!Next]_(Abstract!vars)
    <2>0. TypeOK /\ CallInv /\ ExclusiveInv
      BY <1>2 DEF IInv
    <2>a. Abstract!Next => [Abstract!Next]_(Abstract!vars)
      OBVIOUS
    <2>b. ASSUME NEW e \in ExclusiveEffects,
                 Abstract!Begin(e) \/ Abstract!Land(e) \/ Abstract!Finish(e)
          PROVE  [Abstract!Next]_(Abstract!vars)
      <3>1. Abstract!Next
        BY <2>b DEF Abstract!Next
      <3> QED
        BY <3>1
    <2>1. CASE Intent /\ rec[Id].status = "none" /\ Place \in Exclusive
      <3>1. Id \in ExclusiveEffects /\ Id \in Effects /\ PathOf(Id) = Place
        BY <2>0, <2>1, MemoryFacts, ConstantsAssumption DEF Intent, ExclusiveEffects
      <3>2. eff.pre = file[Place]
        BY <2>0, <2>1 DEF Intent, ExclusiveInv
      <3>3. rec' = [rec EXCEPT ![Id] =
                      [status |-> "INTENT", pre |-> eff.pre, receipt |-> FALSE]]
        BY <2>1 DEF Intent, Begin
      <3>4. absStage' = [absStage EXCEPT ![Id] = "pending"]
        BY <2>0, <3>1, <3>3 DEF Stage, ExclusiveEffects, TypeOK
      <3>5. absPre' = [absPre EXCEPT ![Id] = absFile[PathOf(Id)]]
        BY <2>0, <2>1, <3>1, <3>2, <3>3 DEF ExclusiveEffects, TypeOK
      <3>6. absStage[Id] = "none"
        BY <2>0, <2>1, <3>1 DEF Stage
      <3>7. UNCHANGED <<absFile, ext>>
        BY <2>1 DEF Intent, Begin
      <3>8. PICK e \in ExclusiveEffects : e = Id
        BY <3>1
      <3>9. Abstract!Begin(e)
        BY <3>1, <3>4, <3>5, <3>6, <3>7, <3>8 DEF Abstract!Begin
      <3> QED
        BY <3>9, <2>b
    <2>2. CASE Replace /\ Place \in Exclusive
      <3>1. Id \in ExclusiveEffects /\ Id \in Effects /\ PathOf(Id) = Place /\ PostOf(Id) = eff.post
        BY <2>0, <2>2, MemoryFacts, ConstantsAssumption DEF Replace, ExclusiveEffects
      <3>2. absStage[Id] = "pending" /\ absFile[Place] = absPre[Id]
        BY <2>0, <2>2, <3>1 DEF Replace, Stage, CallInv, ExclusiveInv
      <3>3. absFile' = [absFile EXCEPT ![Place] = eff.post]
        BY <2>0, <2>2, ConstantsAssumption DEF Replace, Put, TypeOK
      <3>4. UNCHANGED <<absStage, absPre, ext>>
        BY <2>2 DEF Replace, Stage
      <3>5. PICK e \in ExclusiveEffects : e = Id
        BY <3>1
      <3>6. Abstract!Land(e)
        BY <3>1, <3>2, <3>3, <3>4, <3>5 DEF Abstract!Land
      <3> QED
        BY <3>6, <2>b
    <2>3. CASE RecordResult /\ Place \in Exclusive
      <3>1. Id \in ExclusiveEffects /\ Id \in Effects /\ PathOf(Id) = Place /\ PostOf(Id) = eff.post
        BY <2>0, <2>3, MemoryFacts, ConstantsAssumption DEF RecordResult, ExclusiveEffects
      <3>2. absStage[Id] = "pending" /\ absFile[Place] = eff.post
        BY <2>0, <2>3, <3>1 DEF RecordResult, Stage, CallInv, ExclusiveInv
      <3>3. rec' = [rec EXCEPT ![Id] =
                      [status |-> "RESULT", pre |-> eff.pre, receipt |-> FALSE]]
        BY <2>3 DEF RecordResult
      <3>4. absStage' = [absStage EXCEPT ![Id] = "done"]
        BY <2>0, <3>1, <3>3 DEF Stage, ExclusiveEffects, TypeOK
      <3>5. absPre' = absPre
        BY <2>0, <2>3, <3>1, <3>3 DEF ExclusiveEffects, TypeOK, CallInv, RecordResult
      <3>6. UNCHANGED <<absFile, ext>>
        BY <2>3 DEF RecordResult
      <3>7. PICK e \in ExclusiveEffects : e = Id
        BY <3>1
      <3>8. Abstract!Finish(e)
        BY <3>1, <3>2, <3>4, <3>5, <3>6, <3>7 DEF Abstract!Finish
      <3> QED
        BY <3>8, <2>b
    <2>4. CASE RecordWorkerResult
      <3>1. Id \in Effects /\ rec[Id] \in Record
        BY <2>0, <2>4, MemoryFacts, ConstantsAssumption DEF RecordWorkerResult, TypeOK
      <3>2. \A e \in Effects : rec'[e].status = rec[e].status /\ rec'[e].pre = rec[e].pre
        BY <2>0, <2>4, <3>1 DEF RecordWorkerResult, TypeOK, Record
      <3>3. UNCHANGED <<absFile, absStage, absPre, ext>>
        BY <2>4, <3>2 DEF RecordWorkerResult, Stage, ExclusiveEffects
      <3> QED
        BY <3>3 DEF Abstract!vars
    <2>5. CASE UNCHANGED <<file, rec, ext>>
      BY <2>5 DEF Stage, Abstract!vars
    <2>6. CASE UNCHANGED <<file, ext>> /\ (Intent \/ RecordResult) /\ Place \notin Exclusive
      <3>1. Id \in Effects /\ Id \notin ExclusiveEffects
        BY <2>0, <2>6, MemoryFacts, ConstantsAssumption DEF Intent, RecordResult, ExclusiveEffects
      <3>2. \A e \in ExclusiveEffects : rec'[e] = rec[e]
        BY <2>0, <2>6, <3>1 DEF Intent, Begin, RecordResult, TypeOK, ExclusiveEffects
      <3>3. UNCHANGED <<absFile, absStage, absPre, ext>>
        BY <2>6, <3>2 DEF Stage
      <3> QED
        BY <3>3 DEF Abstract!vars
    <2>7. CASE Replace /\ Place \notin Exclusive
      <3>1. UNCHANGED <<absFile, absStage, absPre, ext>>
        BY <2>0, <2>7, MemoryFacts, ConstantsAssumption DEF Replace, Put, TypeOK, Stage
      <3> QED
        BY <3>1 DEF Abstract!vars
    <2>8. ASSUME NEW f \in Files, NEW v \in Image, External(f, v)
          PROVE  Abstract!Next
      <3>1. UNCHANGED <<absStage, absPre>> /\ ext' = ext + 1
        BY <2>8 DEF External, Stage
      <3>2. \/ f \in Exclusive /\ absFile' = [absFile EXCEPT ![f] = v]
            \/ absFile' = absFile
        BY <2>0, <2>8, ConstantsAssumption DEF External, Put, TypeOK
      <3> QED
        BY <3>1, <3>2 DEF Abstract!Foreign, Abstract!Next
    <2> QED
      BY <1>2, <2>a, <2>1, <2>2, <2>3, <2>4, <2>5, <2>6, <2>7, <2>8
      DEF Next, vars, Open, Intent, Begin, Decide, Raise, Verify, RecordResult, Crash
  <1> QED
    BY <1>1, <1>2, Invariance, PTL DEF Spec, Implements, Abstract!Spec
-------------------------------------------------------------------------------
\* The records of a file are a walk from its base content to end: the contents they
\* name are connected, and each is left as often as it is entered, but for the two.
WalksTo(f, end) ==
  /\ IsFiniteSet(ResultEffects(f))
  /\ end \in Nodes(ResultEffects(f), base[f])
  /\ Reached(ResultEffects(f), base[f]) = Nodes(ResultEffects(f), base[f])
  /\ \A n \in Image :
       Balance(ResultEffects(f), n) =
         (IF n = base[f] THEN 1 ELSE 0) - (IF n = end THEN 1 ELSE 0)

\* At most one effect is pending, and a running call is about it.
AloneInv ==
  /\ \A d, e \in Pending : d = e
  /\ pc # "idle" => Pending \subseteq {Id}

\* Every look at a file is still true.
SeenInv ==
  pc # "idle" =>
    /\ pc \in {"intent", "replace"} => file[Place] = eff.pre
    /\ pc \in {"verify", "record"} => file[Place] = eff.post

\* The walk of a file ends at what it holds, or where a pending effect will leave.
WalkInv ==
  /\ \A e \in Pending : WalksTo(PathOf(e), rec[e].pre)
  /\ \A f \in Files : (\A e \in Pending : PathOf(e) # f) => WalksTo(f, file[f])

ChainInv ==
  base # Mismatch =>
    ext = 0 /\ base \in [Files -> Image] /\ AloneInv /\ SeenInv /\ WalkInv

\* A walk whose end is known tells it: _terminal_effect_postimage finds that content.
LEMMA WalkTells ==
  ASSUME NEW f \in Files, base \in [Files -> Image], NEW end \in Image,
         Nodes(ResultEffects(f), base[f]) \subseteq Image, WalksTo(f, end)
  PROVE  TerminalEffectPostimage(ResultEffects(f), base[f]) = end
  <1> DEFINE R == ResultEffects(f)
             start == base[f]
             nodes == Nodes(R, start)
             unbalanced == {n \in nodes : Balance(R, n) # 0}
             ends == {n \in nodes : Balance(R, n) = -1}
  <1>1. start \in nodes /\ end \in nodes /\ Reached(R, start) = nodes /\ nodes \subseteq Image
    BY DEF WalksTo, Nodes
  <1>2. \A n \in nodes :
          Balance(R, n) = (IF n = start THEN 1 ELSE 0) - (IF n = end THEN 1 ELSE 0)
    BY <1>1 DEF WalksTo
  <1> HIDE DEF R, start, nodes
  <1>3. CASE start = end
    <2>1. unbalanced = {}
      BY <1>2, <1>3
    <2> QED
      BY <1>1, <1>3, <2>1 DEF TerminalEffectPostimage, R, start, nodes
  <1>4. CASE start # end
    <2>1. unbalanced = {start, end} /\ ends = {end} /\ Balance(R, start) = 1
      BY <1>1, <1>2, <1>4
    <2>2. unbalanced # {} /\ \E n \in ends : unbalanced = {start, n}
      BY <2>1
    <2>3. (CHOOSE n \in ends : TRUE) = end
      BY <2>1
    <2> QED
      BY <1>1, <2>1, <2>2, <2>3 DEF TerminalEffectPostimage, R, start, nodes
  <1> QED
    BY <1>3, <1>4

\* What the records name are contents.
LEMMA NodesType ==
  ASSUME ConstantsAssumption, TypeOK, NEW f \in Files, base \in [Files -> Image]
  PROVE  Nodes(ResultEffects(f), base[f]) \subseteq Image
  <1>1. \A e \in Effects : rec[e].pre \in Image /\ PostOf(e) \in Image
    BY DEF TypeOK, Record, Effects, PostOf, Image
  <1> QED
    BY <1>1 DEF Nodes, ResultEffects

\* Steps that leave the RESULT records and the base alone leave the walk alone.
LEMMA WalkStays ==
  ASSUME NEW f \in Files, NEW end, WalksTo(f, end), base' = base,
         ResultEffects(f)' = ResultEffects(f),
         \A e \in ResultEffects(f) : rec'[e].pre = rec[e].pre
  PROVE  WalksTo(f, end)'
  <1> DEFINE R == ResultEffects(f)
  <1>1. R' = R /\ \A e \in R : rec'[e].pre = rec[e].pre
    OBVIOUS
  <1>2. Nodes(R, base[f])' = Nodes(R, base[f])
    BY <1>1 DEF Nodes
  <1>3. \A n : Balance(R, n)' = Balance(R, n)
    <2> SUFFICES ASSUME NEW n PROVE Balance(R, n)' = Balance(R, n)
      OBVIOUS
    <2>1. {e \in R' : rec'[e].pre = n} = {e \in R : rec[e].pre = n}
      BY <1>1
    <2>2. {e \in R' : PostOf(e) = n} = {e \in R : PostOf(e) = n}
      BY <1>1
    <2> QED
      BY <2>1, <2>2 DEF Balance
  <1>4. Reached(R, base[f])' = Reached(R, base[f])
    <2>1. \A S : (\A e \in R' : rec'[e].pre \in S <=> PostOf(e) \in S)
                   <=> (\A e \in R : rec[e].pre \in S <=> PostOf(e) \in S)
      BY <1>1
    <2> QED
      BY <1>2, <2>1 DEF Reached
  <1> QED
    BY <1>1, <1>2, <1>3, <1>4 DEF WalksTo

\* The RESULT of an effect that was pending where the walk ended takes the walk to
\* its postimage, also when it returns to a content or changes nothing.
LEMMA WalkGrows ==
  ASSUME ConstantsAssumption, TypeOK, base \in [Files -> Image], base' = base,
         NEW d \in Effects, rec[d].status = "INTENT", WalksTo(PathOf(d), rec[d].pre),
         rec' = [rec EXCEPT ![d] =
                   [status |-> "RESULT", pre |-> rec[d].pre, receipt |-> FALSE]]
  PROVE  WalksTo(PathOf(d), PostOf(d))'
  <1> DEFINE f == PathOf(d)
             R == ResultEffects(f)
             start == base[f]
             from == rec[d].pre
             to == PostOf(d)
             nodes == Nodes(R, start)
  <1>1. R' = R \cup {d} /\ d \notin R /\ R \subseteq Effects
    BY DEF ResultEffects, TypeOK
  <1>2. \A e \in Effects : rec'[e].pre = rec[e].pre
    BY DEF TypeOK
  <1>3. IsFiniteSet(R) /\ IsFiniteSet(R')
    <2>1. IsFiniteSet(R)
      BY DEF WalksTo
    <2>2. IsFiniteSet(R \cup {d})
      BY <2>1, FS_AddElement
    <2> QED
      BY <1>1, <2>1, <2>2
  <1>4. from \in nodes /\ from \in Image /\ to \in Image
    BY DEF WalksTo, TypeOK, Record, Effects, PostOf, Image
  <1>5. start' = start
    OBVIOUS
  <1> HIDE DEF R, f, start
  <1>6. nodes' = nodes \cup {to}
    BY <1>1, <1>2, <1>4, <1>5 DEF Nodes
  <1>7. Reached(R, start)' = nodes'
    <2> SUFFICES ASSUME NEW n \in nodes', NEW S \in SUBSET nodes', start \in S,
                        \A e \in R' : rec'[e].pre \in S <=> PostOf(e) \in S
                 PROVE  n \in S
      BY <1>5 DEF Reached
    <2>1. \A e \in R : rec[e].pre \in S <=> PostOf(e) \in S
      BY <1>1, <1>2
    <2>2. start \in S \cap nodes /\ S \cap nodes \in SUBSET nodes
      BY DEF Nodes
    <2>3. \A e \in R : rec[e].pre \in S \cap nodes <=> PostOf(e) \in S \cap nodes
      BY <2>1 DEF Nodes
    <2>4. nodes \subseteq S
      <3>1. Reached(R, start) = nodes
        BY DEF WalksTo, R, f, start
      <3> QED
        BY <2>2, <2>3, <3>1 DEF Reached
    <2>5. to \in S
      BY <1>1, <1>2, <1>4, <2>4
    <2> QED
      BY <1>6, <2>4, <2>5
  <1>8. ASSUME NEW n \in Image
        PROVE  Balance(R, n)' =
                 (IF n = start THEN 1 ELSE 0) - (IF n = to THEN 1 ELSE 0)
    <2> DEFINE out == {e \in R : rec[e].pre = n}
               in == {e \in R : PostOf(e) = n}
    <2>1. /\ IsFiniteSet(out) /\ Cardinality(out) \in Nat /\ d \notin out
          /\ IsFiniteSet(in) /\ Cardinality(in) \in Nat /\ d \notin in
      <3>1. IsFiniteSet(out) /\ IsFiniteSet(in)
        <4>1. out \in SUBSET R /\ in \in SUBSET R
          OBVIOUS
        <4> QED
          BY <1>3, <4>1, FS_Subset
      <3> QED
        BY <1>1, <3>1, FS_CardinalityType
    <2>2. out' = (IF n = from THEN out \cup {d} ELSE out)
      BY <1>1, <1>2
    <2>3. in' = (IF n = to THEN in \cup {d} ELSE in)
      BY <1>1
    <2>4. Cardinality(out') = Cardinality(out) + (IF n = from THEN 1 ELSE 0)
      <3> HIDE DEF out
      <3>1. Cardinality(out \cup {d}) = Cardinality(out) + 1
        BY <2>1, FS_AddElement
      <3> QED
        BY <2>1, <2>2, <3>1
    <2>5. Cardinality(in') = Cardinality(in) + (IF n = to THEN 1 ELSE 0)
      <3> HIDE DEF in
      <3>1. Cardinality(in \cup {d}) = Cardinality(in) + 1
        BY <2>1, FS_AddElement
      <3> QED
        BY <2>1, <2>3, <3>1
    <2>6. Cardinality(out) - Cardinality(in) =
            (IF n = start THEN 1 ELSE 0) - (IF n = from THEN 1 ELSE 0)
      BY DEF WalksTo, Balance, R, f, start
    <2>7. Balance(R, n)' = Cardinality(out') - Cardinality(in')
      BY DEF Balance
    <2> HIDE DEF out, in
    <2> QED
      BY <2>1, <2>4, <2>5, <2>6, <2>7
  <1>9. to \in nodes'
    BY <1>6
  <1> QED
    BY <1>3, <1>5, <1>7, <1>8, <1>9 DEF WalksTo, R, f, start

\* The premises of the three lemmas that follow: a step of the chain that keeps the
\* base. Others change nothing in it, and an effect begins only beside no other.
Kept ==
  /\ IInv /\ base # Mismatch /\ base' = base
  /\ ext = 0 /\ ext' = 0 /\ base \in [Files -> Image]
  /\ AloneInv /\ SeenInv /\ WalkInv
  /\ [Next]_vars
  /\ pc = "idle" /\ eff' # Idle => Pending \subseteq {<<eff'.call, eff'.post>>}

\* Which records are pending after a step.
LEMMA PendingStep ==
  ASSUME ConstantsAssumption, Kept
  PROVE  \/ Pending' = Pending
         \/ /\ Intent /\ Pending = {} /\ Pending' = {Id}
            /\ rec'[Id].pre = eff.pre /\ \A e \in Effects : e # Id => rec'[e] = rec[e]
         \/ /\ RecordResult /\ Pending = {Id} /\ Pending' = {}
            /\ rec[Id].pre = eff.pre
            /\ rec' = [rec EXCEPT ![Id] =
                         [status |-> "RESULT", pre |-> rec[Id].pre, receipt |-> FALSE]]
  <1>0. TypeOK /\ CallInv
    BY DEF Kept, IInv
  <1> USE <1>0
  <1>1. CASE UNCHANGED rec
    BY <1>1 DEF Pending
  <1>2. CASE Intent /\ rec[Id].status = "none"
    <2>1. Id \in Effects
      BY <1>2, MemoryFacts DEF Intent
    <2>2. /\ rec'[Id].status = "INTENT" /\ rec'[Id].pre = eff.pre
          /\ \A e \in Effects : e # Id => rec'[e] = rec[e]
      BY <1>2, <2>1 DEF Intent, Begin, TypeOK
    <2>3. Pending \subseteq {Id}
      BY <1>2 DEF Intent, Kept, AloneInv
    <2>4. Pending = {} /\ Pending' = {Id}
      BY <1>2, <2>1, <2>2, <2>3 DEF Pending
    <2> QED
      BY <1>2, <2>2, <2>4
  <1>3. CASE RecordResult
    <2>1. Id \in Effects /\ rec[Id].status = "INTENT" /\ rec[Id].pre = eff.pre
      BY <1>3, MemoryFacts DEF RecordResult, CallInv
    <2>2. rec' = [rec EXCEPT ![Id] =
                    [status |-> "RESULT", pre |-> rec[Id].pre, receipt |-> FALSE]]
      BY <1>3, <2>1 DEF RecordResult
    <2>3. Pending = {Id}
      BY <1>3, <2>1 DEF RecordResult, Kept, AloneInv, Pending
    <2>4. Pending' = {}
      BY <2>2, <2>3 DEF Pending, TypeOK
    <2> QED
      BY <1>3, <2>1, <2>2, <2>3, <2>4
  <1>4. CASE RecordWorkerResult
    <2>1. Id \in Effects /\ rec[Id] \in Record
      BY <1>4, MemoryFacts DEF RecordWorkerResult, TypeOK
    <2>2. \A e \in Effects : rec'[e].status = rec[e].status
      BY <1>4, <2>1 DEF RecordWorkerResult, TypeOK, Record
    <2> QED
      BY <2>2 DEF Pending
  <1> QED
    BY <1>1, <1>2, <1>3, <1>4
    DEF Kept, Next, vars, Open, Intent, Decide, Raise, Replace, Verify, Crash, External

\* A call that runs keeps its effect, and leaves it only for none.
LEMMA EffStep ==
  ASSUME ConstantsAssumption, TypeOK, [Next]_vars, pc # "idle", pc' # "idle"
  PROVE  Id' = Id /\ Place' = Place
  <1>1. CASE Intent
    BY <1>1, MemoryFacts DEF Intent, Id, Place, Memory, TypeOK
  <1>2. CASE UNCHANGED eff
    BY <1>2 DEF Id, Place
  <1> QED
    BY <1>1, <1>2
    DEF Next, vars, Open, Decide, Raise, Replace, Verify, RecordResult, Return, Leave,
        RecordWorkerResult, Crash, External

LEMMA AloneStep ==
  ASSUME ConstantsAssumption, Kept
  PROVE  AloneInv'
  <1>0. TypeOK /\ [Next]_vars /\ AloneInv
    BY DEF Kept, IInv
  <1>1. \A d, e \in Pending' : d = e
    BY <1>0, PendingStep DEF AloneInv
  <1>2. ASSUME pc' # "idle" PROVE Pending' \subseteq {Id'}
    <2>1. CASE pc # "idle"
      <3>1. Id' = Id
        BY <1>0, <1>2, <2>1, EffStep
      <3> QED
        BY <1>0, <2>1, <3>1, PendingStep DEF AloneInv
    <2>2. CASE pc = "idle"
      <3>1. \E c \in Calls : Open(c)
        BY <1>0, <1>2, <2>2
        DEF Next, vars, Intent, Decide, Raise, Replace, Verify, RecordResult,
            RecordWorkerResult, Crash, External
      <3>2. eff' # Idle /\ rec' = rec
        <4>1. PICK c \in Calls : Open(c)
          BY <3>1
        <4>2. eff' = [call |-> c, pre |-> eff'.pre, post |-> eff'.post] /\ rec' = rec
          BY <4>1 DEF Open
        <4>3. [call |-> c, pre |-> eff'.pre, post |-> eff'.post] # [call |-> "none"]
          OBVIOUS
        <4> QED
          BY <4>2, <4>3 DEF Idle
      <3>3. Pending \subseteq {Id'}
        BY <2>2, <3>2 DEF Kept, Id
      <3> QED
        BY <3>2, <3>3 DEF Pending
    <2> QED
      BY <2>1, <2>2
  <1> QED
    BY <1>1, <1>2 DEF AloneInv

LEMMA SeenStep ==
  ASSUME ConstantsAssumption, Kept
  PROVE  SeenInv'
  <1>0. TypeOK /\ CallInv /\ SeenInv /\ [Next]_vars /\ ext = 0 /\ ext' = 0
    BY DEF Kept, IInv
  <1> USE <1>0
  <1> USE DEF SeenInv, Place
  <1>1. CASE \E c \in Calls : Open(c)
    BY <1>1 DEF Open
  <1>2. CASE Intent
    BY <1>2 DEF Intent
  <1>3. CASE Decide
    BY <1>3 DEF Decide, Return, Leave
  <1>4. CASE Replace
    BY <1>4, MemoryFacts DEF Replace, Put, TypeOK
  <1>5. CASE Verify
    BY <1>5 DEF Verify
  <1>6. CASE RecordResult
    BY <1>6 DEF RecordResult, Return, Leave
  <1>7. CASE pc' = "idle"
    BY <1>7
  <1>8. ASSUME NEW f \in Files, NEW v \in Image, External(f, v) PROVE FALSE
    BY <1>8 DEF External
  <1>9. CASE UNCHANGED vars
    BY <1>9 DEF vars
  <1> QED
    BY <1>1, <1>2, <1>3, <1>4, <1>5, <1>6, <1>7, <1>8, <1>9
    DEF Next, Raise, RecordWorkerResult, Crash, Leave

\* Intent marks where the walk is, Replace leaves it there while the file goes on,
\* and RecordResult lets the walk follow.
LEMMA WalkStep ==
  ASSUME ConstantsAssumption, Kept
  PROVE  WalkInv'
  <1>0. /\ TypeOK /\ CallInv /\ SeenInv /\ AloneInv /\ WalkInv /\ [Next]_vars
        /\ base' = base /\ base \in [Files -> Image] /\ ext = 0 /\ ext' = 0
    BY DEF Kept, IInv
  <1> USE <1>0
  <1>a. ASSUME NEW f \in Files, NEW end, WalksTo(f, end),
               \A e \in Effects : /\ rec'[e].status = "RESULT" <=> rec[e].status = "RESULT"
                                  /\ rec[e].status = "RESULT" => rec'[e].pre = rec[e].pre
        PROVE  WalksTo(f, end)'
    <2>1. ResultEffects(f)' = ResultEffects(f)
      BY <1>a DEF ResultEffects
    <2>2. \A e \in ResultEffects(f) : rec'[e].pre = rec[e].pre
      BY <1>a DEF ResultEffects
    <2> QED
      BY <1>a, <2>1, <2>2, WalkStays
  <1>1. CASE Intent
    <2>1. Id \in Effects /\ Place \in Files /\ PathOf(Id) = Place /\ eff.pre = file[Place]
      BY <1>1, MemoryFacts DEF Intent, SeenInv
    <2>2. /\ UNCHANGED file
          /\ \A e \in Effects : /\ rec'[e].status = "RESULT" <=> rec[e].status = "RESULT"
                                /\ rec[e].status # "none" => rec'[e].pre = rec[e].pre
      BY <1>1, <2>1 DEF Intent, Begin, TypeOK
    <2>3. CASE Pending' = Pending
      <3>1. \A e \in Pending : PathOf(e) \in Files /\ rec'[e].pre = rec[e].pre
        BY <2>2, ConstantsAssumption DEF Pending, Effects, PathOf
      <3>2. ASSUME NEW e \in Pending PROVE WalksTo(PathOf(e), rec[e].pre)'
        BY <1>a, <2>2, <3>1 DEF WalkInv
      <3>3. ASSUME NEW f \in Files, \A e \in Pending : PathOf(e) # f
            PROVE  WalksTo(f, file[f])'
        BY <1>a, <2>2, <3>3 DEF WalkInv
      <3> QED
        BY <2>3, <3>2, <3>3 DEF WalkInv
    <2>4. CASE Pending = {} /\ Pending' = {Id} /\ rec'[Id].pre = eff.pre
      <3>1. ASSUME NEW f \in Files PROVE WalksTo(f, file[f])'
        BY <1>a, <2>2, <2>4 DEF WalkInv
      <3> QED
        BY <2>1, <2>2, <2>4, <3>1 DEF WalkInv
    <2> QED
      BY <1>1, <2>3, <2>4, PendingStep DEF Intent, RecordResult
  <1>2. CASE Replace
    <2>1. Id \in Pending /\ PathOf(Id) = Place /\ Place \in Files
      BY <1>2, MemoryFacts DEF Replace, CallInv, Pending
    <2>2. UNCHANGED rec /\ \A f \in Files : f # Place => file'[f] = file[f]
      BY <1>2 DEF Replace, Put, TypeOK
    <2>3. Pending' = Pending /\ \A e \in Pending : PathOf(e) \in Files
      BY <2>2, ConstantsAssumption DEF Pending, Effects, PathOf
    <2>4. ASSUME NEW e \in Pending PROVE WalksTo(PathOf(e), rec[e].pre)'
      BY <1>a, <2>2, <2>3 DEF WalkInv
    <2>5. ASSUME NEW f \in Files, \A e \in Pending : PathOf(e) # f
          PROVE  WalksTo(f, file[f])'
      BY <1>a, <2>1, <2>2, <2>5 DEF WalkInv
    <2> QED
      BY <2>2, <2>3, <2>4, <2>5 DEF WalkInv
  <1>3. CASE RecordResult
    <2>1. /\ Pending = {Id} /\ Pending' = {}
          /\ rec' = [rec EXCEPT ![Id] =
                       [status |-> "RESULT", pre |-> rec[Id].pre, receipt |-> FALSE]]
      <3>1. rec[Id].status = "INTENT" /\ Id \in Effects
        BY <1>3, MemoryFacts DEF RecordResult, CallInv
      <3>2. rec'[Id].status = "RESULT"
        BY <1>3, <3>1 DEF RecordResult, TypeOK
      <3>3. Pending' # Pending
        BY <3>1, <3>2 DEF Pending
      <3> QED
        BY <1>3, <3>3, PendingStep DEF Intent, RecordResult
    <2>2. /\ Id \in Effects /\ rec[Id].status = "INTENT" /\ PathOf(Id) = Place
          /\ PostOf(Id) = file[Place] /\ UNCHANGED file
      BY <1>3, MemoryFacts DEF RecordResult, CallInv, SeenInv
    <2>a. PICK d \in Effects : d = Id
      BY <2>2
    <2>3. ASSUME NEW f \in Files, f = PathOf(d) PROVE WalksTo(f, file[f])'
      <3>1. WalksTo(PathOf(d), rec[d].pre)
        BY <2>1, <2>a DEF WalkInv
      <3>2. WalksTo(PathOf(d), PostOf(d))'
        BY <2>1, <2>2, <2>a, <3>1, WalkGrows
      <3>3. PostOf(d) = file'[f]
        BY <2>2, <2>3, <2>a
      <3> QED
        BY <2>3, <3>2, <3>3
    <2>4. ASSUME NEW f \in Files, f # PathOf(d) PROVE WalksTo(f, file[f])'
      <3>1. WalksTo(f, file[f])
        BY <2>1, <2>2, <2>4, <2>a DEF WalkInv
      <3>2. ResultEffects(f)' = ResultEffects(f)
            /\ \A e \in ResultEffects(f) : rec'[e].pre = rec[e].pre
        BY <2>1, <2>2, <2>4, <2>a DEF ResultEffects, TypeOK
      <3> QED
        BY <2>2, <3>1, <3>2, WalkStays
    <2> QED
      BY <2>1, <2>3, <2>4 DEF WalkInv
  <1>4. CASE UNCHANGED file /\ \A e \in Effects : rec'[e].status = rec[e].status
                                                   /\ rec'[e].pre = rec[e].pre
    <2>1. Pending' = Pending /\ \A e \in Pending : PathOf(e) \in Files /\ e \in Effects
      BY <1>4, ConstantsAssumption DEF Pending, Effects, PathOf
    <2>2. ASSUME NEW e \in Pending PROVE WalksTo(PathOf(e), rec[e].pre)'
      BY <1>a, <1>4, <2>1 DEF WalkInv
    <2>3. ASSUME NEW f \in Files, \A e \in Pending : PathOf(e) # f
          PROVE  WalksTo(f, file[f])'
      BY <1>a, <1>4, <2>3 DEF WalkInv
    <2> QED
      BY <1>4, <2>1, <2>2, <2>3 DEF WalkInv
  <1>5. CASE RecordWorkerResult
    <2>1. Id \in Effects /\ rec[Id] \in Record
      BY <1>5, MemoryFacts DEF RecordWorkerResult, TypeOK
    <2>2. \A e \in Effects : rec'[e].status = rec[e].status /\ rec'[e].pre = rec[e].pre
      BY <1>5, <2>1 DEF RecordWorkerResult, TypeOK, Record
    <2> QED
      BY <1>4, <1>5, <2>2 DEF RecordWorkerResult
  <1>6. CASE UNCHANGED <<file, rec>>
    BY <1>4, <1>6
  <1>7. ASSUME NEW f \in Files, NEW v \in Image, External(f, v) PROVE FALSE
    BY <1>7 DEF External
  <1> QED
    BY <1>1, <1>2, <1>3, <1>5, <1>6, <1>7
    DEF Next, vars, Open, Decide, Raise, Verify, Crash

\* Before the first effect each walk is where it starts.
LEMMA ChainInitInv ==
  ASSUME ConstantsAssumption, ChainInit
  PROVE  ChainInv
  <1>1. Pending = {} /\ \A f \in Files : ResultEffects(f) = {}
    BY DEF ChainInit, Init, Pending, ResultEffects
  <1>2. AloneInv /\ SeenInv
    BY <1>1 DEF ChainInit, Init, AloneInv, SeenInv
  <1>3. ASSUME NEW f \in Files PROVE WalksTo(f, file[f])
    <2>1. Nodes({}, base[f]) = {base[f]}
      BY DEF Nodes
    <2>2. Reached({}, base[f]) = {base[f]}
      BY <2>1 DEF Reached
    <2>3. ASSUME NEW n \in Image PROVE Balance(ResultEffects(f), n) = 0
      <3>1. /\ {e \in ResultEffects(f) : rec[e].pre = n} = {}
            /\ {e \in ResultEffects(f) : PostOf(e) = n} = {}
        BY <1>1
      <3>2. Cardinality({}) = 0 /\ 0 - 0 = 0
        BY FS_EmptySet
      <3>3. Balance(ResultEffects(f), n) = Cardinality({}) - Cardinality({})
        BY <3>1, Zenon DEF Balance
      <3> QED
        BY <3>2, <3>3
    <2>4. file[f] = base[f]
      BY DEF ChainInit
    <2>5. \A n \in Image :
            Balance(ResultEffects(f), n) =
              (IF n = base[f] THEN 1 ELSE 0) - (IF n = file[f] THEN 1 ELSE 0)
      <3> SUFFICES ASSUME NEW n \in Image
                   PROVE  (IF n = base[f] THEN 1 ELSE 0) - (IF n = file[f] THEN 1 ELSE 0) = 0
        BY <2>3
      <3> QED
        BY <2>4
    <2>6. IsFiniteSet(ResultEffects(f))
      BY <1>1, FS_EmptySet
    <2>7. /\ file[f] \in Nodes(ResultEffects(f), base[f])
          /\ Reached(ResultEffects(f), base[f]) = Nodes(ResultEffects(f), base[f])
      BY <1>1, <2>1, <2>2, <2>4
    <2> QED
      BY <2>5, <2>6, <2>7 DEF WalksTo
  <1> QED
    BY <1>1, <1>2, <1>3 DEF ChainInit, Init, ChainInv, WalkInv

LEMMA ChainStep ==
  ASSUME ConstantsAssumption, IInv, ChainInv, ChainNext
  PROVE  ChainInv'
  <1> SUFFICES ASSUME base' # Mismatch
               PROVE  ext' = 0 /\ base' \in [Files -> Image] /\ AloneInv' /\ SeenInv' /\ WalkInv'
    BY DEF ChainInv
  <1>1. base' = base /\ [Next]_vars
    BY DEF ChainNext
  <1>2. ext = 0 /\ base \in [Files -> Image] /\ AloneInv /\ SeenInv /\ WalkInv
    BY <1>1 DEF ChainInv
  <1>3. ext' = 0
    <2>1. ext' \in Nat
      BY <1>1, TypeStep DEF IInv, TypeOK
    <2> QED
      BY <2>1 DEF ChainNext
  <1>4. pc = "idle" /\ eff' # Idle => Pending \subseteq {<<eff'.call, eff'.post>>}
    BY DEF ChainNext
  <1>5. Kept
    BY <1>1, <1>2, <1>3, <1>4 DEF Kept
  <1> QED
    BY <1>1, <1>2, <1>3, <1>5, AloneStep, SeenStep, WalkStep

\* A stutter keeps the invariant.
LEMMA ChainStutter ==
  ASSUME ChainInv, UNCHANGED chainVars
  PROVE  ChainInv'
  <1>1. UNCHANGED <<file, rec, pc, eff, held, ext, base>>
    BY DEF chainVars, vars
  <1>2. Pending' = Pending /\ AloneInv' = AloneInv /\ SeenInv' = SeenInv
    BY <1>1 DEF Pending, AloneInv, SeenInv, Id, Place
  <1>3. ASSUME NEW f \in Files, NEW end, WalksTo(f, end) PROVE WalksTo(f, end)'
    <2>1. ResultEffects(f)' = ResultEffects(f)
      BY <1>1 DEF ResultEffects
    <2> QED
      BY <1>1, <1>3, <2>1, WalkStays
  <1>4. \A e \in Pending : PathOf(e) \in Files
    BY ConstantsAssumption DEF Pending, Effects, PathOf
  <1>5. WalkInv => WalkInv'
    BY <1>1, <1>2, <1>3, <1>4 DEF WalkInv
  <1> QED
    BY <1>1, <1>2, <1>5 DEF ChainInv

\* ChainSpec only adds the history of the base to the journal.
LEMMA ChainPart == ChainSpec => Spec
  <1>1. ChainInit => Init
    BY DEF ChainInit
  <1>2. [ChainNext]_chainVars => [Next]_vars
    BY DEF ChainNext, chainVars
  <1> QED
    BY <1>1, <1>2, PTL DEF ChainSpec, Spec

\* The inductive invariant of the chain: one pending effect, every look still true,
\* and the records of each file a walk to its content.
THEOREM ChainInvariance == ChainSpec => []ChainInv
  <1>1. ChainInit => ChainInv
    BY ConstantsAssumption, ChainInitInv
  <1>2. IInv /\ ChainInv /\ [ChainNext]_chainVars => ChainInv'
    BY ConstantsAssumption, ChainStep, ChainStutter
  <1> QED
    BY <1>1, <1>2, ChainPart, Invariance, PTL DEF ChainSpec

\* _terminal_effect_postimage finds what a file holds from its records alone, in no
\* order, for any number of calls, texts and stops.
THEOREM JournalTells == ChainSpec => []JournalTellsFile
  <1>1. ASSUME IInv, ChainInv PROVE JournalTellsFile
    <2> SUFFICES ASSUME base # Mismatch, pc = "idle", NEW f \in Files,
                        \A e \in Effects : PathOf(e) = f => rec[e].status # "INTENT"
                 PROVE  TerminalEffectPostimage(ResultEffects(f), base[f]) = file[f]
      BY DEF JournalTellsFile
    <2>1. TypeOK /\ base \in [Files -> Image] /\ file[f] \in Image
      BY <1>1 DEF IInv, TypeOK, ChainInv
    <2>2. WalksTo(f, file[f])
      BY <1>1 DEF ChainInv, WalkInv, Pending
    <2>3. Nodes(ResultEffects(f), base[f]) \subseteq Image
      BY <2>1, NodesType, ConstantsAssumption
    <2> QED
      BY <2>1, <2>2, <2>3, WalkTells
  <1> QED
    BY <1>1, ChainPart, ChainInvariance, Invariance, PTL
===============================================================================
