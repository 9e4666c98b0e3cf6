--------------------------- MODULE RepairLoopProofs ---------------------------
(***************************************************************************)
(* Batches of any length, with any calls, over any number of turns and     *)
(* stops: they are run in order and resumed where they stood, and nothing  *)
(* follows a recorder that succeeded.                                      *)
(***************************************************************************)
EXTENDS RepairLoop, FiniteSetTheorems, TLAPS

Results == {"none", "ok", "error"}

\* Every process has its budget of turns.
BudgetInv ==
  Len(answer) + (IF pc = "send" THEN 1 ELSE 0) <= Budget * stops + used

\* The journal names the turn that was answered last, or the one being sent.
JournalInv ==
  /\ \/ jrn.turn = Len(answer)
     \/ jrn.turn = Len(answer) + 1 /\ jrn.status = "ASK_DISPATCHING" /\ pc \in {"send", "down"}
  /\ pc = "send" => jrn.turn = Len(answer) + 1
  /\ jrn.status # "PREPARED" => jrn.turn >= 1
  /\ pc \in {"bind", "reply", "emit", "tool", "ran"} => jrn.turn >= 1

\* A checkpointed call is one of a response that was given.
Given(slot) == slot[1] \in 1..Len(answer) /\ slot[2] \in 1..Size(slot)
SlotInv == \A k \in 1..Len(ckpt) : Given(ckpt[k].slot)

\* The calls of a batch up to a checkpointed one stand right before it, in order,
\* and all of them succeeded.
BatchInv ==
  \A k \in 1..Len(ckpt) : Batch(ckpt[k].slot) =>
    LET before == k - ckpt[k].slot[2] IN
      /\ before >= 0
      /\ \A j \in 1..k :
           /\ ckpt[j].slot[1] = ckpt[k].slot[1] <=> j > before
           /\ j > before => ckpt[j].slot[2] = j - before
           /\ j > before /\ j < k => ckpt[j].result = "ok"

\* No call of the journaled turn is checkpointed yet.
Unreached == \A k \in 1..Len(ckpt) : ckpt[k].slot[1] # jrn.turn

\* The call the process is at belongs to the journaled turn, which the checkpoint
\* has not reached or ends with.
TurnInv ==
  /\ Unreached \/ (ckpt # <<>> /\ Tail1.slot[1] = jrn.turn)
  /\ pc \in {"send", "bind", "reply"} => Unreached
  /\ pc \in {"tool", "ran"} => ckpt # <<>> /\ Tail1.slot[1] = jrn.turn /\ Tail1.result = "none"
  /\ pc = "model" => ckpt = <<>> \/ Tail1.slot[1] = jrn.turn
  /\ pc = "emit" =>
       /\ call[1] = jrn.turn /\ Given(call)
       /\ \/ call[2] = 1 /\ Unreached
          \/ Continues /\ Tail1.slot[1] = jrn.turn /\ call[2] = Tail1.slot[2] + 1

\* What was run is checkpointed.
RunInv == \A s \in Slots : runs[s] > 0 => \E k \in 1..Len(ckpt) : ckpt[k].slot = s

\* A recorder that succeeded is of the journaled turn, at the end of the checkpoint
\* or repeated there, and the process is on its way to the end.
RecordedOk(k) == Kind[Ask(ckpt[k].slot)] = Recorder /\ ckpt[k].result = "ok"
RecorderInv ==
  /\ \A k \in 1..Len(ckpt) : RecordedOk(k) =>
       /\ ckpt[k].slot[1] = jrn.turn
       /\ Kind[Ask(Tail1.slot)] = Recorder
       /\ pc \in {"model", "tool", "ran", "down", "done"}
       /\ pc = "model" => Succeeded
  /\ pc = "ran" /\ Kind[Ask(Tail1.slot)] = Recorder => result = "ok"

LoopInv ==
  /\ TypeOK /\ BudgetInv /\ JournalInv /\ SlotInv /\ BatchInv
  /\ TurnInv /\ RunInv /\ RecorderInv
-------------------------------------------------------------------------------
Entries == [slot : Slots, result : Results]

\* What one more entry makes of the checkpoint.
LEMMA Appended ==
  ASSUME ckpt \in Seq(Entries), NEW e \in Entries, ckpt' = Append(ckpt, e)
  PROVE  /\ Len(ckpt) \in Nat
         /\ ckpt' \in Seq(Entries) /\ Len(ckpt') = Len(ckpt) + 1 /\ ckpt' # <<>>
         /\ \A k \in 1..Len(ckpt) : ckpt'[k] = ckpt[k]
         /\ ckpt'[Len(ckpt')] = e /\ Tail1' = e
  <1> HIDE DEF Entries
  <1> QED
    BY DEF Tail1

\* What a saved result makes of the checkpoint.
LEMMA Saved ==
  ASSUME TypeOK, ckpt # <<>>, NEW r \in Results,
         ckpt' = [ckpt EXCEPT ![Len(ckpt)].result = r]
  PROVE  /\ Len(ckpt) \in 1..Len(ckpt)
         /\ ckpt' \in Seq(Entries) /\ Len(ckpt') = Len(ckpt) /\ ckpt' # <<>>
         /\ \A k \in 1..Len(ckpt) : ckpt'[k].slot = ckpt[k].slot
         /\ \A k \in 1..Len(ckpt) : k # Len(ckpt) => ckpt'[k] = ckpt[k]
         /\ ckpt'[Len(ckpt)].result = r
         /\ Tail1'.slot = Tail1.slot /\ Tail1'.result = r
  <1> DEFINE n == Len(ckpt)
             e == [ckpt[n] EXCEPT !.result = r]
  <1>1. ckpt \in Seq(Entries) /\ n \in 1..n /\ ckpt[n] \in Entries
    <2>1. ckpt \in Seq(Entries)
      BY DEF TypeOK, Entries, Results
    <2> HIDE DEF Entries
    <2> QED
      BY <2>1
  <1>2. e \in Entries /\ e.slot = ckpt[n].slot /\ e.result = r
    BY <1>1 DEF Entries
  <1>3. ckpt' = [ckpt EXCEPT ![n] = e]
    OBVIOUS
  <1> HIDE DEF Entries, e
  <1>4. ckpt' \in Seq(Entries) /\ Len(ckpt') = n /\ ckpt'[n] = e
        /\ \A k \in 1..n : k # n => ckpt'[k] = ckpt[k]
    BY <1>1, <1>2, <1>3
  <1> QED
    BY <1>1, <1>2, <1>4 DEF Tail1

\* The numbers of a checkpointed call.
LEMMA EntryTyped ==
  ASSUME LoopAssumption, TypeOK
  PROVE  \A k \in 1..Len(ckpt) : /\ ckpt[k] \in Entries
                                 /\ ckpt[k].slot[1] \in Nat /\ ckpt[k].slot[2] \in Nat \ {0}
  <1> SUFFICES ASSUME NEW k \in 1..Len(ckpt)
               PROVE  ckpt[k] \in Entries /\ ckpt[k].slot[1] \in Nat /\ ckpt[k].slot[2] \in Nat \ {0}
    OBVIOUS
  <1>1. ckpt[k] \in Entries
    <2>1. ckpt \in Seq(Entries)
      BY DEF TypeOK, Entries, Results
    <2> HIDE DEF Entries
    <2> QED
      BY <2>1
  <1>2. Budget * (MaxStops + 1) \in Nat /\ MaxCalls \in Nat
    BY DEF LoopAssumption
  <1>3. ckpt[k].slot \in Slots
    BY <1>1 DEF Entries
  <1>4. ckpt[k].slot[1] \in 1..(Budget * (MaxStops + 1)) /\ ckpt[k].slot[2] \in 1..MaxCalls
    BY <1>3 DEF Slots
  <1> QED
    BY <1>1, <1>2, <1>4

\* What one more response makes of the calls that were given.
LEMMA Answers ==
  ASSUME LoopAssumption, TypeOK, NEW r \in Responses, answer' = Append(answer, r)
  PROVE  /\ answer' \in Seq(Responses) /\ Len(answer) \in Nat /\ Len(answer') = Len(answer) + 1
         /\ \A slot : Given(slot) => /\ Given(slot)' /\ Ask(slot)' = Ask(slot)
                                     /\ Batch(slot)' = Batch(slot)
  <1>1. /\ answer' \in Seq(Responses) /\ Len(answer) \in Nat /\ Len(answer') = Len(answer) + 1
        /\ \A t \in 1..Len(answer) : answer'[t] = answer[t]
    BY DEF TypeOK
  <1> QED
    BY <1>1 DEF Given, Ask, Batch, Size

\* A slot of a response fits the bounds.
LEMMA GivenSlots ==
  ASSUME LoopAssumption, TypeOK, BudgetInv, NEW a, NEW b, Given(<<a, b>>)
  PROVE  <<a, b>> \in Slots
  <1>1. answer[a] \in Responses /\ a \in 1..Len(answer) /\ b \in 1..Len(answer[a].calls)
    BY DEF TypeOK, Given, Size
  <1>2. Len(answer[a].calls) \in 1..MaxCalls
    BY <1>1 DEF LoopAssumption, WellFormed
  <1>3. Len(answer) <= Budget * (MaxStops + 1)
    <2> DEFINE s == stops + 1
               m == MaxStops + 1
    <2>1. Budget \in Nat /\ s \in Nat /\ m \in Nat /\ s <= m /\ used <= Budget
          /\ stops \in Nat /\ used \in Nat /\ Len(answer) \in Nat
      BY DEF LoopAssumption, TypeOK
    <2>2. Len(answer) <= Budget * stops + used
      BY <2>1 DEF BudgetInv
    <2>3. Budget * s = Budget * stops + Budget
      BY <2>1
    <2>4. Budget * s <= Budget * m
      <3> HIDE DEF s, m
      <3> QED
        BY <2>1
    <2>5. Budget * s \in Nat /\ Budget * m \in Nat /\ Budget * stops \in Nat
      BY <2>1
    <2> QED
      BY <2>1, <2>2, <2>3, <2>4, <2>5
  <1>4. MaxCalls \in Nat /\ Budget * (MaxStops + 1) \in Nat /\ Len(answer) \in Nat
    BY DEF LoopAssumption, TypeOK
  <1> QED
    BY <1>1, <1>2, <1>3, <1>4 DEF Slots

\* A call goes to the end of the checkpoint: the first of a turn that the
\* checkpoint has not reached, a single one, or the next of its batch.
LEMMA Grown ==
  ASSUME LoopAssumption, TypeOK, SlotInv, BatchInv, NEW t, NEW i, Given(<<t, i>>), <<t, i>> \in Slots,
         UNCHANGED answer,
         ckpt' = Append(ckpt, [slot |-> <<t, i>>, result |-> "none"]),
         \/ i = 1 /\ \A k \in 1..Len(ckpt) : ckpt[k].slot[1] # t
         \/ i = 1 /\ ~Batch(<<t, i>>)
         \/ Continues /\ t = Tail1.slot[1] /\ i = Tail1.slot[2] + 1
  PROVE  SlotInv' /\ BatchInv'
  <1> DEFINE n == Len(ckpt)
             e == [slot |-> <<t, i>>, result |-> "none"]
  <1>1. /\ n \in Nat /\ Len(ckpt') = n + 1 /\ ckpt'[n + 1] = e
        /\ \A k \in 1..n : ckpt'[k] = ckpt[k]
    <2>1. e \in Entries /\ ckpt \in Seq(Entries)
      BY DEF TypeOK, Entries, Results
    <2> HIDE DEF e
    <2> QED
      BY <2>1, Appended DEF e
  <1>0. t \in 1..(Budget * (MaxStops + 1)) /\ i \in 1..MaxCalls
    BY DEF Slots
  <1>2. e.slot = <<t, i>> /\ e.slot[1] = t /\ e.slot[2] = i /\ t \in Nat /\ i \in Nat
    BY <1>0
  <1>5. \A k \in 1..n : ckpt[k].slot[1] \in Nat /\ ckpt[k].slot[2] \in Nat \ {0}
    BY EntryTyped
  <1> HIDE DEF n, e
  <1>6. n \in Nat
    BY <1>1
  <1>7. t \in Nat /\ i \in Nat
    BY <1>2
  <1>3. SlotInv'
    <2> SUFFICES ASSUME NEW k \in 1..(n + 1)
                 PROVE  Given(ckpt'[k].slot)
      BY <1>1 DEF SlotInv, Given, Size
    <2> QED
      BY <1>1, <1>2 DEF SlotInv, n
  <1> DEFINE Turn(k) == ckpt[k].slot[1]    TurnN(k) == ckpt'[k].slot[1]
             Index(k) == ckpt[k].slot[2]   IndexN(k) == ckpt'[k].slot[2]
             Ok(k) == ckpt[k].result = "ok"  OkN(k) == ckpt'[k].result = "ok"
             Right(k) == /\ k - Index(k) >= 0
                         /\ \A j \in 1..k :
                              /\ Turn(j) = Turn(k) <=> j > k - Index(k)
                              /\ j > k - Index(k) => Index(j) = j - (k - Index(k))
                              /\ j > k - Index(k) /\ j < k => Ok(j)
             RightN(k) == /\ k - IndexN(k) >= 0
                          /\ \A j \in 1..k :
                               /\ TurnN(j) = TurnN(k) <=> j > k - IndexN(k)
                               /\ j > k - IndexN(k) => IndexN(j) = j - (k - IndexN(k))
                               /\ j > k - IndexN(k) /\ j < k => OkN(j)
  <1>8. /\ \A k \in 1..n : TurnN(k) = Turn(k) /\ IndexN(k) = Index(k) /\ (OkN(k) <=> Ok(k))
        /\ TurnN(n + 1) = t /\ IndexN(n + 1) = i
        /\ \A k \in 1..n : Index(k) \in Nat /\ Index(k) # 0
    BY <1>1, <1>2, <1>5
  <1>9. ASSUME NEW k \in 1..n, Batch(ckpt[k].slot)
        PROVE  Right(k)
    BY <1>9 DEF BatchInv, n
  <1>10. ASSUME i = 1, \A k \in 1..n : Turn(k) # t
         PROVE  RightN(n + 1)
    <2> HIDE DEF Turn, Index, Ok, TurnN, IndexN, OkN
    <2> QED
      BY <1>6, <1>8, <1>10
  <1>11. ASSUME n # 0, Right(n), Ok(n), t = Turn(n), i = Index(n) + 1
         PROVE  RightN(n + 1)
    <2> HIDE DEF Turn, Index, Ok, TurnN, IndexN, OkN
    <2> DEFINE b == n - Index(n)
    <2>1. n \in 1..n /\ Index(n) \in Nat /\ Index(n) # 0
      BY <1>6, <1>8, <1>11
    <2>2. b \in Nat /\ b < n /\ (n + 1) - i = b
      <3>1. Index(n) >= 1 /\ i = Index(n) + 1 /\ n - Index(n) >= 0
        BY <1>11, <2>1
      <3> QED
        BY <1>6, <1>7, <2>1, <3>1
    <2>3. ASSUME NEW j \in 1..n
          PROVE  /\ Turn(j) = t <=> j > b
                 /\ j > b => Index(j) = j - b
                 /\ j > b => Ok(j)
      <3>1. CASE j = n
        BY <1>6, <1>7, <1>11, <2>1, <2>2, <3>1
      <3>2. CASE j < n
        BY <1>6, <1>11, <3>2
      <3> QED
        BY <1>6, <3>1, <3>2
    <2> HIDE DEF b
    <2>4. (n + 1) - IndexN(n + 1) = b /\ TurnN(n + 1) = t
      BY <1>8, <2>2
    <2>5. ASSUME NEW j \in 1..(n + 1)
          PROVE  /\ TurnN(j) = t <=> j > b
                 /\ j > b => IndexN(j) = j - b
                 /\ j > b /\ j < n + 1 => OkN(j)
      <3>1. CASE j \in 1..n
        BY <1>8, <2>3, <3>1
      <3>2. CASE j = n + 1
        BY <1>6, <1>7, <1>8, <2>2, <3>2
      <3> QED
        BY <1>6, <3>1, <3>2
    <2> QED
      BY <2>2, <2>4, <2>5
  <1>12. ASSUME Batch(<<t, i>>)
         PROVE  RightN(n + 1)
    <2>1. CASE i = 1 /\ \A k \in 1..n : ckpt[k].slot[1] # t
      BY <1>10, <2>1
    <2>2. CASE Continues /\ t = Tail1.slot[1] /\ i = Tail1.slot[2] + 1
      <3>1. n # 0 /\ n \in 1..n /\ Ok(n) /\ Batch(ckpt[n].slot) /\ t = Turn(n) /\ i = Index(n) + 1
        <4>1. n # 0
          BY <2>2 DEF Continues, Succeeded, TypeOK, n
        <4> QED
          BY <1>6, <2>2, <4>1 DEF Continues, Succeeded, Tail1, n
      <3> QED
        BY <1>9, <1>11, <3>1
    <2> QED
      BY <1>12, <2>1, <2>2 DEF n
  <1>13. ASSUME NEW k \in 1..n, Right(k)
         PROVE  RightN(k)
    <2> HIDE DEF Turn, Index, Ok, TurnN, IndexN, OkN
    <2> QED
      BY <1>6, <1>8, <1>13
  <1>4. ASSUME NEW k \in 1..(n + 1), Batch(ckpt'[k].slot)
        PROVE  RightN(k)
    <2>1. CASE k \in 1..n
      BY <1>1, <1>4, <1>9, <1>13, <2>1
    <2>2. CASE k = n + 1
      <3>1. ckpt'[k].slot = <<t, i>>
        BY <1>1, <1>2, <2>2
      <3>2. RightN(n + 1)
        BY <1>4, <1>12, <3>1
      <3> HIDE DEF RightN
      <3> QED
        BY <2>2, <3>2
    <2>3. k \in 1..n \/ k = n + 1
      BY <1>6
    <2> HIDE DEF RightN
    <2> QED
      BY <2>1, <2>2, <2>3
  <1>14. BatchInv'
    BY <1>1, <1>4 DEF BatchInv, Batch
  <1> QED
    BY <1>3, <1>14

\* A result that is saved changes neither the calls nor their order.
LEMMA Settled ==
  ASSUME TypeOK, SlotInv, BatchInv, ckpt # <<>>, NEW r \in Results, UNCHANGED answer,
         ckpt' = [ckpt EXCEPT ![Len(ckpt)].result = r]
  PROVE  SlotInv' /\ BatchInv'
  <1> DEFINE n == Len(ckpt)
  <1>1. /\ n \in Nat /\ Len(ckpt') = n
        /\ \A k \in 1..n : ckpt'[k].slot = ckpt[k].slot
        /\ \A k \in 1..n : k # n => ckpt'[k] = ckpt[k]
    BY Saved
  <1>2. SlotInv'
    BY <1>1 DEF SlotInv, Given, Size
  <1> DEFINE Turn(k) == ckpt[k].slot[1]    TurnN(k) == ckpt'[k].slot[1]
             Index(k) == ckpt[k].slot[2]   IndexN(k) == ckpt'[k].slot[2]
             Ok(k) == ckpt[k].result = "ok"  OkN(k) == ckpt'[k].result = "ok"
             Right(k) == /\ k - Index(k) >= 0
                         /\ \A j \in 1..k :
                              /\ Turn(j) = Turn(k) <=> j > k - Index(k)
                              /\ j > k - Index(k) => Index(j) = j - (k - Index(k))
                              /\ j > k - Index(k) /\ j < k => Ok(j)
             RightN(k) == /\ k - IndexN(k) >= 0
                          /\ \A j \in 1..k :
                               /\ TurnN(j) = TurnN(k) <=> j > k - IndexN(k)
                               /\ j > k - IndexN(k) => IndexN(j) = j - (k - IndexN(k))
                               /\ j > k - IndexN(k) /\ j < k => OkN(j)
  <1>3. /\ \A k \in 1..n : TurnN(k) = Turn(k) /\ IndexN(k) = Index(k)
        /\ \A k \in 1..n : k # n => (OkN(k) <=> Ok(k))
    BY <1>1
  <1>4. ASSUME NEW k \in 1..n, Batch(ckpt[k].slot)
        PROVE  Right(k)
    BY <1>4 DEF BatchInv
  <1> HIDE DEF n
  <1>5. ASSUME NEW k \in 1..n, Right(k)
        PROVE  RightN(k)
    <2> HIDE DEF Turn, Index, Ok, TurnN, IndexN, OkN
    <2>1. n \in Nat
      BY <1>1
    <2>2. TurnN(k) = Turn(k) /\ IndexN(k) = Index(k)
      BY <1>3
    <2>3. ASSUME NEW j \in 1..k
          PROVE  TurnN(j) = Turn(j) /\ IndexN(j) = Index(j) /\ (j < k => (OkN(j) <=> Ok(j)))
      <3>1. j \in 1..n /\ (j < k => j # n)
        BY <2>1
      <3> QED
        BY <1>3, <3>1
    <2> QED
      BY <1>5, <2>2, <2>3
  <1>6. ASSUME NEW k \in 1..n, Batch(ckpt'[k].slot)
        PROVE  RightN(k)
    <2> HIDE DEF Right, RightN
    <2> QED
      BY <1>1, <1>4, <1>5, <1>6
  <1>7. BatchInv'
    BY <1>1, <1>6 DEF BatchInv, Batch
  <1> QED
    BY <1>2, <1>7

\* One more response changes none of the calls that were given before.
LEMMA Unmoved ==
  ASSUME LoopAssumption, TypeOK, SlotInv, BatchInv, UNCHANGED ckpt,
         NEW r \in Responses, answer' = Append(answer, r)
  PROVE  SlotInv' /\ BatchInv'
  <1>1. \A k \in 1..Len(ckpt) : Given(ckpt[k].slot)' /\ (Batch(ckpt[k].slot)' <=> Batch(ckpt[k].slot))
    BY Answers DEF SlotInv
  <1>2. SlotInv'
    BY <1>1 DEF SlotInv
  <1>3. BatchInv'
    BY <1>1 DEF BatchInv
  <1> QED
    BY <1>2, <1>3

\* The first call of the journaled turn, once its response is there.
LEMMA FirstCall ==
  ASSUME LoopAssumption, TypeOK, BudgetInv, jrn.turn \in 1..Len(answer)
  PROVE  Given(<<jrn.turn, 1>>) /\ <<jrn.turn, 1>> \in Slots
  <1>1. answer[jrn.turn] \in Responses
    BY DEF TypeOK
  <1>2. Len(answer[jrn.turn].calls) \in Nat /\ Len(answer[jrn.turn].calls) >= 1
    BY <1>1 DEF LoopAssumption, WellFormed
  <1>3. Given(<<jrn.turn, 1>>)
    BY <1>2 DEF Given, Size
  <1> QED
    BY <1>3, GivenSlots

\* A turn that can be read back is the last one that was answered.
LEMMA Readable ==
  ASSUME TypeOK, JournalInv, ReadableTurn
  PROVE  jrn.turn \in 1..Len(answer) /\ jrn.turn = Len(answer)
  <1>1. Len(answer) \in Nat /\ jrn.turn \in Nat
    BY DEF TypeOK
  <1> QED
    BY <1>1 DEF JournalInv, ReadableTurn

\* The call a process is about to checkpoint.
LEMMA GivenCall ==
  ASSUME LoopInv, LoopAssumption, pc = "emit"
  PROVE  call = <<call[1], call[2]>> /\ call \in Slots
  <1>1. Given(call) /\ call \in Slots \cup {NoCall}
    BY DEF LoopInv, TurnInv, TypeOK
  <1>2. call # NoCall
    BY <1>1 DEF Given, NoCall
  <1> QED
    BY <1>1, <1>2 DEF Slots

\* The next call of the batch at the end of the checkpoint.
LEMMA NextCall ==
  ASSUME LoopAssumption, TypeOK, BudgetInv, SlotInv, Continues
  PROVE  LET s == <<Tail1.slot[1], Tail1.slot[2] + 1>> IN Given(s) /\ s \in Slots
  <1>1. Len(ckpt) \in 1..Len(ckpt) /\ Given(Tail1.slot)
    BY DEF Continues, Succeeded, TypeOK, SlotInv, Tail1
  <1>2. Tail1.slot[2] \in 1..Size(Tail1.slot) /\ Tail1.slot[2] < Size(Tail1.slot)
    BY <1>1 DEF Given, Continues
  <1>3. answer[Tail1.slot[1]] \in Responses
    BY <1>1 DEF Given, TypeOK
  <1>4. Size(Tail1.slot) \in Nat
    BY <1>3 DEF Size, LoopAssumption, WellFormed
  <1>5. Tail1.slot[2] + 1 \in 1..Size(Tail1.slot)
    BY <1>2, <1>4
  <1>6. Given(<<Tail1.slot[1], Tail1.slot[2] + 1>>)
    BY <1>1, <1>5 DEF Given, Size
  <1> QED
    BY <1>6, GivenSlots
-------------------------------------------------------------------------------
LEMMA TypeStep ==
  ASSUME LoopAssumption, LoopInv, [Next]_vars
  PROVE  TypeOK'
  <1> USE DEF LoopInv
  <1>0. LoopAssumption /\ TypeOK
    OBVIOUS
  <1>1. CASE Stop
    BY <1>1 DEF Stop, TypeOK, LoopAssumption
  <1>2. CASE Finish
    BY <1>1, <1>2 DEF Finish, Quiet, TypeOK
  <1>3. CASE Continue
    <2>1. call' \in Slots
      BY <1>3, NextCall DEF Continue
    <2> QED
      BY <1>3, <2>1 DEF Continue, Quiet, TypeOK
  <1>4. CASE JournalAsk
    <2>1. jrn' \in [turn : 0..(Len(answer) + 1), bound : BOOLEAN,
                    status : {"PREPARED", "ASK_DISPATCHING", "CONVERSATION_BOUND",
                              "RESPONSE_RECOVERED"}]
      <3>1. Len(answer) \in Nat
        BY DEF TypeOK
      <3>2. Len(answer) + 1 \in 0..(Len(answer) + 1)
        BY <3>1
      <3> QED
        BY <1>4, <3>2 DEF JournalAsk, TypeOK
    <2>2. used' \in 0..Budget
      BY <1>4 DEF JournalAsk, TypeOK, LoopAssumption
    <2> QED
      BY <1>4, <2>1, <2>2 DEF JournalAsk, Quiet, TypeOK
  <1>5. CASE Send
    <2>1. answer' \in Seq(Responses) /\ Len(answer') = Len(answer) + 1 /\ Len(answer) \in Nat
      BY <1>5, Answers DEF Send
    <2>2. jrn \in [turn : 0..(Len(answer') + 1), bound : BOOLEAN,
                   status : {"PREPARED", "ASK_DISPATCHING", "CONVERSATION_BOUND",
                             "RESPONSE_RECOVERED"}]
      BY <2>1 DEF TypeOK
    <2> QED
      BY <1>5, <2>1, <2>2 DEF Send, Quiet, TypeOK
  <1>6. CASE Bind
    BY <1>6 DEF Bind, Quiet, TypeOK
  <1>7. CASE Reply
    <2>1. jrn.turn \in 1..Len(answer)
      BY <1>7 DEF Reply, JournalInv, TypeOK
    <2>2. call' \in Slots
      BY <1>7, <2>1, FirstCall DEF Reply
    <2>3. jrn' \in [turn : 0..(Len(answer) + 1), bound : BOOLEAN,
                    status : {"PREPARED", "ASK_DISPATCHING", "CONVERSATION_BOUND",
                              "RESPONSE_RECOVERED"}]
      BY <1>7 DEF Reply, TypeOK
    <2> QED
      BY <1>7, <2>2, <2>3 DEF Reply, Quiet, TypeOK
  <1>8. CASE Emit
    <2>1. call \in Slots
      BY <1>8, GivenCall DEF Emit
    <2>2. ckpt' \in Seq(Entries)
      BY <1>8, <2>1, Appended DEF Emit, Entries, Results, TypeOK
    <2> QED
      BY <1>8, <2>2 DEF Emit, Quiet, TypeOK, Entries, Results
  <1>9. CASE RunTool
    <2>1. Tail1.slot \in Slots
      BY <1>9, EntryTyped DEF RunTool, TurnInv, TypeOK, Tail1, Entries
    <2>2. runs' \in [Slots -> Nat]
      BY <1>9, <2>1 DEF RunTool, TypeOK
    <2>3. \/ UNCHANGED applied
          \/ applied' = [applied EXCEPT ![Tail1.slot] = @ + 1]
          \/ applied' = [applied EXCEPT ![Tail1.slot] = @]
      BY <1>9 DEF RunTool
    <2>4. applied' \in [Slots -> Nat]
      BY <2>1, <2>3 DEF TypeOK
    <2> QED
      BY <1>9, <2>2, <2>4 DEF RunTool, TypeOK
  <1>10. CASE SaveResult
    <2>1. ckpt' \in Seq(Entries)
      BY <1>10, Saved DEF SaveResult, TurnInv, TypeOK, Results
    <2> QED
      BY <1>10, <2>1 DEF SaveResult, Quiet, TypeOK, Entries, Results
  <1>11. CASE ResumeSingle \/ ResumeBatch
    <2>1. jrn' \in [turn : 0..(Len(answer) + 1), bound : BOOLEAN,
                    status : {"PREPARED", "ASK_DISPATCHING", "CONVERSATION_BOUND",
                              "RESPONSE_RECOVERED"}]
      BY <1>11 DEF ResumeSingle, ResumeBatch, TypeOK
    <2>2. <<jrn.turn, 1>> \in Slots
      BY <1>11, Readable, FirstCall DEF ResumeSingle, ResumeBatch
    <2>3. ckpt' \in Seq(Entries)
      <3>1. ckpt \in Seq(Entries)
        BY DEF TypeOK, Entries, Results
      <3>2. [slot |-> <<jrn.turn, 1>>, result |-> "none"] \in Entries
        BY <2>2 DEF Entries, Results
      <3>3. CASE ckpt' = Append(ckpt, [slot |-> <<jrn.turn, 1>>, result |-> "none"])
        BY <3>1, <3>2, <3>3, Appended
      <3>4. CASE UNCHANGED ckpt
        BY <3>1, <3>4
      <3> QED
        BY <1>11, <3>3, <3>4 DEF ResumeSingle, ResumeBatch
    <2> QED
      BY <1>11, <2>1, <2>3 DEF ResumeSingle, ResumeBatch, Quiet, TypeOK, Entries, Results
  <1>12. CASE UNCHANGED vars
    BY <1>12 DEF vars, TypeOK
  <1> QED
    BY <1>1, <1>2, <1>3, <1>4, <1>5, <1>6, <1>7, <1>8, <1>9, <1>10, <1>11, <1>12
       DEF Next, Down

LEMMA JournalStep ==
  ASSUME LoopAssumption, LoopInv, [Next]_vars
  PROVE  BudgetInv' /\ JournalInv'
  <1>1. Len(answer) \in Nat /\ jrn.turn \in Nat /\ used \in Nat /\ used <= Budget
        /\ stops \in Nat /\ Budget \in Nat /\ Budget * stops \in Nat
    BY DEF LoopInv, TypeOK, LoopAssumption
  <1>2. CASE Stop /\ pc # "done"
    <2>1. Budget * (stops + 1) = Budget * stops + Budget
      BY <1>1
    <2>2. BudgetInv'
      BY <1>1, <1>2, <2>1 DEF Stop, LoopInv, BudgetInv
    <2>3. JournalInv'
      BY <1>1, <1>2 DEF Stop, LoopInv, JournalInv
    <2> QED
      BY <2>2, <2>3
  <1>3. CASE JournalAsk
    <2>1. jrn'.turn = Len(answer) + 1 /\ jrn'.status = "ASK_DISPATCHING"
      BY <1>3 DEF JournalAsk, LoopInv, TypeOK
    <2> QED
      BY <1>1, <1>3, <2>1 DEF JournalAsk, Quiet, LoopInv, BudgetInv, JournalInv
  <1>4. CASE Send
    <2>1. Len(answer') = Len(answer) + 1
      BY <1>4, Answers DEF Send, LoopInv
    <2> QED
      BY <1>1, <1>4, <2>1 DEF Send, Quiet, LoopInv, BudgetInv, JournalInv
  <1>5. CASE Bind \/ Reply
    BY <1>1, <1>5 DEF Bind, Reply, Quiet, LoopInv, BudgetInv, JournalInv, TypeOK
  <1>6. CASE ResumeSingle \/ ResumeBatch
    <2>1. jrn.turn \in 1..Len(answer) /\ jrn.turn = Len(answer)
      BY <1>6, Readable DEF ResumeSingle, ResumeBatch, LoopInv
    <2>2. UNCHANGED <<answer, used, stops>> /\ pc' \in {"tool", "model"}
          /\ jrn' = [jrn EXCEPT !.status = "RESPONSE_RECOVERED"]
      BY <1>6 DEF ResumeSingle, ResumeBatch, Quiet
    <2>3. jrn'.turn = jrn.turn /\ jrn'.status = "RESPONSE_RECOVERED"
      BY <2>2 DEF LoopInv, TypeOK
    <2>4. pc = "down"
      BY <1>6 DEF ResumeSingle, ResumeBatch
    <2> QED
      BY <1>1, <2>1, <2>2, <2>3, <2>4 DEF LoopInv, BudgetInv, JournalInv
  <1>10. CASE Continue
    <2>1. ckpt # <<>> /\ Tail1.slot[1] = jrn.turn
      BY <1>10 DEF Continue, Continues, Succeeded, LoopInv, TurnInv
    <2>3. Len(ckpt) \in 1..Len(ckpt)
      BY <2>1 DEF LoopInv, TypeOK
    <2>2. jrn.turn \in 1..Len(answer)
      BY <2>1, <2>3 DEF LoopInv, SlotInv, Given, Tail1
    <2> QED
      BY <1>1, <1>10, <2>2 DEF Continue, Quiet, LoopInv, BudgetInv, JournalInv
  <1>7. CASE Emit \/ RunTool \/ SaveResult
    <2>1. UNCHANGED <<answer, used, stops, jrn>> /\ pc \in {"emit", "tool", "ran"}
          /\ pc' \in {"tool", "ran", "model"}
      BY <1>7 DEF Emit, RunTool, SaveResult, Quiet
    <2> QED
      BY <1>1, <2>1 DEF LoopInv, BudgetInv, JournalInv
  <1>9. CASE Finish
    <2>1. CASE Stop
      BY <1>2, <1>9, <2>1 DEF Finish
    <2>2. CASE ~Stop
      BY <1>1, <1>9, <2>2 DEF Finish, Quiet, LoopInv, BudgetInv, JournalInv
    <2> QED
      BY <2>1, <2>2
  <1>8. CASE UNCHANGED vars
    BY <1>8 DEF vars, LoopInv, BudgetInv, JournalInv
  <1> QED
    BY <1>2, <1>3, <1>4, <1>5, <1>6, <1>7, <1>8, <1>9, <1>10 DEF Next, Down

LEMMA CheckpointStep ==
  ASSUME LoopAssumption, LoopInv, [Next]_vars
  PROVE  SlotInv' /\ BatchInv'
  <1> USE DEF LoopInv
  <1>1. CASE Emit
    <2>1. /\ call \in Slots /\ Given(call) /\ call = <<call[1], call[2]>>
      BY <1>1, GivenCall DEF Emit, TurnInv
    <2>2. \/ call[2] = 1 /\ \A k \in 1..Len(ckpt) : ckpt[k].slot[1] # call[1]
          \/ Continues /\ call[1] = Tail1.slot[1] /\ call[2] = Tail1.slot[2] + 1
      BY <1>1 DEF Emit, TurnInv, Unreached
    <2>3. UNCHANGED answer
          /\ ckpt' = Append(ckpt, [slot |-> <<call[1], call[2]>>, result |-> "none"])
      BY <1>1, <2>1 DEF Emit
    <2> HIDE DEF LoopInv
    <2>4. LoopAssumption /\ TypeOK /\ SlotInv /\ BatchInv
      BY DEF LoopInv
    <2> QED
      BY <2>1, <2>2, <2>3, <2>4, Grown
  <1>2. CASE SaveResult
    BY <1>2, Settled DEF SaveResult, TurnInv, TypeOK, Results
  <1>3. CASE Send
    BY <1>3, Unmoved DEF Send
  <1>4. CASE ResumeSingle
    BY <1>4, Readable, FirstCall, Grown DEF ResumeSingle, Quiet, Batch
  <1>5. CASE ResumeBatch
    <2>1. CASE Reached = {} /\ ckpt' = Append(ckpt, [slot |-> <<jrn.turn, 1>>, result |-> "none"])
      <3>1. \A k \in 1..Len(ckpt) : ckpt[k].slot[1] # jrn.turn
        BY <2>1 DEF Reached
      <3> QED
        BY <1>5, <2>1, <3>1, Readable, FirstCall, Grown DEF ResumeBatch, Quiet
    <2>2. CASE UNCHANGED ckpt
      BY <1>5, <2>2 DEF ResumeBatch, SlotInv, BatchInv, Given, Size, Batch
    <2> QED
      BY <1>5, <2>1, <2>2 DEF ResumeBatch
  <1>6. CASE UNCHANGED <<answer, ckpt>>
    BY <1>6 DEF SlotInv, BatchInv, Given, Size, Batch
  <1> QED
    BY <1>1, <1>2, <1>3, <1>4, <1>5, <1>6
       DEF Next, Down, Stop, Finish, Continue, JournalAsk, Bind, Reply, RunTool, vars

LEMMA TurnStep ==
  ASSUME LoopAssumption, LoopInv, [Next]_vars
  PROVE  TurnInv'
  <1> USE DEF LoopInv
  <1>0. Len(answer) \in Nat /\ jrn.turn \in Nat
    BY DEF TypeOK
  <1>1. CASE Stop
    BY <1>1 DEF Stop, TurnInv, Unreached, Tail1
  <1>2. CASE Finish
    BY <1>1, <1>2 DEF Finish, Quiet, TurnInv, Unreached, Tail1
  <1>3. CASE Continue
    <2>1. Continues /\ Tail1.slot[1] = jrn.turn
      BY <1>3 DEF Continue, Continues, Succeeded, TurnInv
    <2>2. Given(call')
      BY <1>3, <2>1, NextCall DEF Continue
    <2>3. call'[1] = jrn.turn /\ call'[2] = Tail1.slot[2] + 1
      BY <1>3, <2>1 DEF Continue
    <2> QED
      BY <1>3, <2>1, <2>2, <2>3
         DEF Continue, Quiet, TurnInv, Unreached, Tail1, Continues, Succeeded, Batch, Size, Given
  <1>4. CASE JournalAsk
    <2>1. jrn'.turn = Len(answer) + 1
      BY <1>4 DEF JournalAsk, TypeOK
    <2>2. Unreached'
      BY <1>0, <1>4, <2>1 DEF JournalAsk, Unreached, SlotInv, Given
    <2> QED
      BY <1>4, <2>2 DEF JournalAsk, TurnInv
  <1>5. CASE Send \/ Bind
    <2>1. jrn'.turn = jrn.turn /\ UNCHANGED ckpt /\ pc \in {"send", "bind"} /\ pc' \in {"bind", "reply"}
      BY <1>5 DEF Send, Bind, TypeOK
    <2> QED
      BY <2>1 DEF TurnInv, Unreached
  <1>6. CASE Reply
    <2>1. jrn'.turn = jrn.turn /\ UNCHANGED <<ckpt, answer>> /\ call' = <<jrn.turn, 1>>
      BY <1>6 DEF Reply, TypeOK
    <2>2. jrn.turn \in 1..Len(answer)
      BY <1>6 DEF Reply, JournalInv, TypeOK
    <2>3. Given(call)' /\ call'[1] = jrn'.turn /\ call'[2] = 1
      BY <2>1, <2>2, FirstCall DEF Given, Size
    <2> QED
      BY <1>6, <2>1, <2>3 DEF Reply, TurnInv, Unreached
  <1>7. CASE Emit
    <2>1. /\ ckpt' # <<>> /\ Tail1'.slot = call /\ Tail1'.result = "none"
      <3>1. [slot |-> call, result |-> "none"] \in Entries
        BY <1>7, GivenCall DEF Emit, Entries, Results
      <3>2. ckpt \in Seq(Entries)
        BY DEF TypeOK, Entries, Results
      <3> QED
        BY <1>7, <3>1, <3>2, Appended DEF Emit
    <2> QED
      BY <1>7, <2>1 DEF Emit, TurnInv
  <1>8. CASE RunTool
    BY <1>8 DEF RunTool, TurnInv, Unreached, Tail1
  <1>9. CASE SaveResult
    <2>1. /\ ckpt # <<>> /\ Tail1.slot[1] = jrn.turn /\ ckpt' # <<>> /\ Tail1'.slot = Tail1.slot
      BY <1>9, Saved DEF SaveResult, TurnInv, TypeOK, Results
    <2> QED
      BY <1>9, <2>1 DEF SaveResult, TurnInv
  <1>10. CASE ResumeSingle \/ ResumeBatch
    <2>1. jrn'.turn = jrn.turn /\ UNCHANGED answer
      BY <1>10 DEF ResumeSingle, ResumeBatch, TypeOK
    <2>2. CASE ckpt' = Append(ckpt, [slot |-> <<jrn.turn, 1>>, result |-> "none"]) /\ pc' = "tool"
      <3>1. <<jrn.turn, 1>> \in Slots
        BY <1>10, Readable, FirstCall DEF ResumeSingle, ResumeBatch
      <3>2. [slot |-> <<jrn.turn, 1>>, result |-> "none"] \in Entries
        BY <3>1 DEF Entries, Results
      <3>3. ckpt \in Seq(Entries)
        BY DEF TypeOK, Entries, Results
      <3>4. ckpt' # <<>> /\ Tail1'.slot = <<jrn.turn, 1>> /\ Tail1'.result = "none"
        BY <2>2, <3>2, <3>3, Appended
      <3> QED
        BY <2>1, <2>2, <3>4 DEF TurnInv
    <2>3. CASE ResumeBatch /\ Reached # {} /\ UNCHANGED ckpt /\ pc' = (IF Answered THEN "model" ELSE "tool")
      <3>1. ckpt # <<>> /\ Tail1.slot[1] = jrn.turn
        BY <2>3 DEF TurnInv, Unreached, Reached
      <3> QED
        BY <2>1, <2>3, <3>1 DEF TurnInv, Tail1, Answered
    <2> QED
      BY <1>10, <2>2, <2>3 DEF ResumeSingle, ResumeBatch
  <1>11. CASE UNCHANGED vars
    BY <1>11 DEF vars, TurnInv, Unreached, Tail1, Given, Size, Continues, Succeeded, Batch
  <1> QED
    BY <1>1, <1>2, <1>3, <1>4, <1>5, <1>6, <1>7, <1>8, <1>9, <1>10, <1>11 DEF Next, Down

\* The checkpoint never loses a call.
LEMMA Kept ==
  ASSUME LoopAssumption, LoopInv, [Next]_vars
  PROVE  \A k \in 1..Len(ckpt) : k \in 1..Len(ckpt') /\ ckpt'[k].slot = ckpt[k].slot
  <1>1. CASE \E e \in Entries : ckpt' = Append(ckpt, e)
    <2>1. ckpt \in Seq(Entries)
      BY DEF LoopInv, TypeOK, Entries, Results
    <2> QED
      BY <1>1, <2>1, Appended
  <1>2. CASE SaveResult
    <2>1. ckpt # <<>> /\ TypeOK /\ result \in Results
      BY <1>2 DEF SaveResult, LoopInv, TurnInv, TypeOK, Results
    <2> QED
      BY <1>2, <2>1, Saved DEF SaveResult
  <1>3. CASE UNCHANGED ckpt
    BY <1>3
  <1>4. CASE Emit
    BY <1>1, <1>4, GivenCall DEF Emit, Entries, Results
  <1>5. CASE ResumeSingle \/ ResumeBatch
    <2>1. <<jrn.turn, 1>> \in Slots
      BY <1>5, Readable, FirstCall DEF ResumeSingle, ResumeBatch, LoopInv
    <2> QED
      BY <1>1, <1>3, <1>5, <2>1 DEF ResumeSingle, ResumeBatch, Entries, Results
  <1> QED
    BY <1>2, <1>3, <1>4, <1>5
       DEF Next, Down, Stop, Finish, Continue, JournalAsk, Send, Bind, Reply, RunTool, vars

LEMMA RunStep ==
  ASSUME LoopAssumption, LoopInv, [Next]_vars
  PROVE  RunInv'
  <1> SUFFICES ASSUME NEW s \in Slots, runs'[s] > 0
               PROVE  \E k \in 1..Len(ckpt') : ckpt'[k].slot = s
    BY DEF RunInv
  <1>1. CASE runs[s] > 0
    BY <1>1, Kept DEF LoopInv, RunInv
  <1>2. CASE RunTool /\ s = Tail1.slot
    <2>1. Len(ckpt) \in 1..Len(ckpt) /\ UNCHANGED ckpt
      BY <1>2 DEF RunTool, LoopInv, TurnInv, TypeOK
    <2> QED
      BY <1>2, <2>1 DEF Tail1
  <1>3. CASE RunTool /\ s # Tail1.slot
    BY <1>1, <1>3 DEF RunTool, LoopInv, TypeOK
  <1>4. CASE ~RunTool
    <2>1. UNCHANGED runs
      BY <1>4 DEF Next, Down, Stop, Finish, Continue, JournalAsk, Send, Bind, Reply, Emit,
                  SaveResult, ResumeSingle, ResumeBatch, Quiet, vars
    <2> QED
      BY <1>1, <2>1
  <1> QED
    BY <1>2, <1>3, <1>4

\* The calls of one batch stand at different places of it.
LEMMA BatchPlace ==
  ASSUME LoopAssumption, LoopInv, ckpt # <<>>, Batch(Tail1.slot),
         NEW k \in 1..Len(ckpt), ckpt[k].slot[1] = Tail1.slot[1]
  PROVE  /\ ckpt[k].slot[2] - k = Tail1.slot[2] - Len(ckpt)
         /\ ckpt[k].slot[2] \in Nat /\ Tail1.slot[2] \in Nat
  <1> DEFINE n == Len(ckpt)   at == ckpt[k].slot[2]   last == Tail1.slot[2]
  <1>1. n \in 1..n /\ n \in Nat
    BY DEF LoopInv, TypeOK
  <1>2. at \in Nat /\ last \in Nat
    BY <1>1, EntryTyped DEF LoopInv, Tail1
  <1>3. k > n - last /\ (k > n - last => at = k - (n - last))
    BY <1>1 DEF LoopInv, BatchInv, Tail1
  <1> HIDE DEF n, at, last
  <1>4. at - k = last - n
    BY <1>1, <1>2, <1>3
  <1> QED
    BY <1>2, <1>4 DEF n, at, last

\* A recorder call is the last of its response.
LEMMA RecorderPlace ==
  ASSUME LoopAssumption, TypeOK, NEW slot, Given(slot), Kind[Ask(slot)] = Recorder
  PROVE  slot[2] = Size(slot)
  <1>1. answer[slot[1]] \in Responses /\ slot[2] \in 1..Len(answer[slot[1]].calls)
    BY DEF TypeOK, Given, Size
  <1> QED
    BY <1>1 DEF LoopAssumption, WellFormed, Ask, Size

LEMMA RecorderStep ==
  ASSUME LoopAssumption, LoopInv, [Next]_vars
  PROVE  RecorderInv'
  <1> USE DEF LoopInv
  <1> DEFINE None == \A k \in 1..Len(ckpt) : ~RecordedOk(k)
  <1>0. ckpt # <<>> => Len(ckpt) \in 1..Len(ckpt)
    BY DEF TypeOK
  <1>1. CASE Stop
    BY <1>1 DEF Stop, RecorderInv, RecordedOk, Ask, Tail1
  <1>2. CASE Finish
    BY <1>1, <1>2 DEF Finish, Quiet, RecorderInv, RecordedOk, Ask, Tail1
  <1>3. CASE None /\ UNCHANGED <<answer, ckpt>> /\ pc' # "ran"
    BY <1>3 DEF RecorderInv, RecordedOk, Ask
  <1>4. CASE Continue \/ JournalAsk
    <2>1. None
      BY <1>4 DEF Continue, JournalAsk, RecorderInv, RecorderCompleted
    <2> QED
      BY <1>3, <1>4, <2>1 DEF Continue, JournalAsk
  <1>5. CASE Bind \/ Reply
    <2>1. None
      BY <1>5 DEF Bind, Reply, RecorderInv
    <2> QED
      BY <1>3, <1>5, <2>1 DEF Bind, Reply
  <1>6. CASE Send
    <2>1. None
      BY <1>6 DEF Send, RecorderInv
    <2>2. \A k \in 1..Len(ckpt) : Ask(ckpt[k].slot)' = Ask(ckpt[k].slot)
      BY <1>6, Answers DEF Send, SlotInv
    <2>3. UNCHANGED ckpt /\ pc' = "bind"
      BY <1>6 DEF Send
    <2>4. \A k \in 1..Len(ckpt) : ~RecordedOk(k)'
      BY <2>1, <2>2, <2>3 DEF RecordedOk
    <2> QED
      BY <2>3, <2>4 DEF RecorderInv
  <1>7. CASE \E e \in Entries : ckpt' = Append(ckpt, e) /\ e.result = "none" /\ None
                               /\ UNCHANGED answer /\ pc' = "tool"
    <2>1. ckpt \in Seq(Entries)
      BY DEF TypeOK, Entries, Results
    <2>2. PICK e \in Entries : ckpt' = Append(ckpt, e) /\ e.result = "none" /\ None
                              /\ UNCHANGED answer /\ pc' = "tool"
      BY <1>7
    <2>3. ASSUME NEW k \in 1..Len(ckpt')
          PROVE  ~RecordedOk(k)'
      <3>1. CASE k \in 1..Len(ckpt)
        BY <2>1, <2>2, <3>1, Appended DEF RecordedOk, Ask
      <3>2. CASE k = Len(ckpt')
        BY <2>1, <2>2, <3>2, Appended DEF RecordedOk
      <3>3. Len(ckpt') = Len(ckpt) + 1 /\ Len(ckpt) \in Nat
        BY <2>1, <2>2, Appended
      <3> QED
        BY <3>1, <3>2, <3>3
    <2> QED
      BY <2>2, <2>3 DEF RecorderInv
  <1>8. CASE Emit
    <2>1. None
      BY <1>8 DEF Emit, RecorderInv
    <2> QED
      BY <1>7, <1>8, <2>1, GivenCall DEF Emit, Entries, Results
  <1>9. CASE RunTool
    BY <1>9 DEF RunTool, RecorderInv, RecordedOk, Ask, Tail1
  <1>10. CASE SaveResult
    <2>1. /\ ckpt # <<>> /\ result \in Results /\ UNCHANGED answer /\ UNCHANGED jrn
          /\ ckpt' = [ckpt EXCEPT ![Len(ckpt)].result = result]
          /\ Tail1.slot[1] = jrn.turn
          /\ pc = "ran" /\ pc' = "model"
      BY <1>10 DEF SaveResult, TurnInv, TypeOK, Results
    <2>2. /\ Len(ckpt') = Len(ckpt) /\ ckpt' # <<>>
          /\ \A k \in 1..Len(ckpt) : ckpt'[k].slot = ckpt[k].slot
          /\ \A k \in 1..Len(ckpt) : k # Len(ckpt) => ckpt'[k] = ckpt[k]
          /\ ckpt'[Len(ckpt)].result = result
          /\ Tail1'.slot = Tail1.slot /\ Tail1'.result = result
      <3>1. TypeOK
        OBVIOUS
      <3> QED
        BY <2>1, <3>1, Saved
    <2>3. ASSUME NEW k \in 1..Len(ckpt), RecordedOk(k)'
          PROVE  /\ ckpt[k].slot[1] = jrn.turn /\ Kind[Ask(Tail1.slot)] = Recorder
                 /\ result = "ok"
      <3>1. CASE k = Len(ckpt)
        BY <2>1, <2>2, <2>3, <3>1 DEF RecordedOk, Ask, Tail1
      <3>2. CASE k # Len(ckpt)
        BY <2>1, <2>2, <2>3, <3>2 DEF RecordedOk, Ask, RecorderInv
      <3> QED
        BY <3>1, <3>2
    <2> QED
      BY <2>1, <2>2, <2>3 DEF RecorderInv, Succeeded, Ask
  <1>11. CASE ResumeSingle
    <2>1. jrn.turn \in 1..Len(answer) /\ Given(<<jrn.turn, 1>>) /\ <<jrn.turn, 1>> \in Slots
      BY <1>11, Readable, FirstCall DEF ResumeSingle
    <2>2. [slot |-> <<jrn.turn, 1>>, result |-> "none"] \in Entries
      BY <2>1 DEF Entries, Results
    <2>3. ckpt \in Seq(Entries)
      BY DEF TypeOK, Entries, Results
    <2>4. /\ ckpt' = Append(ckpt, [slot |-> <<jrn.turn, 1>>, result |-> "none"])
          /\ UNCHANGED answer /\ pc' = "tool" /\ jrn'.turn = jrn.turn
      BY <1>11 DEF ResumeSingle, TypeOK
    <2>5. /\ Len(ckpt') = Len(ckpt) + 1 /\ Len(ckpt) \in Nat
          /\ \A k \in 1..Len(ckpt) : ckpt'[k] = ckpt[k]
          /\ ckpt'[Len(ckpt')].result = "none" /\ Tail1'.slot = <<jrn.turn, 1>>
      BY <2>2, <2>3, <2>4, Appended
    <2>6. answer[jrn.turn] \in Responses /\ Len(answer[jrn.turn].calls) = 1
      BY <1>11, <2>1 DEF ResumeSingle, TypeOK, LoopAssumption, WellFormed
    <2>7. ASSUME NEW k \in 1..Len(ckpt'), RecordedOk(k)'
          PROVE  ckpt'[k].slot[1] = jrn.turn /\ Kind[Ask(Tail1'.slot)] = Recorder
      <3>1. k \in 1..Len(ckpt)
        <4>1. k # Len(ckpt')
          BY <2>5, <2>7 DEF RecordedOk
        <4> QED
          BY <2>5, <4>1
      <3>2. RecordedOk(k) /\ ckpt'[k] = ckpt[k]
        BY <2>4, <2>5, <2>7, <3>1 DEF RecordedOk, Ask
      <3>3. ckpt[k].slot[1] = jrn.turn /\ Given(ckpt[k].slot)
        BY <3>1, <3>2 DEF RecorderInv, SlotInv
      <3>7. Size(ckpt[k].slot) = 1
        BY <2>6, <3>3 DEF Size
      <3>4. ckpt[k].slot[2] = 1
        BY <3>3, <3>7 DEF Given
      <3>5. Tail1'.slot[1] = jrn.turn /\ Tail1'.slot[2] = 1
        BY <2>5
      <3>6. Ask(Tail1'.slot) = Ask(ckpt[k].slot)
        BY <3>3, <3>4, <3>5 DEF Ask
      <3> QED
        BY <3>2, <3>3, <3>6 DEF RecordedOk
    <2> QED
      BY <2>4, <2>7 DEF RecorderInv, Ask
  <1>12. CASE ResumeBatch
    <2>1. jrn'.turn = jrn.turn /\ UNCHANGED answer
      BY <1>12 DEF ResumeBatch, TypeOK
    <2>2. CASE Reached = {} /\ ckpt' = Append(ckpt, [slot |-> <<jrn.turn, 1>>, result |-> "none"])
               /\ pc' = "tool"
      <3>1. <<jrn.turn, 1>> \in Slots
        BY <1>12, Readable, FirstCall DEF ResumeBatch
      <3>2. None
        BY <2>2 DEF RecorderInv, Reached
      <3> QED
        BY <1>7, <2>1, <2>2, <3>1, <3>2 DEF Entries, Results
    <2>3. CASE UNCHANGED ckpt /\ pc' = (IF Answered THEN "model" ELSE "tool")
      <3>1. ASSUME NEW k \in 1..Len(ckpt), RecordedOk(k), Answered
            PROVE  Succeeded
        <4>1. /\ ckpt[k].slot[1] = jrn.turn /\ Kind[Ask(Tail1.slot)] = Recorder
              /\ Kind[Ask(ckpt[k].slot)] = Recorder /\ ckpt[k].result = "ok"
          BY <3>1 DEF RecorderInv, RecordedOk
        <4>2. ckpt # <<>> /\ Len(ckpt) \in 1..Len(ckpt) /\ Tail1.slot[1] = jrn.turn
          BY <1>0, <3>1, <4>1 DEF Answered, TurnInv, Unreached
        <4>3. Batch(Tail1.slot)
          BY <1>12, <4>2 DEF ResumeBatch, Batch
        <4>4. ckpt[k].slot[2] = Size(ckpt[k].slot) /\ Tail1.slot[2] = Size(Tail1.slot)
          BY <4>1, <4>2, RecorderPlace DEF SlotInv, Tail1
        <4>5. ckpt[k].slot[2] = Tail1.slot[2]
          BY <4>1, <4>2, <4>4 DEF Size
        <4>6. k = Len(ckpt)
          <5> DEFINE at == ckpt[k].slot[2]  n == Len(ckpt)
          <5>4. LoopInv /\ ckpt[k].slot[1] = Tail1.slot[1]
            BY <4>1, <4>2
          <5>5. ckpt[k].slot[2] - k = Tail1.slot[2] - n /\ at \in Nat
            BY <4>2, <4>3, <5>4, BatchPlace
          <5>1. at - k = at - n /\ at \in Nat /\ n \in Nat
            BY <4>5, <5>5 DEF TypeOK
          <5> HIDE DEF at, n
          <5>2. k \in 1..n
            BY DEF n
          <5>3. k = n
            BY <5>1, <5>2
          <5> QED
            BY <5>3 DEF n
        <4> QED
          BY <4>1, <4>2, <4>6 DEF Succeeded, Tail1
      <3>2. /\ \A k \in 1..Len(ckpt) : RecordedOk(k)' <=> RecordedOk(k)
            /\ Ask(Tail1.slot)' = Ask(Tail1.slot) /\ Succeeded' = Succeeded
        BY <2>1, <2>3 DEF RecordedOk, Ask, Tail1, Succeeded
      <3>3. pc' = "model" => Answered
        BY <2>3
      <3>4. pc' \in {"model", "tool"}
        BY <2>3
      <3>5. ASSUME NEW k \in 1..Len(ckpt'), RecordedOk(k)'
            PROVE  /\ ckpt'[k].slot[1] = jrn'.turn
                   /\ Kind[Ask(Tail1.slot)'] = Recorder
                   /\ pc' = "model" => Succeeded'
        BY <2>1, <2>3, <3>1, <3>2, <3>3, <3>5 DEF RecorderInv
      <3> QED
        BY <3>4, <3>5 DEF RecorderInv
    <2> QED
      BY <1>12, <2>2, <2>3 DEF ResumeBatch
  <1>13. CASE UNCHANGED vars
    BY <1>13 DEF vars, RecorderInv, RecordedOk, Ask, Tail1, Succeeded
  <1> QED
    BY <1>1, <1>2, <1>4, <1>5, <1>6, <1>8, <1>9, <1>10, <1>11, <1>12, <1>13 DEF Next, Down
-------------------------------------------------------------------------------
LEMMA InitInv ==
  ASSUME LoopAssumption, Init
  PROVE  LoopInv
  <1>1. Len(answer) = 0 /\ Len(ckpt) = 0
    BY DEF Init
  <1>2. TypeOK
    BY <1>1 DEF Init, TypeOK, LoopAssumption, Slots
  <1>3. BudgetInv
    BY <1>1 DEF Init, BudgetInv, LoopAssumption
  <1>4. JournalInv /\ SlotInv /\ BatchInv /\ TurnInv /\ RunInv /\ RecorderInv
    BY <1>1 DEF Init, JournalInv, SlotInv, BatchInv, TurnInv, Unreached, RunInv, RecorderInv
  <1> QED
    BY <1>2, <1>3, <1>4 DEF LoopInv

\* Every step of the loop preserves the invariant.
THEOREM Invariance == Spec => []LoopInv
  <1>1. LoopInv /\ [Next]_vars => LoopInv'
    BY LoopAssumption, TypeStep, JournalStep, CheckpointStep, TurnStep, RunStep, RecorderStep
       DEF LoopInv
  <1>2. Init => LoopInv
    BY LoopAssumption, InitInv
  <1> QED
    BY <1>1, <1>2, PTL DEF Spec

\* The types, for every bound.
THEOREM TypeCorrect == Spec => []TypeOK
  <1>1. LoopInv => TypeOK
    BY DEF LoopInv
  <1> QED
    BY <1>1, Invariance, PTL

\* A later call of a batch of any length runs only after the success of the call
\* before it, whatever stopped and resumed the loop.
THEOREM InOrder == Spec => []BatchInOrder
  <1>1. ASSUME LoopInv, NEW s \in Slots, runs[s] > 0, s[2] > 1
        PROVE  \E k \in 1..Len(ckpt) : ckpt[k].slot = <<s[1], s[2] - 1>> /\ ckpt[k].result = "ok"
    <2>1. PICK k \in 1..Len(ckpt) : ckpt[k].slot = s
      BY <1>1 DEF LoopInv, RunInv
    <2>10. TypeOK /\ SlotInv
      BY <1>1 DEF LoopInv
    <2>2. Given(s) /\ answer[s[1]] \in Responses
      <3>1. Given(s)
        BY <2>1, <2>10 DEF SlotInv
      <3>2. answer \in Seq(Responses)
        BY <2>10 DEF TypeOK
      <3> QED
        BY <3>1, <3>2 DEF Given
    <2>3. Batch(s)
      <3>1. Size(s) # 1
        BY <1>1, <2>2 DEF Given
      <3> QED
        BY <2>2, <3>1, LoopAssumption DEF LoopAssumption, WellFormed, Size, Batch
    <2>4. k \in Nat /\ Len(ckpt) \in Nat /\ s[2] \in Nat
      <3>1. Len(ckpt) \in Nat
        BY <2>10 DEF TypeOK
      <3> QED
        BY <2>1, <2>10, <3>1, LoopAssumption, EntryTyped
    <2> DEFINE i == s[2]   before == k - i
               Turn(j) == ckpt[j].slot[1]   Index(j) == ckpt[j].slot[2]
               Ok(j) == ckpt[j].result = "ok"
    <2>5. /\ before >= 0
          /\ \A j \in 1..k : /\ Turn(j) = s[1] <=> j > before
                             /\ j > before => Index(j) = j - before
                             /\ j > before /\ j < k => Ok(j)
      BY <1>1, <2>1, <2>3 DEF LoopInv, BatchInv
    <2> HIDE DEF i, Turn, Index, Ok
    <2>11. before \in Nat
      <3>1. i \in Nat /\ k \in Nat /\ k - i >= 0
        BY <2>4, <2>5 DEF i
      <3> QED
        BY <3>1
    <2>6. k - 1 \in 1..k /\ k - 1 > before /\ k - 1 < k /\ (k - 1) - before = i - 1
          /\ k - 1 \in 1..Len(ckpt)
      <3>1. i \in Nat /\ i > 1 /\ k - i >= 0
        BY <1>1, <2>4, <2>5 DEF i
      <3> QED
        BY <2>4, <3>1
    <2>7. Turn(k - 1) = s[1] /\ Index(k - 1) = i - 1 /\ Ok(k - 1)
      <3> HIDE DEF before
      <3>1. PICK j \in 1..k : j = k - 1 /\ j > before /\ j < k /\ j - before = i - 1
        BY <2>6
      <3>2. Turn(j) = s[1] /\ Index(j) = j - before /\ Ok(j)
        BY <2>5, <3>1
      <3>3. Index(j) = i - 1
        BY <3>1, <3>2
      <3> QED
        BY <3>1, <3>2, <3>3
    <2>8. ckpt[k - 1].slot \in Slots
      BY <1>1, <2>6, LoopAssumption, EntryTyped DEF LoopInv, Entries
    <2>9. ckpt[k - 1].slot = <<s[1], i - 1>>
      BY <2>7, <2>8 DEF Slots, Turn, Index
    <2> QED
      BY <2>6, <2>7, <2>9 DEF i, Ok
  <1>2. LoopInv => BatchInOrder
    BY <1>1 DEF BatchInOrder
  <1> QED
    BY <1>2, Invariance, PTL

\* No stop, wherever it falls, leaves a batch that cannot be resumed.
THEOREM Resumable == Spec => []BatchResumable
  <1>1. ASSUME LoopInv, pc = "down", ReadableTurn, answer[jrn.turn].batch, Reached # {}
        PROVE  BatchTail
    <2>1. ckpt # <<>> /\ Tail1.slot[1] = jrn.turn
      BY <1>1 DEF LoopInv, TurnInv, Unreached, Reached
    <2>2. Batch(Tail1.slot) /\ Len(ckpt) \in 1..Len(ckpt) /\ Len(ckpt) \in Nat
      BY <1>1, <2>1 DEF Batch, LoopInv, TypeOK
    <2> DEFINE n == Len(ckpt)   i == Tail1.slot[2]   before == n - i
               Turn(j) == ckpt[j].slot[1]   Index(j) == ckpt[j].slot[2]
               Ok(j) == ckpt[j].result = "ok"
    <2>3. i \in Nat /\ i # 0
      BY <1>1, <2>2, LoopAssumption, EntryTyped DEF LoopInv, Tail1
    <2>4. /\ before >= 0
          /\ \A j \in 1..n : /\ Turn(j) = jrn.turn <=> j > before
                             /\ j > before => Index(j) = j - before
                             /\ j > before /\ j < n => Ok(j)
      BY <1>1, <2>1, <2>2 DEF LoopInv, BatchInv, Tail1
    <2>5. Reached = {k \in 1..n : Turn(k) = jrn.turn}
      BY DEF Reached
    <2>6. n \in Nat
      BY <2>2
    <2> HIDE DEF n, i, Turn, Index, Ok
    <2>7. before \in Nat /\ before + 1 \in 1..n
      BY <2>3, <2>4, <2>6
    <2> DEFINE first == before + 1
    <2>8. /\ first \in 1..n
          /\ Reached = first..n
          /\ \A k \in Reached : Index(k) = k - first + 1
          /\ \A k \in Reached \ {n} : Ok(k)
      <3> HIDE DEF before
      <3>0. \A k : k \in first..n <=> k \in 1..n /\ k > before
        BY <2>6, <2>7
      <3>1. Reached = first..n
        <4> HIDE DEF first
        <4> QED
          BY <2>4, <2>5, <3>0
      <3>2. ASSUME NEW k \in Reached
            PROVE  Index(k) = k - first + 1 /\ (k # n => Ok(k))
        <4>1. k \in 1..n /\ k > before
          BY <3>0, <3>1, <3>2
        <4>2. k - first + 1 = k - before /\ (k # n => k < n)
          BY <2>6, <2>7, <4>1
        <4>3. Index(k) = k - before /\ (k < n => Ok(k))
          BY <2>4, <4>1
        <4> HIDE DEF first
        <4> QED
          BY <4>2, <4>3
      <3> QED
        BY <2>7, <3>1, <3>2
    <2> HIDE DEF first
    <2> QED
      BY <2>8 DEF BatchTail, n, Index, Ok
  <1>2. LoopInv => BatchResumable
    BY <1>1 DEF BatchResumable
  <1> QED
    BY <1>2, Invariance, PTL

\* A call of a batch that has its result is never run again.
THEOREM PastResults == Spec => BatchResumesPastResults
  <1>1. ASSUME LoopInv, RunTool, NEW k \in 1..Len(ckpt), Batch(ckpt[k].slot),
               ckpt[k].result # "none"
        PROVE  runs'[ckpt[k].slot] = runs[ckpt[k].slot]
    <2>1. ckpt # <<>> /\ Tail1.result = "none"
      BY <1>1 DEF RunTool, LoopInv, TurnInv
    <2>2. k # Len(ckpt)
      BY <1>1, <2>1 DEF Tail1
    <2>3. ckpt[k].slot # Tail1.slot
      <3> SUFFICES ASSUME ckpt[k].slot = Tail1.slot
                   PROVE  FALSE
        OBVIOUS
      <3> DEFINE n == Len(ckpt)   at == Tail1.slot[2]
      <3>4. Batch(Tail1.slot) /\ ckpt[k].slot[1] = Tail1.slot[1]
        BY <1>1
      <3>5. ckpt[k].slot[2] - k = at - n /\ at \in Nat
        BY <1>1, <2>1, <3>4, LoopAssumption, BatchPlace
      <3>1. at - k = at - n /\ at \in Nat /\ n \in Nat
        BY <1>1, <3>5 DEF LoopInv, TypeOK
      <3> HIDE DEF n, at
      <3>2. k \in 1..n
        BY DEF n
      <3>3. k = n
        BY <3>1, <3>2
      <3> QED
        BY <2>2, <3>3 DEF n
    <2>4. ckpt[k].slot \in Slots
      BY <1>1, LoopAssumption, EntryTyped DEF LoopInv, Entries
    <2> QED
      BY <1>1, <2>3, <2>4 DEF RunTool, LoopInv, TypeOK
  <1>2. [Next]_vars /\ ~RunTool => UNCHANGED runs
    BY DEF Next, Down, Stop, Finish, Continue, JournalAsk, Send, Bind, Reply, Emit,
           SaveResult, ResumeSingle, ResumeBatch, Quiet, vars
  <1>3. LoopInv /\ [Next]_vars =>
          [\A k \in 1..Len(ckpt) :
             Batch(ckpt[k].slot) /\ ckpt[k].result # "none"
               => runs'[ckpt[k].slot] = runs[ckpt[k].slot]]_vars
    BY <1>1, <1>2
  <1> QED
    BY <1>3, Invariance, PTL DEF Spec, BatchResumesPastResults

\* Nothing follows a recorder that succeeded: no web turn and no change of a file.
THEOREM LastCall == Spec => RecorderIsLast
  <1>1. ASSUME LoopInv, [Next]_vars, NEW k \in Recorded, ckpt[k].result = "ok"
        PROVE  UNCHANGED <<answer, applied>>
    <2>1. /\ Kind[Ask(Tail1.slot)] = Recorder
          /\ pc \in {"model", "tool", "ran", "down", "done"}
      BY <1>1 DEF Recorded, LoopInv, RecorderInv, RecordedOk
    <2>2. CASE RunTool
      <3>1. Ask(Tail1.slot) \notin Again
        BY <2>1, LoopAssumption DEF LoopAssumption, Recorder
      <3>2. UNCHANGED applied \/ applied' = [applied EXCEPT ![Tail1.slot] = @]
        BY <2>1, <2>2, <3>1 DEF RunTool, Recorder
      <3> QED
        BY <1>1, <2>2, <3>2 DEF RunTool, LoopInv, TypeOK
    <2>3. CASE ~RunTool
      BY <1>1, <2>1, <2>3
         DEF Next, Down, Stop, Finish, Continue, JournalAsk, Send, Bind, Reply, Emit,
             SaveResult, ResumeSingle, ResumeBatch, Quiet, vars
    <2> QED
      BY <2>2, <2>3
  <1>2. LoopInv /\ [Next]_vars =>
          [(\E k \in Recorded : ckpt[k].result = "ok") => UNCHANGED <<answer, applied>>]_vars
    BY <1>1
  <1> QED
    BY <1>2, Invariance, PTL DEF Spec, RecorderIsLast
-------------------------------------------------------------------------------
\* Recorder calls are of the journaled turn and never fail, and no call is left
\* without its result when the model is asked.
LastTurnInv ==
  /\ pc = "model" /\ ckpt # <<>> => Answered
  /\ pc = "ran" => result # "none"
  /\ \A k \in Recorded : ckpt[k].slot[1] = jrn.turn /\ ckpt[k].result # "error"

OnceInv == LoopInv /\ LastTurnInv

\* A recorder call of a batch that ends the checkpoint is the only one there.
LEMMA LoneRecorder ==
  ASSUME LoopAssumption, OnceInv, ckpt # <<>>, Batch(Tail1.slot),
         NEW k \in Recorded, Tail1.slot[1] = jrn.turn
  PROVE  Kind[Ask(Tail1.slot)] = Recorder => k = Len(ckpt)
  <1> SUFFICES ASSUME Kind[Ask(Tail1.slot)] = Recorder
               PROVE  k = Len(ckpt)
    OBVIOUS
  <1> DEFINE at == ckpt[k].slot[2]  n == Len(ckpt)
  <1>1. /\ LoopInv /\ TypeOK /\ k \in 1..n /\ n \in Nat /\ n \in 1..n
        /\ Kind[Ask(ckpt[k].slot)] = Recorder /\ ckpt[k].slot[1] = Tail1.slot[1]
        /\ Given(ckpt[k].slot) /\ Given(Tail1.slot)
    BY DEF OnceInv, LoopInv, LastTurnInv, Recorded, SlotInv, TypeOK, Tail1
  <1>2. at = Size(ckpt[k].slot) /\ Tail1.slot[2] = Size(Tail1.slot)
    BY <1>1, RecorderPlace
  <1>3. at = Tail1.slot[2]
    BY <1>1, <1>2 DEF Size
  <1>4. at - k = Tail1.slot[2] - n /\ at \in Nat
    BY <1>1, BatchPlace
  <1>5. at - k = at - n /\ at \in Nat /\ n \in Nat /\ k \in 1..n
    BY <1>1, <1>3, <1>4
  <1> HIDE DEF at, n
  <1>6. k = n
    BY <1>5
  <1> QED
    BY <1>6 DEF n

\* Before another web turn is journaled, no recorder call is checkpointed: a single
\* one has succeeded, and one of a batch is its last call.
LEMMA NoRecorderYet ==
  ASSUME LoopAssumption, OnceInv, pc = "model", ~RecorderCompleted
  PROVE  Recorded = {} \/ Continues
  <1> SUFFICES ASSUME NEW k \in Recorded, ~Continues
               PROVE  FALSE
    OBVIOUS
  <1>1. /\ TypeOK /\ SlotInv /\ k \in 1..Len(ckpt) /\ Kind[Ask(ckpt[k].slot)] = Recorder
        /\ ckpt[k].slot[1] = jrn.turn /\ ckpt[k].result # "error"
    BY DEF OnceInv, LoopInv, LastTurnInv, Recorded
  <1>2. /\ ckpt # <<>> /\ Len(ckpt) \in Nat /\ Len(ckpt) \in 1..Len(ckpt)
        /\ Tail1.slot[1] = jrn.turn /\ Given(ckpt[k].slot) /\ Given(Tail1.slot)
        /\ answer[jrn.turn] \in Responses
    <2>1. ckpt # <<>> /\ Len(ckpt) \in Nat /\ Len(ckpt) \in 1..Len(ckpt)
      BY <1>1 DEF TypeOK
    <2>2. Tail1.slot[1] = jrn.turn /\ Given(ckpt[k].slot) /\ Given(Tail1.slot)
      BY <1>1, <2>1 DEF OnceInv, LoopInv, TurnInv, SlotInv, Tail1
    <2>3. jrn.turn \in 1..Len(answer) /\ answer \in Seq(Responses)
      BY <1>1, <2>2 DEF Given, TypeOK
    <2> QED
      BY <2>1, <2>2, <2>3
  <1>5. Tail1.result \in {"ok", "error"}
    <2>1. ckpt[Len(ckpt)] \in Entries
      BY <1>1, <1>2, EntryTyped
    <2>2. Tail1.result \in Results /\ Tail1.result # "none"
      BY <1>2, <2>1 DEF OnceInv, LastTurnInv, Answered, Tail1, Entries
    <2> QED
      BY <2>2 DEF Results
  <1>3. CASE ~Batch(Tail1.slot)
    <2>1. Size(ckpt[k].slot) = 1 /\ Size(Tail1.slot) = 1
      BY <1>1, <1>2, <1>3 DEF LoopAssumption, WellFormed, Batch, Size
    <2>2. ckpt[k].slot[2] = 1 /\ Tail1.slot[2] = 1
      BY <1>2, <2>1 DEF Given
    <2>3. Kind[Ask(Tail1.slot)] = Recorder
      BY <1>1, <1>2, <2>2 DEF Ask
    <2>4. Len(ckpt) \in Recorded
      BY <1>2, <2>3 DEF Recorded, Tail1
    <2>5. Tail1.result = "ok"
      BY <1>5, <2>4 DEF OnceInv, LastTurnInv, Tail1
    <2> QED
      BY <1>2, <2>3, <2>5 DEF RecorderCompleted, Succeeded
  <1>4. CASE Batch(Tail1.slot)
    <2> DEFINE at == ckpt[k].slot[2]  last == Tail1.slot[2]  n == Len(ckpt)
    <2>1. /\ at = Size(Tail1.slot) /\ last \in 1..Size(Tail1.slot)
          /\ at - k = last - n /\ at \in Nat /\ last \in Nat /\ n \in Nat /\ k \in 1..n
      <3>1. at = Size(ckpt[k].slot) /\ Size(ckpt[k].slot) = Size(Tail1.slot)
        BY <1>1, <1>2, RecorderPlace DEF Size
      <3>2. at - k = last - n /\ at \in Nat /\ last \in Nat
        BY <1>1, <1>2, <1>4, BatchPlace DEF OnceInv
      <3> QED
        BY <1>1, <1>2, <3>1, <3>2 DEF Given
    <2>2. k = n
      <3>1. last <= at
        <4>1. last \in 1..at
          BY <2>1
        <4> HIDE DEF at, last
        <4> QED
          BY <2>1, <4>1
      <3> HIDE DEF at, last, n
      <3> QED
        BY <2>1, <3>1
    <2>3. Tail1.result = "ok" /\ Kind[Ask(Tail1.slot)] = Recorder
      BY <1>1, <1>5, <2>2 DEF Tail1
    <2> QED
      BY <1>2, <2>3 DEF RecorderCompleted, Succeeded
  <1> QED
    BY <1>3, <1>4

LEMMA LastTurnStep ==
  ASSUME LoopAssumption, OnceInv, [Next]_vars
  PROVE  LastTurnInv'
  <1> USE DEF OnceInv, LoopInv
  <1>0. ckpt \in Seq(Entries) /\ Len(ckpt) \in Nat /\ (ckpt # <<>> => Len(ckpt) \in 1..Len(ckpt))
    BY DEF TypeOK, Entries, Results
  <1>1. CASE UNCHANGED <<answer, ckpt>> /\ jrn'.turn = jrn.turn /\ pc' \notin {"model", "ran"}
    <2>1. Recorded' = Recorded
      BY <1>1 DEF Recorded, Ask
    <2> QED
      BY <1>1, <2>1 DEF LastTurnInv
  <1>2. CASE Stop \/ Continue \/ Bind \/ Reply \/ Finish
    <2>1. UNCHANGED <<answer, ckpt>> /\ jrn'.turn = jrn.turn /\ pc' \notin {"model", "ran"}
      BY <1>2 DEF Stop, Continue, Bind, Reply, Finish, TypeOK
    <2> QED
      BY <1>1, <2>1
  <1>3. CASE JournalAsk
    <2>1. Recorded = {}
      BY <1>3, NoRecorderYet DEF JournalAsk
    <2>2. Recorded' = {} /\ pc' = "send"
      BY <1>3, <2>1 DEF JournalAsk, Recorded, Ask
    <2> QED
      BY <2>2 DEF LastTurnInv
  <1>4. CASE Send
    <2>1. \A k \in 1..Len(ckpt) : Ask(ckpt[k].slot)' = Ask(ckpt[k].slot)
      BY <1>4, Answers DEF Send, SlotInv
    <2>2. UNCHANGED <<ckpt, jrn>> /\ pc' = "bind"
      BY <1>4 DEF Send
    <2>3. Recorded' = Recorded
      BY <2>1, <2>2 DEF Recorded
    <2> QED
      BY <2>2, <2>3 DEF LastTurnInv
  <1>5. CASE \E e \in Entries : /\ ckpt' = Append(ckpt, e) /\ e.result = "none"
                               /\ e.slot[1] = jrn.turn /\ jrn'.turn = jrn.turn
                               /\ UNCHANGED answer /\ pc' = "tool"
    <2>1. PICK e \in Entries : /\ ckpt' = Append(ckpt, e) /\ e.result = "none"
                               /\ e.slot[1] = jrn.turn /\ jrn'.turn = jrn.turn
                               /\ UNCHANGED answer /\ pc' = "tool"
      BY <1>5
    <2>2. /\ Len(ckpt') = Len(ckpt) + 1 /\ ckpt'[Len(ckpt')] = e
          /\ \A k \in 1..Len(ckpt) : ckpt'[k] = ckpt[k]
      BY <1>0, <2>1, Appended
    <2>3. ASSUME NEW k \in Recorded'
          PROVE  ckpt'[k].slot[1] = jrn'.turn /\ ckpt'[k].result # "error"
      <3>1. CASE k \in 1..Len(ckpt)
        <4>1. k \in Recorded
          BY <2>1, <2>2, <2>3, <3>1 DEF Recorded, Ask
        <4> QED
          BY <2>1, <2>2, <3>1, <4>1 DEF LastTurnInv
      <3>2. CASE k = Len(ckpt')
        BY <2>1, <2>2, <3>2
      <3> QED
        BY <1>0, <2>2, <2>3, <3>1, <3>2 DEF Recorded
    <2> QED
      BY <2>1, <2>3 DEF LastTurnInv
  <1>6. CASE Emit
    BY <1>5, <1>6, GivenCall DEF Emit, Entries, Results, TurnInv
  <1>7. CASE RunTool
    <2>1. UNCHANGED <<answer, ckpt, jrn>> /\ pc' = "ran" /\ result' # "none"
      BY <1>7 DEF RunTool
    <2>2. Recorded' = Recorded
      BY <2>1 DEF Recorded, Ask
    <2> QED
      BY <2>1, <2>2 DEF LastTurnInv
  <1>8. CASE SaveResult
    <2>1. /\ ckpt # <<>> /\ result \in Results /\ result # "none" /\ UNCHANGED <<answer, jrn>>
          /\ ckpt' = [ckpt EXCEPT ![Len(ckpt)].result = result]
          /\ pc = "ran" /\ pc' = "model"
          /\ (Kind[Ask(Tail1.slot)] = Recorder => result = "ok")
      BY <1>8 DEF SaveResult, TurnInv, TypeOK, Results, LastTurnInv, RecorderInv
    <2>2. /\ Len(ckpt') = Len(ckpt) /\ ckpt' # <<>>
          /\ \A k \in 1..Len(ckpt) : ckpt'[k].slot = ckpt[k].slot
          /\ \A k \in 1..Len(ckpt) : k # Len(ckpt) => ckpt'[k] = ckpt[k]
          /\ ckpt'[Len(ckpt)].result = result
          /\ Tail1'.slot = Tail1.slot /\ Tail1'.result = result
      <3>1. TypeOK
        OBVIOUS
      <3> QED
        BY <2>1, <3>1, Saved
    <2>3. Recorded' = Recorded
      BY <2>1, <2>2 DEF Recorded, Ask
    <2>4. ASSUME NEW k \in Recorded
          PROVE  ckpt'[k].slot[1] = jrn'.turn /\ ckpt'[k].result # "error"
      <3>1. k \in 1..Len(ckpt) /\ Kind[Ask(ckpt[k].slot)] = Recorder
        BY DEF Recorded
      <3>2. ckpt'[k].slot[1] = jrn'.turn
        BY <2>1, <2>2, <3>1 DEF LastTurnInv
      <3>3. CASE k = Len(ckpt)
        BY <2>1, <2>2, <3>1, <3>2, <3>3 DEF Tail1
      <3>4. CASE k # Len(ckpt)
        BY <2>2, <3>1, <3>2, <3>4 DEF LastTurnInv
      <3> QED
        BY <3>3, <3>4
    <2> QED
      BY <2>1, <2>2, <2>3, <2>4 DEF LastTurnInv, Answered
  <1>9. CASE ResumeSingle \/ ResumeBatch
    <2>1. /\ jrn'.turn = jrn.turn /\ UNCHANGED answer
          /\ [slot |-> <<jrn.turn, 1>>, result |-> "none"] \in Entries
      BY <1>9, Readable, FirstCall DEF ResumeSingle, ResumeBatch, TypeOK, Entries, Results
    <2>2. CASE ckpt' = Append(ckpt, [slot |-> <<jrn.turn, 1>>, result |-> "none"]) /\ pc' = "tool"
      BY <1>5, <2>1, <2>2
    <2>3. CASE Reached # {} /\ UNCHANGED ckpt /\ pc' = (IF Answered THEN "model" ELSE "tool")
      <3>1. Recorded' = Recorded /\ Answered' = Answered
        BY <2>1, <2>3 DEF Recorded, Ask, Answered, Tail1
      <3> QED
        BY <2>1, <2>3, <3>1 DEF LastTurnInv
    <2> QED
      BY <1>9, <2>2, <2>3 DEF ResumeSingle, ResumeBatch
  <1>10. CASE UNCHANGED vars
    BY <1>10 DEF vars, LastTurnInv, Recorded, Ask, Answered, Tail1
  <1> QED
    BY <1>2, <1>3, <1>4, <1>6, <1>7, <1>8, <1>9, <1>10 DEF Next, Down

\* The strengthened invariant: at most one turn has a recorder call, the last.
THEOREM OnceInvariance == Spec => []OnceInv
  <1>1. Init => LastTurnInv
    BY DEF Init, LastTurnInv, Recorded
  <1>2. OnceInv /\ [Next]_vars => LoopInv'
    BY LoopAssumption, TypeStep, JournalStep, CheckpointStep, TurnStep, RunStep, RecorderStep
       DEF LoopInv, OnceInv
  <1>3. OnceInv /\ [Next]_vars => OnceInv'
    BY <1>2, LoopAssumption, LastTurnStep DEF OnceInv
  <1>4. Init => OnceInv
    BY <1>1, LoopAssumption, InitInv DEF OnceInv
  <1> QED
    BY <1>3, <1>4, PTL DEF Spec

\* A batch's recorder call is accepted as the operation's result, whatever stopped
\* and resumed the batch (_batch_resume_message, _recorded_payload).
THEOREM BatchAccepted == Spec => []BatchResultAccepted
  <1>1. ASSUME OnceInv, pc = "model", RecorderCompleted, Batch(Tail1.slot)
        PROVE  ResultAccepted
    <2>1. /\ ckpt # <<>> /\ Kind[Ask(Tail1.slot)] = Recorder /\ Tail1.slot[1] = jrn.turn
          /\ Len(ckpt) \in 1..Len(ckpt)
      BY <1>1 DEF RecorderCompleted, Succeeded, OnceInv, LoopInv, TurnInv, TypeOK
    <2>2. \A k \in Recorded : k = Len(ckpt)
      BY <1>1, <2>1, LoopAssumption, LoneRecorder
    <2>3. Recorded = {Len(ckpt)}
      BY <2>1, <2>2 DEF Recorded, Tail1
    <2> QED
      BY <2>3, FS_Singleton DEF ResultAccepted
  <1>2. OnceInv => BatchResultAccepted
    BY <1>1 DEF BatchResultAccepted
  <1> QED
    BY <1>2, OnceInvariance, PTL
===============================================================================
