-------------------------- MODULE SendPacingProofs --------------------------
(***************************************************************************)
(* The durable pacing of any number of processes keeps the sends of a      *)
(* transport apart, for any interval, settling time and clock changes.     *)
(***************************************************************************)
EXTENDS SendPacing, PacingRegistryProofs

\* Whoever is past the lock holds it.
HolderInv == \A p \in Processes : at[p] # "idle" => holder = p

\* Whoever sends has left its stamp.
SentInv == \A p \in Processes : at[p] = "send" => file # NoFile

\* A stamp never claims more age than the event has by real time.
FileInv ==
  /\ file = NoFile => sinceStart = Interval /\ sinceAnswer = Settle
  /\ file # NoFile =>
       /\ sinceStart = Interval \/ sinceStart >= file.sent
       /\ sinceAnswer = Settle \/ sinceAnswer >= file.answered

\* What is left of a sleep covers what is missing.
SleepInv ==
  \A p \in Processes : at[p] = "sleep" =>
    sinceStart + left[p] >= Interval /\ sinceAnswer + left[p] >= Settle

DurableInv == TypeOK /\ HolderInv /\ SentInv /\ FileInv /\ SleepInv
-------------------------------------------------------------------------------
\* The ages a stamp can take are integers, and none is larger after the clock is
\* set back.
LEMMA Ages ==
  ASSUME PacingAssumption, DurableAssumption, NEW age \in Int
  PROVE  /\ Old \in Nat
         /\ Older(age, Old) \in Int /\ Older(age, Old) <= age + 1
         /\ \A d \in 1..MaxBack : \A a \in Earlier(age, d) : a \in Int /\ a <= age
  BY DEF PacingAssumption, DurableAssumption, Old, Older, Earlier

\* The time to sleep is a natural number that covers both limits.
LEMMA WaitCovers ==
  ASSUME PacingAssumption, TypeOK
  PROVE  /\ Wait(file) \in Nat
         /\ file # NoFile => file.sent + Wait(file) >= Interval
                             /\ file.answered + Wait(file) >= Settle
  BY DEF PacingAssumption, TypeOK, File, Wait, Larger

\* The inductive invariant holds initially.
LEMMA DurableInitInv ==
  ASSUME PacingAssumption, DurableAssumption
  PROVE  Init => DurableInv
  BY DEF PacingAssumption, Init, DurableInv, TypeOK, HolderInv, SentInv, FileInv, SleepInv

\* Every step keeps the types.
LEMMA TypeStep ==
  ASSUME PacingAssumption, DurableAssumption, TypeOK, SentInv, [Next]_durableVars
  PROVE  TypeOK'
  <1> USE DEF TypeOK, PacingAssumption
  <1>1. ASSUME NEW p \in Processes, Acquire(p) PROVE TypeOK'
    BY <1>1 DEF Acquire
  <1>2. ASSUME NEW p \in Processes, Refuse(p) \/ Fail(p) \/ Stop(p) PROVE TypeOK'
    BY <1>2 DEF Refuse, Fail, Stop, Unlock
  <1>3. ASSUME NEW p \in Processes, Read(p) PROVE TypeOK'
    BY <1>3, WaitCovers DEF Read
  <1>4. ASSUME NEW p \in Processes, Record(p) PROVE TypeOK'
    <2>1. file' \in File
      BY <1>4, Ages DEF Record, WriteState, File
    <2> QED
      BY <1>4, <2>1 DEF Record
  <1>5. ASSUME NEW p \in Processes, Finish(p) PROVE TypeOK'
    <2>1. file' \in File
      BY <1>5 DEF Finish, WriteState, File, SentInv
    <2> QED
      BY <1>5, <2>1 DEF Finish, Unlock
  <1>6. CASE Tick
    <2>1. file' \in File \union {NoFile}
      BY <1>6, Ages DEF Tick, File
    <2>2. sinceStart' \in 0..Interval /\ sinceAnswer' \in 0..Settle
      BY <1>6 DEF Tick, Older
    <2> QED
      BY <1>6, <2>1, <2>2 DEF Tick
  <1>7. CASE SetBack
    <2>1. file' \in File
      BY <1>7, Ages DEF SetBack, File
    <2> QED
      BY <1>7, <2>1 DEF SetBack
  <1>8. CASE UNCHANGED durableVars
    BY <1>8 DEF durableVars
  <1> QED
    BY <1>1, <1>2, <1>3, <1>4, <1>5, <1>6, <1>7, <1>8 DEF Next, Proceed

\* Every step keeps the lock with whoever is past it, and its stamp on disk.
LEMMA LockStep ==
  ASSUME DurableAssumption, TypeOK, HolderInv, SentInv, [Next]_durableVars
  PROVE  HolderInv' /\ SentInv'
  <1> USE DEF TypeOK, HolderInv, SentInv
  <1>1. ASSUME NEW p \in Processes, Acquire(p) PROVE HolderInv' /\ SentInv'
    BY <1>1 DEF Acquire, DurableAssumption
  <1>2. ASSUME NEW p \in Processes, Refuse(p) \/ Fail(p) \/ Stop(p) PROVE HolderInv' /\ SentInv'
    BY <1>2 DEF Refuse, Fail, Stop, Unlock
  <1>3. ASSUME NEW p \in Processes, Read(p) PROVE HolderInv' /\ SentInv'
    BY <1>3 DEF Read
  <1>4. ASSUME NEW p \in Processes, Record(p) \/ Finish(p) PROVE HolderInv' /\ SentInv'
    <2>1. file' # NoFile
      <3>1. file' \in File
        <4>1. CASE Record(p)
          BY <4>1, Ages DEF Record, WriteState, File, Old, DurableAssumption
        <4>2. CASE Finish(p)
          BY <4>2 DEF Finish, WriteState, File
        <4> QED
          BY <1>4, <4>1, <4>2
      <3> QED
        BY <3>1 DEF File, DurableAssumption
    <2> QED
      BY <1>4, <2>1 DEF Record, Finish, Unlock
  <1>5. CASE Tick \/ SetBack
    <2>1. file # NoFile => file' # NoFile
      <3>1. CASE Tick /\ file # NoFile
        BY <3>1, Ages DEF Tick, File, DurableAssumption, Older, Old
      <3>2. CASE SetBack
        BY <3>2, Ages DEF SetBack, File, DurableAssumption, Earlier, Old
      <3> QED
        BY <1>5, <3>1, <3>2
    <2> QED
      BY <1>5, <2>1 DEF Tick, SetBack
  <1>6. CASE UNCHANGED durableVars
    BY <1>6 DEF durableVars
  <1> QED
    BY <1>1, <1>2, <1>3, <1>4, <1>5, <1>6 DEF Next, Proceed

\* Every step keeps the stamps behind real time: the clock is only set back, and
\* time passes for both.
LEMMA FileStep ==
  ASSUME PacingAssumption, DurableAssumption, DurableInv, [Next]_durableVars
  PROVE  FileInv'
  <1> USE DEF DurableInv, TypeOK, FileInv, PacingAssumption
  <1>1. ASSUME NEW p \in Processes, Acquire(p) \/ Read(p) PROVE FileInv'
    BY <1>1 DEF Acquire, Read
  <1>2. ASSUME NEW p \in Processes, Refuse(p) \/ Fail(p) \/ Stop(p) PROVE FileInv'
    BY <1>2 DEF Refuse, Fail, Stop, Unlock
  <1>3. ASSUME NEW p \in Processes, Record(p) PROVE FileInv'
    <2>1. file' = [sent |-> 0, answered |-> IF file = NoFile THEN Old ELSE file.answered]
      BY <1>3 DEF Record, WriteState
    <2>2. file' # NoFile
      BY <1>3, LockStep DEF SentInv, HolderInv, Record, Next, Proceed
    <2> QED
      BY <1>3, <2>1, <2>2 DEF Record
  <1>4. ASSUME NEW p \in Processes, Finish(p) PROVE FileInv'
    <2>1. file # NoFile /\ file' = [sent |-> file.sent, answered |-> 0]
      BY <1>4 DEF Finish, WriteState, SentInv
    <2>2. file' # NoFile
      BY <2>1 DEF File, DurableAssumption
    <2> QED
      BY <1>4, <2>1, <2>2 DEF Finish
  <1>5. CASE Tick
    <2>1. CASE file = NoFile
      BY <1>5, <2>1 DEF Tick, Older
    <2>2. CASE file # NoFile
      <3>1. file'.sent <= file.sent + 1 /\ file'.sent \in Int
        BY <1>5, <2>2, Ages DEF Tick, File
      <3>2. file'.answered <= file.answered + 1 /\ file'.answered \in Int
        BY <1>5, <2>2, Ages DEF Tick, File
      <3>3. file' # NoFile
        BY <1>5, <2>2, Ages DEF Tick, File, DurableAssumption
      <3> QED
        BY <1>5, <2>2, <3>1, <3>2, <3>3 DEF Tick, Older, File
    <2> QED
      BY <2>1, <2>2
  <1>6. CASE SetBack
    <2>1. /\ file'.sent \in Int /\ file'.sent <= file.sent
          /\ file'.answered \in Int /\ file'.answered <= file.answered
          /\ file' # NoFile
      BY <1>6, Ages DEF SetBack, File, DurableAssumption
    <2> QED
      BY <1>6, <2>1 DEF SetBack, File
  <1>7. CASE UNCHANGED durableVars
    BY <1>7 DEF durableVars
  <1> QED
    BY <1>1, <1>2, <1>3, <1>4, <1>5, <1>6, <1>7 DEF Next, Proceed

\* Every step keeps a sleep long enough.
LEMMA SleepStep ==
  ASSUME PacingAssumption, DurableAssumption, DurableInv, [Next]_durableVars
  PROVE  SleepInv'
  <1> USE DEF DurableInv, TypeOK, SleepInv, PacingAssumption
  <1>1. ASSUME NEW p \in Processes, Acquire(p) PROVE SleepInv'
    BY <1>1 DEF Acquire
  <1>2. ASSUME NEW p \in Processes, Refuse(p) \/ Fail(p) \/ Stop(p) PROVE SleepInv'
    BY <1>2 DEF Refuse, Fail, Stop, Unlock
  <1>3. ASSUME NEW p \in Processes, Read(p) PROVE SleepInv'
    <2>1. Wait(file) \in Nat
      BY WaitCovers
    <2>2. sinceStart + Wait(file) >= Interval /\ sinceAnswer + Wait(file) >= Settle
      BY <2>1, WaitCovers DEF FileInv, File
    <2> QED
      BY <1>3, <2>1, <2>2 DEF Read
  <1>4. ASSUME NEW p \in Processes, Record(p) \/ Finish(p) PROVE SleepInv'
    <2>1. \A q \in Processes : at'[q] # "sleep"
      BY <1>4 DEF Record, Finish, Unlock, HolderInv
    <2> QED
      BY <2>1
  <1>5. CASE Tick
    BY <1>5 DEF Tick, Older
  <1>6. CASE SetBack
    BY <1>6 DEF SetBack
  <1>7. CASE UNCHANGED durableVars
    BY <1>7 DEF durableVars
  <1> QED
    BY <1>1, <1>2, <1>3, <1>4, <1>5, <1>6, <1>7 DEF Next, Proceed

\* The lock, the stamps and the sleeps, in every reachable state.
THEOREM DurableInvariance ==
  ASSUME PacingAssumption, DurableAssumption
  PROVE  Spec => []DurableInv
  <1>1. DurableInv /\ [Next]_durableVars => DurableInv'
    BY TypeStep, LockStep, FileStep, SleepStep DEF DurableInv
  <1> QED
    BY <1>1, DurableInitInv, PTL DEF Spec

\* TypeOK: the lock file, the state file and the sleeps are well typed.
THEOREM DurableTypeCorrect ==
  ASSUME PacingAssumption, DurableAssumption
  PROVE  Spec => []TypeOK
  <1>1. DurableInv => TypeOK
    BY DEF DurableInv
  <1> QED
    BY <1>1, DurableInvariance, PTL

\* Implements, one step: recording the send time is the start of a send, finishing
\* and failing are its end, the passing of time is itself and the rest a stutter.
LEMMA DurablePacedStep ==
  ASSUME PacingAssumption, DurableAssumption, DurableInv, [Next]_durableVars
  PROVE  [Paced!Next]_(Paced!vars)
  <1> USE DEF DurableInv, TypeOK, PacingAssumption
  <1> DEFINE sending == IF \E p \in Processes : at[p] = "send" THEN {NoFile} ELSE {}
  <1>1. ASSUME NEW p \in Processes, Acquire(p) \/ Read(p) \/ Refuse(p) \/ Stop(p)
        PROVE UNCHANGED Paced!vars
    <2>1. \A q \in Processes : at[q] = "send" <=> at'[q] = "send"
      BY <1>1 DEF Acquire, Read, Refuse, Stop, Unlock
    <2>2. UNCHANGED <<sinceStart, sinceAnswer>>
      BY <1>1 DEF Acquire, Read, Refuse, Stop, Unlock
    <2> QED
      BY <2>1, <2>2 DEF Paced!vars
  <1>2. ASSUME NEW p \in Processes, Record(p) PROVE Paced!Start(NoFile)
    <2>1. sending = {}
      BY <1>2 DEF Record, HolderInv
    <2>2. sinceStart >= Interval /\ sinceAnswer >= Settle
      BY <1>2 DEF Record, SleepInv
    <2>3. sending' = {NoFile}
      BY <1>2 DEF Record
    <2>4. [k \in {NoFile} |-> sinceStart]' = [[k \in {NoFile} |-> sinceStart] EXCEPT ![NoFile] = 0]
      BY <1>2 DEF Record
    <2> QED
      BY <1>2, <2>1, <2>2, <2>3, <2>4 DEF Record, Paced!Start
  <1>3. ASSUME NEW p \in Processes, Finish(p) \/ Fail(p) PROVE Paced!Stop(NoFile)
    <2>1. sending = {NoFile} /\ sending' = {}
      BY <1>3 DEF Finish, Fail, Unlock, HolderInv
    <2>2. UNCHANGED sinceStart /\ sinceAnswer' \in {sinceAnswer, 0}
      BY <1>3 DEF Finish, Fail
    <2>3. [k \in {NoFile} |-> sinceAnswer]' \in
            {[k \in {NoFile} |-> sinceAnswer],
             [[k \in {NoFile} |-> sinceAnswer] EXCEPT ![NoFile] = 0]}
      BY <2>2
    <2> QED
      BY <2>1, <2>2, <2>3 DEF Paced!Stop
  <1>4. CASE Tick
    <2>1. UNCHANGED sending
      BY <1>4 DEF Tick
    <2> QED
      BY <1>4, <2>1 DEF Tick, Older, Paced!Next, Paced!Tick
  <1>5. CASE SetBack \/ UNCHANGED durableVars
    BY <1>5 DEF SetBack, durableVars, Paced!vars
  <1> QED
    BY <1>1, <1>2, <1>3, <1>4, <1>5 DEF Next, Proceed, Paced!Next

\* Implements: by real time the sends of all processes are exclusive, Interval
\* apart, and Settle after a recorded answer, whoever dies when and however often
\* the clock is set back.
THEOREM DurableRefinement ==
  ASSUME PacingAssumption, DurableAssumption
  PROVE  Spec => Implements
  <1>1. Init => Paced!Init
    BY DEF Init, Paced!Init
  <1>2. DurableInv /\ [Next]_durableVars => [Paced!Next]_(Paced!vars)
    BY DurablePacedStep
  <1> QED
    BY <1>1, <1>2, DurableInvariance, PTL DEF Spec, Implements, Paced!Spec
-----------------------------------------------------------------------------
\* A behaviour of the sends is one of the durable backend, or it leaves that
\* backend alone.
LEMMA DurablePart == SendSpec => Spec
  <1>1. SendInit => Init
    BY DEF SendInit
  <1>2. [SendNext]_sendVars => [Next]_durableVars
    BY DEF SendNext, DurableNext, InProcessNext, sendVars
  <1> QED
    BY <1>1, <1>2, PTL DEF SendSpec, Spec

\* The same for the registry of a process.
LEMMA RegistryPart == SendSpec => RegistrySpec
  <1>1. SendInit => RegistryInit
    BY DEF SendInit
  <1>2. [SendNext]_sendVars => [RegistryNext]_registryVars
    BY DEF SendNext, DurableNext, InProcessNext, sendVars
  <1> QED
    BY <1>1, <1>2, PTL DEF SendSpec, RegistrySpec

\* _send_and_reconcile: whichever backend a send goes through, its transport is
\* paced by real time, for any number of threads, processes and transports.
THEOREM SendsPaced == SendSpec => Implements /\ RegistryImplements
  BY DurablePart, RegistryPart, DurableRefinement, RegistryRefinement,
     PacingAssumption, DurableAssumption, PTL

\* Beside any use of the durable backend the registry keeps its limit and one state
\* for the threads of a transport, and both backends their types.
THEOREM SendsSafe ==
  SendSpec => [](TypeOK /\ RegistryTypeOK /\ RegistryBounded /\ SharedState)
  BY DurablePart, RegistryPart, DurableTypeCorrect, RegistryTypeCorrect, Limit, Shared,
     PacingAssumption, DurableAssumption, PTL
=============================================================================
