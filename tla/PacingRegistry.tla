--------------------------- MODULE PacingRegistry ---------------------------
(***************************************************************************)
(* The in-process pacing of opencli_web_model.py: a registry of shared     *)
(* pacing states, one per transport, bounded and evicted least recently    *)
(* used first, and the gate of one state that threads pass one at a time   *)
(* (_shared_pacing_state, _begin_web_turn, _finish_web_turn).              *)
(*                                                                         *)
(* Abstractions: a key is a model value for executable, profile and site   *)
(* session. A pacing state is an object with an identity, since the threads*)
(* keep a reference to it: what they wait on may differ from what the      *)
(* registry holds. Each block under _PACING_STATES_LOCK and each block     *)
(* under the state's condition is one step. The eligible time is computed  *)
(* from stamps nobody changes while the state is in flight, so waiting for *)
(* it is waiting for the ages. The clock never runs backwards here.        *)
(***************************************************************************)
EXTENDS Pacing

VARIABLES
  entry,        \* the registry: the state of a key
  older,        \* its order: <<j, k>> when j was used less recently than k
  state,        \* the pacing states
  pc,           \* where a thread is in _inprocess_send_and_reconcile
  key,          \* the key it sends with
  mine,         \* the state it borrowed
  rounds,       \* attempts of a thread so far
  startAge,   \* history: time since a send of the key started
  answerAge   \* history: time since an answer of the key ended

registryVars == <<entry, older, state, pc, key, mine, rounds, startAge, answerAge>>

\* A state that paces nobody yet: without stamps, that is, with ages at the limits.
Fresh(borrowers) ==
  [inFlight |-> FALSE, borrowers |-> borrowers, sent |-> Interval, answered |-> Settle]

RegistryInit ==
  /\ entry = [k \in Keys |-> None]
  /\ older = {}
  /\ state = [o \in Objects |-> Fresh(0)]
  /\ pc = [t \in Threads |-> "out"]
  /\ key = [t \in Threads |-> None]
  /\ mine = [t \in Threads |-> None]
  /\ rounds = [t \in Threads |-> 0]
  /\ startAge = [k \in Keys |-> Interval]
  /\ answerAge = [k \in Keys |-> Settle]

-----------------------------------------------------------------------------
Registered == {k \in Keys : entry[k] # None}

\* Borrowed or not, whatever a thread still refers to.
Referenced == {entry[k] : k \in Keys} \union {mine[t] : t \in Threads}

Cooled(s) == s.sent >= Interval /\ s.answered >= Settle

\* Fault: the cooling of an idle state is not looked at.
IdleHot(states, k) == ~states[entry[k]].inFlight /\ states[entry[k]].borrowers = 0

\* Fault: a state that is not in flight is idle, although somebody refers to it.
IdleUnborrowed(states, k) == ~states[entry[k]].inFlight /\ Cooled(states[entry[k]])

Idle(states, k) ==
  /\ ~states[entry[k]].inFlight
  /\ states[entry[k]].borrowers = 0
  /\ Cooled(states[entry[k]])

\* The keys _evict_idle_pacing_states drops from a registry that would hold
\* keys: idle ones other than keep, in order, until the limit is met.
Evicted(states, keys, keep) ==
  LET idle == {k \in keys \ {keep} : Idle(states, k)}
  IN  {k \in idle :
         Cardinality({j \in idle : <<j, k>> \in older}) < Cardinality(keys) - MaxEntries}

Without(keys) == [k \in Keys |-> IF k \in keys THEN None ELSE entry[k]]

\* move_to_end(k), or k as the last entry.
Used(k) ==
  {p \in older : p[1] # k} \union {<<j, k>> : j \in Registered \ {k}}

Among(order, keys) == order \intersect (keys \X keys)

Borrow(t, k, o, states, dropped) ==
  /\ state' = states
  /\ entry' = [Without(dropped) EXCEPT ![k] = o]
  /\ older' = Among(Used(k), (Registered \union {k}) \ dropped)
  /\ key' = [key EXCEPT ![t] = k]
  /\ mine' = [mine EXCEPT ![t] = o]
  /\ pc' = [pc EXCEPT ![t] = "enter"]
  /\ UNCHANGED <<rounds, startAge, answerAge>>

\* _shared_pacing_state(borrow=True) of a key that is registered.
BorrowKnown(t, k) ==
  /\ pc[t] = "out"
  /\ rounds[t] < MaxRounds[t]
  /\ entry[k] # None
  /\ LET states == [state EXCEPT ![entry[k]].borrowers = @ + 1]
     IN  Borrow(t, k, entry[k], states, Evicted(states, Registered, k))

\* Fault: the registry takes a new entry when it is full of busy ones.
BorrowNewUnbounded(t, k) ==
  /\ pc[t] = "out"
  /\ rounds[t] < MaxRounds[t]
  /\ entry[k] = None
  /\ LET o == CHOOSE o \in Objects : o \notin Referenced
     IN  /\ o \in Objects \ Referenced
         /\ Borrow(t, k, o, [state EXCEPT ![o] = Fresh(1)],
                   Evicted(state, Registered \union {k}, k))

\* The same for a key that has no entry, while there is room.
BorrowNew(t, k) ==
  /\ pc[t] = "out"
  /\ rounds[t] < MaxRounds[t]
  /\ entry[k] = None
  /\ LET o == CHOOSE o \in Objects : o \notin Referenced
         dropped == Evicted(state, Registered \union {k}, k)
     IN  /\ o \in Objects \ Referenced
         /\ Cardinality((Registered \union {k}) \ dropped) <= MaxEntries
         /\ Borrow(t, k, o, [state EXCEPT ![o] = Fresh(1)], dropped)

\* OPENCLI_WEB_PACING_REGISTRY_EXHAUSTED: the new entry is taken back.
Exhausted(t, k) ==
  /\ pc[t] = "out"
  /\ rounds[t] < MaxRounds[t]
  /\ entry[k] = None
  /\ LET dropped == Evicted(state, Registered \union {k}, k)
     IN  /\ Cardinality((Registered \union {k}) \ dropped) > MaxEntries
         /\ entry' = Without(dropped)
         /\ older' = Among(older, Registered \ dropped)
  /\ rounds' = [rounds EXCEPT ![t] = @ + 1]
  /\ UNCHANGED <<state, pc, key, mine, startAge, answerAge>>

-----------------------------------------------------------------------------
\* notify_all on the condition of o while thread t goes to "release".
ReleasedBy(t, o) ==
  [u \in Threads |-> IF u = t THEN "release"
                     ELSE IF pc[u] = "wait" /\ mine[u] = o THEN "enter"
                     ELSE pc[u]]

\* Somebody is sending: condition.wait().
EnterBusy(t) ==
  /\ pc[t] = "enter"
  /\ state[mine[t]].inFlight
  /\ pc' = [pc EXCEPT ![t] = "wait"]
  /\ UNCHANGED <<entry, older, state, key, mine, rounds, startAge, answerAge>>

Enter(t) ==
  /\ pc[t] = "enter"
  /\ ~state[mine[t]].inFlight
  /\ state' = [state EXCEPT ![mine[t]].inFlight = TRUE]
  /\ pc' = [pc EXCEPT ![t] = "sleep"]
  /\ UNCHANGED <<entry, older, key, mine, rounds, startAge, answerAge>>

\* The eligible time has come; last_send_started is set and the send begins.
Stamp(t) ==
  /\ pc[t] = "sleep"
  /\ Cooled(state[mine[t]])
  /\ state' = [state EXCEPT ![mine[t]].sent = 0]
  /\ startAge' = [startAge EXCEPT ![key[t]] = 0]
  /\ pc' = [pc EXCEPT ![t] = "send"]
  /\ UNCHANGED <<entry, older, key, mine, rounds, answerAge>>

\* Fault: the exception handler gives the borrowed state back at once, and it
\* is given back again on the way out.
InterruptReleasing(t) ==
  /\ pc[t] \in {"wait", "sleep"}
  /\ state' = [state EXCEPT ![mine[t]].inFlight = FALSE, ![mine[t]].borrowers = @ - 1]
  /\ pc' = ReleasedBy(t, mine[t])
  /\ UNCHANGED <<entry, older, key, mine, rounds, startAge, answerAge>>

\* An exception ends the wait or the sleep; only the owner clears in_flight.
Interrupt(t) ==
  /\ pc[t] \in {"wait", "sleep"}
  /\ IF pc[t] = "sleep"
       THEN /\ state' = [state EXCEPT ![mine[t]].inFlight = FALSE]
            /\ pc' = ReleasedBy(t, mine[t])
       ELSE /\ pc' = [pc EXCEPT ![t] = "release"]
            /\ UNCHANGED state
  /\ UNCHANGED <<entry, older, key, mine, rounds, startAge, answerAge>>

\* Fault: the waiting threads are not notified.
FinishSilent(t) ==
  /\ pc[t] = "send"
  /\ state' = [state EXCEPT ![mine[t]].inFlight = FALSE]
  /\ pc' = [pc EXCEPT ![t] = "release"]
  /\ UNCHANGED <<entry, older, key, mine, rounds, startAge, answerAge>>

\* Fault: the end of a response is not recorded.
FinishUnrecorded(t) ==
  /\ pc[t] = "send"
  /\ state' = [state EXCEPT ![mine[t]].inFlight = FALSE]
  /\ answerAge' = [answerAge EXCEPT ![key[t]] = 0]
  /\ pc' = ReleasedBy(t, mine[t])
  /\ UNCHANGED <<entry, older, key, mine, rounds, startAge>>

\* _finish_web_turn up to the release: a response was read to its end (or the
\* send timed out), or the send failed.
FinishTurn(t) ==
  /\ pc[t] = "send"
  /\ \/ /\ state' = [state EXCEPT ![mine[t]].inFlight = FALSE, ![mine[t]].answered = 0]
        /\ answerAge' = [answerAge EXCEPT ![key[t]] = 0]
     \/ /\ state' = [state EXCEPT ![mine[t]].inFlight = FALSE]
        /\ UNCHANGED answerAge
  /\ pc' = ReleasedBy(t, mine[t])
  /\ UNCHANGED <<entry, older, key, mine, rounds, startAge>>

\* _release_shared_pacing_state.
Release(t) ==
  /\ pc[t] = "release"
  /\ state' = [state EXCEPT ![mine[t]].borrowers = @ - 1]
  /\ LET dropped == Evicted(state', Registered, None)
     IN  /\ entry' = Without(dropped)
         /\ older' = Among(older, Registered \ dropped)
  /\ pc' = [pc EXCEPT ![t] = "out"]
  /\ key' = [key EXCEPT ![t] = None]
  /\ mine' = [mine EXCEPT ![t] = None]
  /\ rounds' = [rounds EXCEPT ![t] = @ + 1]
  /\ UNCHANGED <<startAge, answerAge>>

RegistryTick ==
  /\ state' = [o \in Objects |->
                 [state[o] EXCEPT !.sent = Older(@, Interval), !.answered = Older(@, Settle)]]
  /\ startAge' = [k \in Keys |-> Older(startAge[k], Interval)]
  /\ answerAge' = [k \in Keys |-> Older(answerAge[k], Settle)]
  /\ UNCHANGED <<entry, older, pc, key, mine, rounds>>

Attempt(t) ==
  \E k \in Keys : BorrowKnown(t, k) \/ BorrowNew(t, k) \/ Exhausted(t, k)

ThreadStep(t) == EnterBusy(t) \/ Enter(t) \/ Stamp(t) \/ FinishTurn(t) \/ Release(t)

RegistryNext == RegistryTick \/ \E t \in Threads : Attempt(t) \/ ThreadStep(t) \/ Interrupt(t)

RegistrySpec == RegistryInit /\ [][RegistryNext]_registryVars

-----------------------------------------------------------------------------
State == [inFlight : BOOLEAN, borrowers : Nat, sent : 0..Interval, answered : 0..Settle]

RegistryTypeOK ==
  /\ entry \in [Keys -> Objects \union {None}]
  /\ older \subseteq Keys \X Keys
  /\ state \in [Objects -> State]
  /\ pc \in [Threads -> {"out", "enter", "wait", "sleep", "send", "release"}]
  /\ key \in [Threads -> Keys \union {None}]
  /\ mine \in [Threads -> Objects \union {None}]
  /\ rounds \in [Threads -> Nat]
  /\ startAge \in [Keys -> 0..Interval]
  /\ answerAge \in [Keys -> 0..Settle]

\* The registry never holds more than its limit, although an entry is made
\* before room is, and entries in use or not yet cooled stay.
RegistryBounded == Cardinality(Registered) <= MaxEntries

\* The state a thread waits on, or sends under, is the registry's state of its
\* key: two threads of one transport never pace on two states.
SharedState == \A t \in Threads : pc[t] # "out" => entry[key[t]] = mine[t]

PacedThreads == INSTANCE PacedSends WITH
  Transports <- Keys,
  sinceStart <- startAge,
  sinceAnswer <- answerAge,
  sending <- {k \in Keys : \E t \in Threads : pc[t] = "send" /\ key[t] = k}

\* The registry paces: eviction and re-creation of states included, sends of a
\* transport are exclusive, Interval apart, and Settle after an answer.
RegistryImplements == PacedThreads!Spec

\* Nobody waits for ever: every attempt ends, by a send, an error or a refusal.
AttemptsEnd == <>[](\A t \in Threads : pc[t] = "out")
=============================================================================
