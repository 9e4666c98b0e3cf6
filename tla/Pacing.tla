------------------------------- MODULE Pacing -------------------------------
(***************************************************************************)
(* The constants of send pacing and the age of a time stamp. A stamp is    *)
(* kept as its age, and an age counts only up to the limit it is compared  *)
(* with; "no stamp" is an age at its limit, since the code makes nobody    *)
(* wait in either case.                                                    *)
(***************************************************************************)
EXTENDS Integers, FiniteSets

CONSTANTS
  Interval,     \* _MIN_WEB_SEND_INTERVAL_SECONDS, 15
  Settle,       \* _POST_RESPONSE_SETTLE_SECONDS, 3
  \* the registry of one process
  Threads,
  Keys,         \* transports: executable, profile and site session
  Objects,      \* identities of pacing states, enough of them never to run out
  None,         \* no object, no key
  MaxEntries,   \* _MAX_PACING_SESSION_KEYS, 64
  MaxRounds,    \* bound: the sends each thread attempts
  \* the files shared by processes
  Processes,
  Nobody,
  NoFile,
  Future,       \* _DURABLE_CLOCK_SKEW_FUTURE, 300
  Past,         \* _DURABLE_CLOCK_SKEW_PAST, a day
  MaxBack,      \* bound: how far the clock is set back at once
  MaxSetBacks,  \* bound: how often
  MaxStops      \* bound: how often a process is stopped before it sent

ASSUME PacingAssumption == Interval \in Nat /\ Settle \in Nat

ASSUME RegistryAssumption ==
  /\ IsFiniteSet(Threads)
  /\ None \notin Objects /\ None \notin Keys
  /\ MaxEntries \in Nat /\ MaxRounds \in [Threads -> Nat]

ASSUME DurableAssumption ==
  /\ Nobody \notin Processes
  /\ NoFile \notin [sent : Int, answered : Int]
  /\ Future \in Nat /\ Past \in Nat /\ MaxBack \in Nat
  /\ Interval <= Past /\ Settle <= Past

\* The age one unit of time later.
Older(age, limit) == IF age < limit THEN age + 1 ELSE limit

Larger(a, b) == IF a >= b THEN a ELSE b
=============================================================================
