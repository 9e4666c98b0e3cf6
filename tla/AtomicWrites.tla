----------------------------- MODULE AtomicWrites -----------------------------
(***************************************************************************)
(* What the durable effect journal promises to its callers, with crashes   *)
(* and journal steps out of sight.  An effect (one tool call and the text  *)
(* it leaves in its file) is begun at most once, against the content the   *)
(* file has at that moment.  While it is pending the file may go from that *)
(* exact preimage to the postimage in one step; it is done only at a       *)
(* moment the file holds the postimage, and then never touches it again.   *)
(* Others may change a file between the steps; "foreign" counts their      *)
(* changes, so that no change of the journal's own can pass for one.       *)
(***************************************************************************)
EXTENDS Naturals

CONSTANTS
  Effects,    \* the identities of the effects
  Files,      \* the files an effect may name
  Image,      \* what a path can hold: a text, nothing, or a symlink
  Path,       \* Path[e] is the file an effect names
  Post        \* Post[e] is the text it leaves there

VARIABLES
  file,       \* [Files -> Image]
  stage,      \* [Effects -> {"none", "pending", "done"}]
  preimage,   \* [Effects -> Image], meaningful once an effect is begun
  foreign     \* how many changes others have made

vars == <<file, stage, preimage, foreign>>

Init ==
  /\ file \in [Files -> Image]
  /\ stage = [e \in Effects |-> "none"]
  /\ preimage \in [Effects -> Image]
  /\ foreign = 0

Begin(e) ==
  /\ stage[e] = "none"
  /\ stage' = [stage EXCEPT ![e] = "pending"]
  /\ preimage' = [preimage EXCEPT ![e] = file[Path[e]]]
  /\ UNCHANGED <<file, foreign>>

Land(e) ==
  /\ stage[e] = "pending"
  /\ file[Path[e]] = preimage[e]
  /\ file' = [file EXCEPT ![Path[e]] = Post[e]]
  /\ UNCHANGED <<stage, preimage, foreign>>

Finish(e) ==
  /\ stage[e] = "pending"
  /\ file[Path[e]] = Post[e]
  /\ stage' = [stage EXCEPT ![e] = "done"]
  /\ UNCHANGED <<file, preimage, foreign>>

\* Others change one file, or a file no effect of this instance names.
Foreign ==
  /\ foreign' = foreign + 1
  /\ \/ \E f \in Files, v \in Image : file' = [file EXCEPT ![f] = v]
     \/ UNCHANGED file
  /\ UNCHANGED <<stage, preimage>>

Next ==
  \/ \E e \in Effects : Begin(e) \/ Land(e) \/ Finish(e)
  \/ Foreign

Spec == Init /\ [][Next]_vars
===============================================================================
