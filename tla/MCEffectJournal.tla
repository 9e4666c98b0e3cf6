--------------------------- MODULE MCEffectJournal ----------------------------
(***************************************************************************)
(* Instance of EffectJournal: a composite write and an edit on a file only *)
(* the worker touches during its calls, a write on a file others share.    *)
(* The edit applies twice: its first result still matches it.              *)
(***************************************************************************)
EXTENDS EffectChain, TLC

CONSTANTS w, k, d,     \* a write, a composite write, an edit
          own, shared, \* files
          x, y         \* texts

MCCalls == {w, k, d}
MCFiles == {own, shared}
MCExclusive == {own}
MCContents == {x, y}
MCTool == (w :> "write_file") @@ (k :> Composite) @@ (d :> "edit_file")
MCTarget == (w :> shared) @@ (k :> own) @@ (d :> own)
MCText == (w :> y) @@ (k :> x) @@ (d :> x)
MCRewrite == [c \in MCCalls |-> (x :> y) @@ (y :> x)]
===============================================================================
