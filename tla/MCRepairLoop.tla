----------------------------- MODULE MCRepairLoop -----------------------------
(***************************************************************************)
(* The web model may answer with an edit alone, the recorder alone, or a   *)
(* batch of write, edit and recorder.  The edit applies to its own result. *)
(***************************************************************************)
EXTENDS RepairLoop, TLC

CONSTANTS w, d, z     \* write, edit, recorder

MCCalls == {w, d, z}
MCKind == (w :> "write_file") @@ (d :> "edit_file") @@ (z :> Recorder)
MCAgain == {d}
Single(c) == [batch |-> FALSE, calls |-> <<c>>]
MCResponses ==
  {Single(d), Single(z), [batch |-> TRUE, calls |-> <<w, d, z>>]}
===============================================================================
