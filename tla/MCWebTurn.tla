------------------------------- MODULE MCWebTurn ------------------------------
(***************************************************************************)
(* In MCBroken the direct form of the composite call answers only the last *)
(* of three turns, where no repair is due; in MCDirectRepair it answers a  *)
(* repair.                                                                 *)
(***************************************************************************)
EXTENDS WebTurn

MCBroken == <<{"tail", "write", "garbage"}, {"tail", "write"}, {"garbage", "direct"}>>
MCDirectRepair == <<{"tail", "direct"}>>
===============================================================================
