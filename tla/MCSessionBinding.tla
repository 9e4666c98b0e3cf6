-------------------------- MODULE MCSessionBinding ----------------------------
(***************************************************************************)
(* Operations of one session over the files x and y; a request names one   *)
(* of them or both.                                                        *)
(***************************************************************************)
EXTENDS SessionBinding, TLC

CONSTANTS a, b, c, x, y

MCOps == {a, b, c}
MCPaths == {x, y}
MCScopes == {{x}, {x, y}}
MCSymmetry == Permutations(MCOps)
===============================================================================
