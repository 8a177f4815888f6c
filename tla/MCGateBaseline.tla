--------------------------- MODULE MCGateBaseline ----------------------------
(***************************************************************************)
(* Instances of GateBaseline for TLC.  The contents are interchangeable,   *)
(* and so are the names.                                                   *)
(***************************************************************************)
EXTENDS GateBaseline, TLC

CONSTANTS n1, n2, r1, r2, k1, k2, e1, e2

Symmetric == Permutations(Names) \cup Permutations(Rusts) \cup Permutations(Envs)
=============================================================================
