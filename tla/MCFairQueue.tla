--------------------------- MODULE MCFairQueue ---------------------------
(* The packet scheduler with its constants, for TLC. *)
EXTENDS FairQueue

CONSTANTS f1, f2, f3
============================================================================
