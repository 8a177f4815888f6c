---------------------------- MODULE MCEquivGuard ----------------------------
(* Instances of the shared tree and of the guard for TLC. *)
EXTENDS EquivGuard

OneName == {"a"}
TwoNames == {"a", "b"}
WithSkeleton == {"a"}
NotTested == TwoNames \ WithSkeleton
Nobody == {}
None == "-"
=============================================================================
