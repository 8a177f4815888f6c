--------------------------- MODULE MCGuestPipeline ---------------------------
(* Instances of GuestPipeline for TLC. *)
EXTENDS GuestPipeline

CONSTANTS t1, t2, t3

Queue2 == <<t1, t2>>
Queue3 == <<t1, t2, t3>>

=============================================================================
