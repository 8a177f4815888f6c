--------------------------- MODULE WorkerContract ----------------------------
(***************************************************************************)
(* What the gate counts on from one worker, however it prepares objects    *)
(* and shares guests: it takes names from the queue in order, holds a few  *)
(* of them at a time, passes them to on_row in the order it took them, and *)
(* leaves a name without a row only when it was disturbed, by an interrupt *)
(* or an exception of its own.  GateBaseline's Take, Finish, WorkerRaises  *)
(* and DropPrepared see no more of a worker than this.                     *)
(***************************************************************************)
EXTENDS Sequences, Naturals

CONSTANTS
  Queue,     \* the names it takes, in the order it takes them
  Depth      \* names it holds at a time

VARIABLES
  queue,     \* names not yet taken
  hand,      \* names taken and not yet recorded
  recorded,  \* names recorded
  disturbed, \* an interrupt or an exception reached it
  going      \* it has not stopped

vars == <<queue, hand, recorded, disturbed, going>>

Init ==
  /\ queue = Queue /\ hand = <<>> /\ recorded = {}
  /\ disturbed = FALSE /\ going = TRUE

Take ==
  /\ going /\ queue # <<>> /\ Len(hand) < Depth
  /\ hand' = Append(hand, Head(queue)) /\ queue' = Tail(queue)
  /\ UNCHANGED <<recorded, disturbed, going>>

\* The row of the last name may be the worker's last step.
Record ==
  /\ going /\ hand # <<>>
  /\ recorded' = recorded \cup {Head(hand)} /\ hand' = Tail(hand)
  /\ going' \in BOOLEAN /\ (~going' => queue = <<>> /\ hand' = <<>>)
  /\ UNCHANGED <<queue, disturbed>>

Stop ==
  /\ going /\ queue = <<>> /\ hand = <<>>
  /\ going' = FALSE
  /\ UNCHANGED <<queue, hand, recorded, disturbed>>

Disturb ==
  /\ disturbed' = TRUE
  /\ UNCHANGED <<queue, hand, recorded, going>>

\* A disturbed worker drops what it holds.
GiveUp ==
  /\ going /\ going' = FALSE
  /\ hand' = <<>> /\ disturbed' = TRUE
  /\ UNCHANGED <<queue, recorded>>

Next == Take \/ Record \/ Stop \/ Disturb \/ GiveUp

Spec == Init /\ [][Next]_vars
=============================================================================
