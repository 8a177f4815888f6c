---------------------------- MODULE VerdictLedger ----------------------------
(***************************************************************************)
(* What the incremental gate promises, whatever it caches: it answers "no  *)
(* alarm" for a set of translations only when each of them has been run in *)
(* a guest, with the objects and the environment of now, and did not fail. *)
(***************************************************************************)
CONSTANTS Names, Inputs, Good

VARIABLES
  input,    \* name -> the objects and the environment of now
  seen,     \* the guest runs that did not fail: <<name, input, verdict>>
  answer    \* the names the last answer "no alarm" was about

vars == <<input, seen, answer>>

Init ==
  /\ input \in [Names -> Inputs]
  /\ seen = {}
  /\ answer = {}

\* Somebody rebuilds an object, or changes the environment.
Change ==
  /\ input' \in [Names -> Inputs]
  /\ answer' = {}
  /\ UNCHANGED seen

\* Guests ran some translations as they are now.
Observe ==
  /\ \E facts \in SUBSET {<<n, input[n], v>> : n \in Names, v \in Good} :
        seen' = seen \cup facts
  /\ answer' = {}
  /\ UNCHANGED input

Answer ==
  /\ \E ns \in SUBSET {n \in Names : \E v \in Good : <<n, input[n], v>> \in seen} :
        answer' = ns
  /\ UNCHANGED <<input, seen>>

Next == Change \/ Observe \/ Answer

Spec == Init /\ [][Next]_vars
=============================================================================
