------------------------------ MODULE Verdicts ------------------------------
(***************************************************************************)
(* How the runtime gate judges one run of one object: runtime_result of    *)
(* scripts/qemu_gate.py, over an abstraction of the log that keeps exactly *)
(* what the function looks at.                                             *)
(*                                                                         *)
(* A run's outcome is a record                                             *)
(*   rc       the exit status the gate sees                                *)
(*   summary  the last "Summary:" line of the log: "none" when there is    *)
(*            no such line, "zero" when it starts with                     *)
(*            "Summary: 0/0 PASSED", "ran" otherwise                       *)
(*   noCons   the log says that no test consumes the object, or that every *)
(*            consumer is excluded (an empty "[swap] affected tests:")     *)
(***************************************************************************)
EXTENDS Integers

\* Exit statuses the gate tells apart. Killed is Popen's status of a child
\* that died of SIGKILL; Cancelled and TimedOut are run()'s own.
ExitNoTest == 2
MountFailed == 99
TimedOut == 124
Cancelled == 130
Killed == -9

Statuses == {0, 1, ExitNoTest, MountFailed, TimedOut, Cancelled, Killed}

Summaries == {"none", "zero", "ran"}

Outcome == [rc : Statuses, summary : Summaries, noCons : BOOLEAN]

Verdict == {"PASS", "NO-ORACLE", "FAIL"}

NoOracle(o) ==
  \/ o.rc = ExitNoTest /\ o.summary = "zero"
  \/ o.rc # TimedOut /\ o.noCons

runtime_result(o) ==
  IF o.rc = 0 /\ o.summary # "none" THEN "PASS"
  ELSE IF NoOracle(o) THEN "NO-ORACLE" ELSE "FAIL"

\* gate-overlay.sh step 1 (build the layer): it succeeds, finds no consumer
\* (status 1) or only excluded ones (gate-record-filter refuses the empty
\* filter with status 2), fails to build (1, or make's 2), or is killed at
\* run()'s timeout, before or after it printed that there is no consumer.
Step1Outcomes ==
  [rc : {0}, summary : {"none"}, noCons : {FALSE}]
    \cup [rc : {1, ExitNoTest, TimedOut}, summary : {"none"}, noCons : BOOLEAN]

\* test_progs (or gate-bench-run) in a guest: all tests pass, a test fails,
\* the filter selects no registered test, or there is no summary because
\* the program crashed or its overlay could not be mounted.
TestOutcomes ==
  {[rc |-> 0, summary |-> "ran", noCons |-> FALSE],
   [rc |-> 1, summary |-> "ran", noCons |-> FALSE],
   [rc |-> ExitNoTest, summary |-> "zero", noCons |-> FALSE],
   [rc |-> MountFailed, summary |-> "none", noCons |-> FALSE]}

\* One classic run (gate-overlay.sh without GATE_PREPARE): step 1 fails, or
\* the guest reports, or the whole run is killed at its timeout.
ClassicOutcomes ==
  {o \in Step1Outcomes : o.rc # 0} \cup TestOutcomes
    \cup [rc : {TimedOut}, summary : {"none", "ran"}, noCons : {FALSE}]

\* What run() returns when the gate is interrupted: nothing was started, or
\* the child was killed with its process group, whatever it had printed.
NotStarted == [rc |-> Cancelled, summary |-> "none", noCons |-> FALSE]
KilledOutcomes ==
  [rc : {Killed}, summary : {"none", "ran"}, noCons : {FALSE}]
    \cup [rc : {Killed}, summary : {"none"}, noCons : {TRUE}]

=============================================================================
