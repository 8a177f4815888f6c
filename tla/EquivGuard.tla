----------------------------- MODULE EquivGuard -----------------------------
(***************************************************************************)
(* equiv/guard.py: the translations whose objects have changed since their *)
(* row was recorded are proved again by equiv/check.py, which reads the C  *)
(* object in the shared tree.  The guard takes no lock: developers and the *)
(* gate may swap objects while it hashes, compares and reads them.         *)
(***************************************************************************)
EXTENDS SharedTree

CONSTANTS
    MaxGuards,  \* runs of the guard
    MaxEdits    \* rebuilds of a Rust object

ASSUME EquivGuardAssumption == {MaxGuards, MaxEdits} \subseteq Nat

VARIABLES
    build,      \* the version of bld/<name>.bpf.o
    base,       \* the committed rows
    torn,       \* the baseline ends in half a row
    gpc,        \* "off" or "on"
    job,        \* the proofs of this run
    gstatus,    \* exit status of the last run
    guards

gvars == <<build, base, torn, gpc, job, gstatus, guards>>

NoRow == [c |-> "none", r |-> 0, verdict |-> "none", cmp |-> "none", read |-> "none"]
Idle == [at |-> "idle", row |-> NoRow]
Verdicts == {"EQUIV", "INEQUIV", "NONPROOF", "ERROR"}

GuardInit ==
    /\ build = [n \in Names |-> 1] /\ base = [n \in Names |-> NoRow] /\ torn = FALSE
    /\ gpc = "off" /\ job = [n \in Names |-> Idle] /\ gstatus = "none" /\ guards = 0

\* A Rust object is built again, between two runs of the guard.
Rebuild ==
    /\ gpc = "off" /\ \E n \in Names : build[n] <= MaxEdits /\ build' = [build EXCEPT ![n] = @ + 1]
    /\ UNCHANGED <<vars, base, torn, gpc, job, gstatus, guards>>

\* The rows are read and the objects hashed: a row for the same contents is kept.
Unchanged(n) == base[n].verdict # "none" /\ base[n].c = obj[n] /\ base[n].r = build[n]
GuardStart ==
    /\ gpc = "off" /\ guards < MaxGuards /\ guards' = guards + 1
    /\ IF torn THEN gstatus' = "crash" /\ UNCHANGED <<gpc, job>>
       ELSE /\ gpc' = "on" /\ gstatus' = "none"
            /\ \E scope \in SUBSET Names \ {{}} :
                job' = [n \in Names |->
                    IF n \notin scope THEN Idle
                    ELSE IF Unchanged(n) THEN [at |-> "cached", row |-> base[n]]
                    ELSE [at |-> "queued", row |-> [NoRow EXCEPT !.c = obj[n], !.r = build[n]]]]
    /\ UNCHANGED <<vars, build, base, torn>>

\* Mutant: the object is not compared with its backup.
CompareNothing(n) ==
    /\ job[n].at = "queued"
    /\ job' = [job EXCEPT ![n] = [at |-> "compared", row |-> [@.row EXCEPT !.cmp = obj[n]]]]
    /\ UNCHANGED <<vars, build, base, torn, gpc, gstatus, guards>>

\* Mutant: a refusal is no verdict.
CompareQuiet(n) ==
    /\ job[n].at = "queued"
    /\ job' = [job EXCEPT ![n].at = IF corig[n] \notin {"none", obj[n]} THEN "done" ELSE "compared"]
    /\ UNCHANGED <<vars, build, base, torn, gpc, gstatus, guards>>

\* check.py refuses an object that differs from its backup...
Compare(n) ==
    /\ job[n].at = "queued"
    /\ job' = [job EXCEPT ![n] =
        IF corig[n] \notin {"none", obj[n]}
        THEN [at |-> "done", row |-> [@.row EXCEPT !.verdict = "ERROR"]]
        ELSE [at |-> "compared", row |-> [@.row EXCEPT !.cmp = obj[n]]]]
    /\ UNCHANGED <<vars, build, base, torn, gpc, gstatus, guards>>

\* ...and reads it again to prove it.  Half an object does not parse; a Rust
\* object in the C one's place can be given any verdict, EQUIV included.
Read(n) ==
    /\ job[n].at = "compared"
    /\ \E v \in IF obj[n] = "torn" THEN {"ERROR"} ELSE Verdicts :
        job' = [job EXCEPT ![n] =
            [at |-> "done", row |-> [@.row EXCEPT !.verdict = v, !.read = obj[n]]]]
    /\ UNCHANGED <<vars, build, base, torn, gpc, gstatus, guards>>

\* Every proof is in: the rows are written, and a divergence, proved now or
\* recorded before, is the exit status.
Finished == gpc = "on" /\ \A n \in Names : job[n].at \notin {"queued", "compared"}
Updated == [n \in Names |-> IF job[n].at = "done" THEN job[n].row ELSE base[n]]
\* Mutant: only what this run proved alarms.
AlarmsProved == {n \in Names : job[n].at = "done" /\ job[n].row.verdict = "INEQUIV"}
Alarms == {n \in Names : job[n].at \in {"done", "cached"} /\ job[n].row.verdict = "INEQUIV"}
Save ==
    /\ Finished
    /\ base' = Updated /\ gstatus' = IF Alarms # {} THEN "alarm" ELSE "ok"
    /\ gpc' = "off" /\ job' = [n \in Names |-> Idle]
    /\ UNCHANGED <<vars, build, torn, guards>>

\* Killed: before the rows are written nothing has changed, during the write
\* the file holds some rows and perhaps half of another.
GuardKill ==
    /\ gpc = "on" /\ kills < MaxKills /\ kills' = kills + 1
    /\ \/ UNCHANGED <<base, torn>>
       \/ /\ Finished /\ torn' \in BOOLEAN
          /\ \E kept \in SUBSET Names :
                base' = [n \in Names |-> IF n \in kept THEN Updated[n] ELSE NoRow]
    /\ gpc' = "off" /\ job' = [n \in Names |-> Idle] /\ gstatus' = "none"
    /\ UNCHANGED <<files, script, other, gate, tests, interrupts, faults, build, guards>>

\* Someone takes the committed baseline back.
Checkout ==
    /\ gpc = "off" /\ torn /\ torn' = FALSE
    /\ UNCHANGED <<vars, build, base, gpc, job, gstatus, guards>>

GuardNext ==
    \/ Rebuild \/ GuardStart \/ Save \/ GuardKill \/ Checkout
    \/ \E n \in Names : Compare(n) \/ Read(n)

Init == TreeInit /\ GuardInit
Next == (TreeNext /\ UNCHANGED gvars) \/ GuardNext
Spec == Init /\ [][Next]_<<vars, gvars>>

-----------------------------------------------------------------------------
\* The types of the tree's and of the guard's variables.
TypeOK ==
    /\ TreeTypeOK
    /\ base \in [Names -> [c : Content \cup {"none"}, r : 0..MaxEdits + 1, verdict : Verdicts \cup {"none"},
                           cmp : Content \cup {"none"}, read : Content \cup {"none"}]]
    /\ \A n \in Names : base[n].verdict = "none" <=> base[n] = NoRow
    /\ gpc \in {"off", "on"} /\ gstatus \in {"none", "ok", "alarm", "crash"}

\* An EQUIV row is a proof against the C object, whatever is swapped while the
\* guard runs and whatever an interrupted swap has left: the comparison with
\* the backup leaves only the instant between it and the read of the object.
EquivIsOfC ==
    \A n \in Names : base[n].verdict = "EQUIV" =>
        base[n].read = "c" \/ base[n].read # base[n].cmp \/ overlapped

\* The guard never exits 0 with a recorded divergence of the objects it was
\* asked about, proved in this run or in an earlier one.
DivergenceAlarms ==
    [][gstatus' = "ok" /\ gstatus # "ok" =>
        \A n \in Names : job[n].at # "idle" => base'[n].verdict # "INEQUIV"]_gvars
=============================================================================
