----------------------------- MODULE SharedTree -----------------------------
(***************************************************************************)
(* The shared selftests output: swap-and-test.sh puts a Rust object in the *)
(* place of a C one, rebuilds what derives from it and runs its tests; the *)
(* serial phase of the gate calls it for one object after the other and    *)
(* puts the C objects back, also after an interrupt, a timeout or an       *)
(* error.  A developer's `make test-<name>` leaves the Rust object there.  *)
(*                                                                         *)
(* File contents are the kinds "c", "rust" and "torn" (a copy cut short).  *)
(***************************************************************************)
EXTENDS Naturals, FiniteSets

CONSTANTS
    Names,          \* translations
    Skel,           \* those whose tests include a skeleton of the object
    Unused,         \* those no test consumes
    NoName,
    MaxRuns,        \* runs of the gate
    MaxTests,       \* uses of make test-<name>
    MaxInterrupts,  \* SIGINT or SIGTERM to a driver
    MaxKills,       \* SIGKILL of a driver
    MaxFaults       \* copies and builds that fail, guests that hang

ASSUME SharedTreeAssumption ==
    /\ Skel \subseteq Names /\ Unused \subseteq Names \ Skel /\ NoName \notin Names
    /\ {MaxRuns, MaxTests, MaxInterrupts, MaxKills, MaxFaults} \subseteq Nat

VARIABLES
    obj,        \* <name>.bpf.o in the selftests output
    corig,      \* <name>.bpf.o.corig, or "none"
    linked,     \* the object the test runner's skeleton was made from, or "none"
    script,     \* the swap-and-test.sh the gate waits for
    other,      \* a developer's, or one that a killed gate left running
    pc,         \* where the gate is
    todo,       \* its serial queue
    sweep,      \* the backups restore-all has not compared yet
    active, verdict, loaded,    \* the object in hand, and what its guest loaded
    rows,       \* what the run has recorded
    err,        \* its cleanup has reported an error
    touched,    \* objects this run has swapped
    ended,      \* the gate was the last to leave the tree, and left it by itself
    overlapped, \* a run has started while another script was going on
    runs, tests, interrupts, kills, faults

files == <<obj, corig, linked>>
gate == <<pc, todo, sweep, active, verdict, loaded, rows, err, touched, ended, overlapped, runs>>
vars == <<files, script, other, gate, tests, interrupts, kills, faults>>

Content == {"c", "rust", "torn"}
Nothing == <<"none", "none">>
Points == {"backup", "backing", "install", "installing", "build", "building", "tests", "guest", "done"}

\* How a script ended: exit 0; another exit with a test summary; no test runs;
\* any other failure, the deadline's SIGKILL included.
Codes == {"ok", "failed", "unused", "error"}
Start(n, w, only) ==
    [name |-> n, which |-> w, only |-> only, at |-> "backup", rc |-> "ok", saw |-> Nothing]
NoScript == [Start(NoName, "c", FALSE) EXCEPT !.at = "done"]
Going(s) == s.at # "done"
Exit(s, rc) == [s EXCEPT !.at = "done", !.rc = rc]

TreeInit ==
    /\ obj = [n \in Names |-> "c"] /\ corig = [n \in Names |-> "none"]
    /\ linked = [n \in Names |-> "c"]
    /\ script = NoScript /\ other = NoScript
    /\ pc = "off" /\ todo = {} /\ sweep = {} /\ active = NoName
    /\ verdict = "none" /\ loaded = Nothing /\ rows = [n \in Names |-> <<"none", Nothing>>]
    /\ err = FALSE /\ touched = {} /\ ended = FALSE /\ overlapped = FALSE
    /\ runs = 0 /\ tests = 0 /\ interrupts = 0 /\ kills = 0 /\ faults = 0

-----------------------------------------------------------------------------
(* swap-and-test.sh: t is the script after the step *)

\* Mutant: the backup is made before every swap.
BackupEachTime(s, t) ==
    /\ s.at = "backup" /\ t = [s EXCEPT !.at = "install"]
    /\ corig' = [corig EXCEPT ![s.name] = obj[s.name]]
    /\ UNCHANGED <<obj, linked, faults>>
\* A copy is a file cut short until it is complete, and may fail there.
Backup(s, t) ==
    \/ /\ s.at = "backup"
       /\ IF corig[s.name] # "none"
          THEN t = [s EXCEPT !.at = "install"] /\ UNCHANGED corig
          ELSE t = [s EXCEPT !.at = "backing"] /\ corig' = [corig EXCEPT ![s.name] = "torn"]
       /\ UNCHANGED <<obj, linked, faults>>
    \/ /\ s.at = "backing"
       /\ \/ t = [s EXCEPT !.at = "install"] /\ corig' = [corig EXCEPT ![s.name] = obj[s.name]]
             /\ UNCHANGED faults
          \/ faults < MaxFaults /\ faults' = faults + 1 /\ t = Exit(s, "error") /\ UNCHANGED corig
       /\ UNCHANGED <<obj, linked>>

Install(s, t) ==
    \/ /\ s.at = "install"
       /\ t = [s EXCEPT !.at = "installing"] /\ obj' = [obj EXCEPT ![s.name] = "torn"]
       /\ UNCHANGED <<corig, linked, faults>>
    \/ /\ s.at = "installing"
       /\ \/ /\ t = [s EXCEPT !.at = "build"]
             /\ obj' = [obj EXCEPT ![s.name] = IF s.which = "rust" THEN "rust" ELSE corig[s.name]]
             /\ UNCHANGED faults
          \/ faults < MaxFaults /\ faults' = faults + 1 /\ t = Exit(s, "error") /\ UNCHANGED obj
       /\ UNCHANGED <<corig, linked>>

\* The skeleton and the runner are removed, then made from what is installed;
\* no skeleton can be made from a torn object.
Build(s, t) ==
    \/ /\ s.at = "build"
       /\ IF s.name \in Skel
          THEN t = [s EXCEPT !.at = "building"] /\ linked' = [linked EXCEPT ![s.name] = "none"]
          ELSE t = [s EXCEPT !.at = "tests"] /\ UNCHANGED linked
       /\ UNCHANGED <<obj, corig, faults>>
    \/ /\ s.at = "building"
       /\ \/ /\ obj[s.name] # "torn" /\ t = [s EXCEPT !.at = "tests"]
             /\ linked' = [linked EXCEPT ![s.name] = obj[s.name]] /\ UNCHANGED faults
          \/ obj[s.name] = "torn" /\ t = Exit(s, "error") /\ UNCHANGED <<linked, faults>>
          \/ faults < MaxFaults /\ faults' = faults + 1 /\ t = Exit(s, "error") /\ UNCHANGED linked
       /\ UNCHANGED <<obj, corig>>

\* What consumes the object, and the guest, which loads it from the tree.
Tests(s, t) ==
    /\ s.at = "tests"
    /\ t = IF s.name \in Unused THEN Exit(s, "unused")
           ELSE IF s.only THEN Exit(s, "ok") ELSE [s EXCEPT !.at = "guest"]
    /\ UNCHANGED <<files, faults>>
Guest(s, t) ==
    /\ s.at = "guest"
    /\ \E rc \in Codes : t = [Exit(s, rc) EXCEPT !.saw = <<obj[s.name], linked[s.name]>>]
    /\ obj[s.name] = "torn" => t.rc # "ok"
    /\ UNCHANGED <<files, faults>>

Step(s, t) == Backup(s, t) \/ Install(s, t) \/ Build(s, t) \/ Tests(s, t) \/ Guest(s, t)

\* The gate's script, and one that is not the gate's.
ScriptStep == Step(script, script') /\ UNCHANGED <<other, gate, tests, interrupts, kills>>
OtherStep == Step(other, other') /\ UNCHANGED <<script, gate, tests, interrupts, kills>>

\* make test-<name> and make restore-<name>, which take no lock.
DevTest ==
    /\ pc = "off" /\ ~Going(other) /\ tests < MaxTests
    /\ \E n \in Names, w \in {"rust", "c"} : other' = Start(n, w, FALSE)
    /\ tests' = tests + 1 /\ ended' = FALSE
    /\ UNCHANGED <<files, script, pc, todo, sweep, active, verdict, loaded, rows, err, touched,
                   overlapped, runs, interrupts, kills, faults>>

OtherInterrupt ==
    /\ Going(other) /\ interrupts < MaxInterrupts /\ interrupts' = interrupts + 1
    /\ other' = NoScript
    /\ UNCHANGED <<files, script, gate, tests, kills, faults>>

-----------------------------------------------------------------------------
(* The gate, alone in the shared tree *)

Backups == {n \in Names : corig[n] # "none"}
pristine == \A n \in Backups : obj[n] = corig[n]
Row == IF script.rc = "ok" THEN "PASS" ELSE IF script.rc = "unused" THEN "NO-ORACLE" ELSE "FAIL"

GateStart ==
    /\ pc = "off" /\ runs < MaxRuns /\ runs' = runs + 1
    /\ pc' = "restore" /\ todo' = Names /\ sweep' = Backups
    /\ active' = NoName /\ rows' = [n \in Names |-> <<"none", Nothing>>]
    /\ err' = FALSE /\ touched' = {} /\ ended' = FALSE
    /\ overlapped' = (overlapped \/ Going(other))
    /\ other' = IF Going(other) THEN other ELSE NoScript
    /\ UNCHANGED <<files, script, verdict, loaded, tests, interrupts, kills, faults>>

\* make restore-all, one backup after the other; it stops at a copy that fails.
RestoreOne ==
    /\ pc \in {"restore", "clean_all"} /\ sweep # {}
    /\ \E n \in sweep :
        \/ /\ sweep' = sweep \ {n} /\ obj' = [obj EXCEPT ![n] = corig[n]]
           /\ UNCHANGED <<pc, err, faults>>
        \/ /\ obj[n] # corig[n] /\ faults < MaxFaults /\ faults' = faults + 1
           /\ obj' = [obj EXCEPT ![n] = "torn"] /\ sweep' = {}
           /\ err' = (pc = "clean_all") /\ pc' = IF pc = "restore" THEN "clean" ELSE "clean_check"
    /\ UNCHANGED <<corig, linked, script, other, todo, active, verdict, loaded, rows, touched,
                   ended, overlapped, runs, tests, interrupts, kills>>

\* An exception ends the run with status 1, after the cleanup.
Raise == pc' = "clean"

CheckRestored ==
    /\ pc = "restore" /\ sweep = {}
    /\ IF pristine THEN pc' = "take" ELSE Raise
    /\ UNCHANGED <<files, script, other, todo, sweep, active, verdict, loaded, rows, err, touched,
                   ended, overlapped, runs, tests, interrupts, kills, faults>>

\* Mutant: the object that is there is tested.
TakeC ==
    /\ pc = "take" /\ todo # {}
    /\ \E n \in todo :
        /\ todo' = todo \ {n} /\ active' = n /\ touched' = touched \cup {n}
        /\ script' = Start(n, "c", FALSE) /\ pc' = "rust"
    /\ UNCHANGED <<files, other, sweep, verdict, loaded, rows, err, ended, overlapped, runs,
                   tests, interrupts, kills, faults>>
\* worker_loop takes the next object and swaps the Rust one in.
Take ==
    /\ pc = "take"
    /\ IF todo = {} THEN pc' = "clean" /\ UNCHANGED <<todo, active, touched, script>>
       ELSE \E n \in todo :
              /\ todo' = todo \ {n} /\ active' = n /\ touched' = touched \cup {n}
              /\ script' = Start(n, "rust", FALSE) /\ pc' = "rust"
    /\ UNCHANGED <<files, other, sweep, verdict, loaded, rows, err, ended, overlapped, runs,
                   tests, interrupts, kills, faults>>

\* The verdict, then the C object back: its tests too when the Rust one failed.
SwapBack ==
    /\ pc = "rust" /\ ~Going(script)
    /\ verdict' = Row /\ loaded' = script.saw
    /\ script' = Start(active, "c", Row # "FAIL") /\ pc' = "c"
    /\ UNCHANGED <<files, other, todo, sweep, active, rows, err, touched, ended, overlapped,
                   runs, tests, interrupts, kills, faults>>

\* A C run that failed must at least have been a run.
Record ==
    /\ pc = "c" /\ ~Going(script)
    /\ IF script.rc = "error" \/ (script.rc = "failed" /\ verdict # "FAIL") \/ ~pristine
       THEN Raise /\ UNCHANGED <<rows, active>>
       ELSE /\ rows' = [rows EXCEPT ![active] = <<verdict, loaded>>]
            /\ active' = NoName /\ pc' = "take"
    /\ script' = NoScript /\ verdict' = "none" /\ loaded' = Nothing
    /\ UNCHANGED <<files, other, todo, sweep, err, touched, ended,
                   overlapped, runs, tests, interrupts, kills, faults>>

\* The deadline: the script's process group is killed.
Timeout ==
    /\ pc \in {"rust", "c", "cleaning"} /\ Going(script)
    /\ faults < MaxFaults /\ faults' = faults + 1
    /\ script' = Exit(script, "error")
    /\ UNCHANGED <<files, other, gate, tests, interrupts, kills>>

\* SIGINT or SIGTERM: the children are killed, a copy of restore-all too.
Interrupt ==
    /\ pc \in {"restore", "take", "rust", "c"}
    /\ interrupts < MaxInterrupts /\ interrupts' = interrupts + 1
    /\ script' = NoScript /\ verdict' = "none" /\ loaded' = Nothing
    /\ \/ UNCHANGED obj
       \/ \E n \in sweep : obj[n] # corig[n] /\ obj' = [obj EXCEPT ![n] = "torn"]
    /\ Raise /\ sweep' = {}
    /\ UNCHANGED <<corig, linked, other, todo, active, rows, err, touched, ended, overlapped,
                   runs, tests, kills, faults>>

\* SIGKILL of the gate: its script goes on in a session of its own.
Kill ==
    /\ pc # "off" /\ ~Going(other) /\ kills < MaxKills /\ kills' = kills + 1
    /\ pc' = "off" /\ script' = NoScript /\ other' = IF Going(script) THEN script ELSE other
    /\ UNCHANGED <<files, todo, sweep, active, verdict, loaded, rows, err, touched, ended,
                   overlapped, runs, tests, interrupts, faults>>

\* Mutant: the cleanup leaves everything to restore-all.
CleanObjectsOnly ==
    /\ pc = "clean" /\ pc' = "clean_all" /\ sweep' = Backups
    /\ UNCHANGED <<files, script, other, todo, active, verdict, loaded, rows, err, touched, ended,
                   overlapped, runs, tests, interrupts, kills, faults>>

\* The cleanup, with the signals ignored: the active object's derived files,
\* then every object, then the comparison with the backups.
CleanActive ==
    /\ pc = "clean"
    /\ IF active = NoName THEN pc' = "clean_all" /\ sweep' = Backups /\ UNCHANGED script
       ELSE pc' = "cleaning" /\ script' = Start(active, "c", TRUE) /\ UNCHANGED sweep
    /\ UNCHANGED <<files, other, todo, active, verdict, loaded, rows, err, touched, ended,
                   overlapped, runs, tests, interrupts, kills, faults>>
CleanAll ==
    /\ pc = "cleaning" /\ ~Going(script)
    /\ err' = (err \/ script.rc # "ok") /\ pc' = "clean_all" /\ sweep' = Backups
    /\ script' = NoScript
    /\ UNCHANGED <<files, other, todo, active, verdict, loaded, rows, touched, ended,
                   overlapped, runs, tests, interrupts, kills, faults>>
CleanCheck ==
    /\ pc \in {"clean_all", "clean_check"} /\ sweep = {}
    /\ err' = (err \/ ~pristine) /\ pc' = "off" /\ ended' = TRUE
    /\ UNCHANGED <<files, script, other, todo, sweep, active, verdict, loaded, rows, touched,
                   overlapped, runs, tests, interrupts, kills, faults>>

TreeNext ==
    \/ ScriptStep \/ OtherStep \/ DevTest \/ OtherInterrupt
    \/ GateStart \/ RestoreOne \/ CheckRestored \/ Take \/ SwapBack \/ Record
    \/ Timeout \/ Interrupt \/ Kill \/ CleanActive \/ CleanAll \/ CleanCheck

TreeSpec == TreeInit /\ [][TreeNext]_vars

-----------------------------------------------------------------------------
ScriptType == [name : Names \cup {NoName}, which : {"c", "rust"}, only : BOOLEAN, at : Points,
               rc : Codes, saw : (Content \cup {"none"}) \X (Content \cup {"none"})]

\* The types of the files, of the scripts and of the gate's variables.
TreeTypeOK ==
    /\ obj \in [Names -> Content] /\ corig \in [Names -> Content \cup {"none"}]
    /\ linked \in [Names -> Content \cup {"none"}]
    /\ script \in ScriptType /\ other \in ScriptType
    /\ pc \in {"off", "restore", "take", "rust", "c", "clean", "cleaning", "clean_all", "clean_check"}
    /\ todo \subseteq Names /\ sweep \subseteq Names /\ active \in Names \cup {NoName}
    /\ verdict \in {"none", "PASS", "FAIL", "NO-ORACLE"}
    /\ touched \subseteq Names /\ {err, ended, overlapped} \subseteq BOOLEAN

\* A PASS that the gate records for a translation is the answer of a guest
\* that loaded the Rust object, and ran it from a runner built with the Rust
\* object's skeleton where a test includes one.
PassIsOfRust ==
    \A n \in Names : rows[n][1] = "PASS" /\ ~overlapped =>
        rows[n][2][1] = "rust" /\ (n \in Skel => rows[n][2][2] = "rust")

\* However a run ended, interrupted in any step or timed out in any script,
\* either its cleanup reported an error or every object it swapped is the
\* backup again, and the runner was built from it.
Restored ==
    ended /\ ~err /\ ~overlapped =>
        \A n \in touched : obj[n] = corig[n] /\ (n \in Skel => linked[n] = obj[n])

\* The backup of the C object is never made from a Rust object that is
\* already in its place, whatever was interrupted or killed before.
BackupIsNotRust == ~overlapped => \A n \in Names : corig[n] # "rust"

\* The C object can always be had back: it is in its place or in the backup.
PristineKept == \A n \in Names : "c" \in {obj[n], corig[n]}
=============================================================================
