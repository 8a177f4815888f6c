---------------------------- MODULE GateBaseline -----------------------------
(***************************************************************************)
(* The incremental gate (scripts/gate.py): runs over a baseline file that  *)
(* caches, for each translation, the hashes of its inputs and a verdict.   *)
(* Between the runs somebody rebuilds objects or changes the environment,  *)
(* a nightly leaves a record to reseed from, and a run may be interrupted, *)
(* fail in a stage or be killed.                                           *)
(*                                                                         *)
(* A hash stands for the content it hashes.  rust[n] is the built object;  *)
(* editing a source matters from the next `make all` on, which is the      *)
(* first stage of the next run.  How the workers divide the queue is       *)
(* GuestPipeline's matter: here up to Workers names run at a time, and     *)
(* what happens to one is what WorkerContract allows.                      *)
(***************************************************************************)
EXTENDS Integers, FiniteSets, Verdicts

CONSTANTS
  Names,           \* the translations
  Rusts, Cs, Envs, \* contents of a Rust object, a C object, the environment
  Workers,         \* names the workers hold at a time: two for each overlay worker
  MaxRuns, MaxEdits, \* bounds on runs and on changes
  MaxKills,        \* bound on drivers killed
  EditsDuringRun,  \* objects may be rebuilt while the gate runs
  TrustSummary     \* --reseed may be given a summary.json

ASSUME BaselineAssumption ==
  /\ Workers \in Nat \ {0}
  /\ MaxRuns \in Nat /\ MaxEdits \in Nat /\ MaxKills \in Nat
  /\ EditsDuringRun \in BOOLEAN /\ TrustSummary \in BOOLEAN
  /\ Rusts # {} /\ Cs # {} /\ Envs # {}

Good == {"PASS", "NO-ORACLE"}
Input == [r : Rusts, c : Cs, e : Envs]
Row == [in : Input, verdict : Verdict]
NoInput == [r |-> "none"]
NoRow == [verdict |-> "absent"]
Rows == [Names -> Row \cup {NoRow}]
NoStatus == -1

\* The command line: the names it covers, whether they were named, --all and
\* what --reseed reads.
Args == [scope : SUBSET Names, named : BOOLEAN, all : BOOLEAN,
         reseed : {"no", "tsv", "json"}]
NoArgs == [scope |-> {}, named |-> FALSE, all |-> FALSE, reseed |-> "no"]

VARIABLES
  rust, c, env, \* the inputs on disk
  file,         \* qemu/gate/baseline.tsv
  nightly,      \* the last nightly's runtime-after.tsv
  pc, args,     \* main()
  baseline,     \* its copy of the rows
  hashes,       \* its hashes of the objects and the environment
  work,         \* names still to run
  active,       \* names a worker is running
  loaded,       \* name -> the input its worker really runs, or NoInput
  alarms, downgrades,
  status,       \* the local `status`
  ret,          \* the value of a `return` inside the try, or NoStatus
  exit,         \* the exit status, or NoStatus
  runs, edits, kills, \* counters for the bounds
  seen,         \* history: <<name, input, verdict>> of guest runs
  learned,      \* history: the rows this run recorded
  told,         \* history: the file when a run last came to an end
  unclean       \* history: this run's final restoration failed

inputVars == <<rust, c, env, edits, kills>>
runVars == <<baseline, hashes, work, active, loaded, alarms, downgrades,
             status, ret>>
historyVars == <<seen, learned, told, unclean>>
vars == <<inputVars, file, nightly, pc, args, runVars, exit, runs, historyVars>>

PCs == {"idle", "stages", "select", "seeded", "running", "raising", "cancelled",
        "report", "cleanup", "exited"}

current(n) == [r |-> rust[n], c |-> c[n], e |-> env]
NoRows == [n \in Names |-> NoRow]
NoInputs == [n \in Names |-> NoInput]

Init ==
  /\ rust \in [Names -> Rusts] /\ c \in [Names -> Cs] /\ env \in Envs
  /\ file = NoRows /\ nightly = NoRows
  /\ pc = "idle" /\ args = NoArgs
  /\ baseline = NoRows
  /\ hashes = NoInputs /\ loaded = NoInputs
  /\ work = {} /\ active = {} /\ alarms = {} /\ downgrades = {}
  /\ status = 0 /\ ret = NoStatus /\ exit = NoStatus
  /\ runs = 0 /\ edits = 0 /\ kills = 0
  /\ seen = {} /\ learned = NoRows /\ told = NoRows /\ unclean = FALSE

-----------------------------------------------------------------------------
(***************************************************************************)
(* The world around the runs.                                              *)
(***************************************************************************)
InRun == pc \notin {"idle", "exited"}

\* An object is rebuilt from a changed source, or the environment changes.
Edit ==
  /\ edits < MaxEdits /\ edits' = edits + 1 /\ UNCHANGED kills
  /\ InRun => EditsDuringRun
  /\ \/ \E n \in Names, x \in Rusts : rust' = [rust EXCEPT ![n] = x] /\ UNCHANGED <<c, env>>
     \/ \E n \in Names, x \in Cs : c' = [c EXCEPT ![n] = x] /\ UNCHANGED <<rust, env>>
     \/ env' \in Envs /\ UNCHANGED <<rust, c>>
  /\ pc' = IF pc = "exited" THEN "idle" ELSE pc
  /\ UNCHANGED <<file, nightly, args, runVars, exit, runs, historyVars>>

\* A nightly: every object afresh.  It writes no baseline, only a record of
\* its own with its own hashes.
Nightly ==
  /\ ~InRun /\ nightly = NoRows
  /\ \E v \in [Names -> Verdict] :
        /\ nightly' = [n \in Names |-> [in |-> current(n), verdict |-> v[n]]]
        /\ seen' = seen \cup {<<n, current(n), v[n]>> : n \in {m \in Names : v[m] \in Good}}
  /\ pc' = "idle"
  /\ UNCHANGED <<inputVars, file, args, runVars, exit, runs, learned, told, unclean>>

-----------------------------------------------------------------------------
(***************************************************************************)
(* One run: main().                                                        *)
(***************************************************************************)
Start ==
  /\ ~InRun /\ runs < MaxRuns /\ runs' = runs + 1
  /\ args' \in Args
  /\ args'.scope # {} /\ (~args'.named => args'.scope = Names)
  /\ args'.reseed = "json" => TrustSummary
  /\ args'.reseed # "no" => nightly # NoRows
  /\ pc' = "stages"
  /\ baseline' = file /\ learned' = NoRows /\ unclean' = FALSE
  /\ exit' = NoStatus
  /\ UNCHANGED <<inputVars, file, nightly, hashes, work, active, loaded, alarms,
                 downgrades, status, ret, seen, told>>

\* An exception before any guest ran: a stage failed, C objects are not
\* restored, an object is missing, /dev/kvm cannot be opened.
StageFails ==
  /\ pc \in {"stages", "select"}
  /\ pc' = "cleanup" /\ status' = 1
  /\ UNCHANGED <<inputVars, file, nightly, args, baseline, hashes, work, active, loaded,
                 alarms, downgrades, ret, exit, runs, historyVars>>

\* Everything is built and pristine: hash the environment and the objects.
Hash ==
  /\ pc = "stages"
  /\ hashes' = [n \in Names |-> IF n \in args.scope THEN current(n) ELSE NoInput]
  /\ pc' = "select"
  /\ UNCHANGED <<inputVars, file, nightly, args, baseline, work, active, loaded,
                 alarms, downgrades, status, ret, exit, runs, historyVars>>

\* Mutant: the environment of the nightly is not compared.
Accepted_NoEnv(n) == nightly[n].in.r = hashes[n].r /\ nightly[n].in.c = hashes[n].c

\* reseed(): runtime-after.tsv is compared in all three hashes, summary.json
\* only in the C hash, and takes the others from the current objects.
Accepted(n) ==
  IF args.reseed = "tsv" THEN nightly[n].in = hashes[n]
  ELSE nightly[n].in.c = hashes[n].c

Reseed ==
  /\ pc = "select" /\ args.reseed # "no"
  /\ IF \A n \in args.scope : Accepted(n)
     THEN /\ baseline' = [n \in Names |->
               IF n \in args.scope
               THEN [in |-> hashes[n], verdict |-> nightly[n].verdict]
               ELSE baseline[n]]
          /\ file' = baseline'
          /\ pc' = "seeded" /\ UNCHANGED ret
     ELSE ret' = 2 /\ pc' = "cleanup" /\ UNCHANGED <<baseline, file>>
  /\ UNCHANGED <<inputVars, nightly, args, hashes, work, active, loaded, alarms,
                 downgrades, status, exit, runs, historyVars>>

Seeded ==
  /\ pc = "seeded"
  /\ ret' = 0 /\ pc' = "cleanup"
  /\ UNCHANGED <<inputVars, file, nightly, args, baseline, hashes, work, active, loaded,
                 alarms, downgrades, status, exit, runs, historyVars>>

staleEnv == \E n \in args.scope :
              baseline[n] # NoRow /\ baseline[n].in.e # hashes[n].e

\* A changed environment is refused without --all.
RefuseEnv ==
  /\ pc = "select" /\ args.reseed = "no" /\ staleEnv /\ ~args.all
  /\ ret' = 2 /\ pc' = "cleanup"
  /\ UNCHANGED <<inputVars, file, nightly, args, baseline, hashes, work, active, loaded,
                 alarms, downgrades, status, exit, runs, historyVars>>

\* Mutant: the environment is left out of the comparison.
cached_NoEnv(n) ==
  /\ baseline[n] # NoRow /\ ~(args.all /\ args.named)
  /\ baseline[n].in.r = hashes[n].r /\ baseline[n].in.c = hashes[n].c

cached(n) ==
  /\ baseline[n] # NoRow /\ ~(args.all /\ args.named)
  /\ baseline[n].in = hashes[n]

\* Mutant: a cached FAIL does not alarm again.
Select_QuietFail ==
  /\ pc = "select" /\ args.reseed = "no" /\ (staleEnv => args.all)
  /\ work' = {n \in args.scope : ~cached(n)}
  /\ pc' = IF work' = {} THEN "report" ELSE "running"
  /\ UNCHANGED <<inputVars, file, nightly, args, baseline, hashes, active, loaded,
                 alarms, downgrades, status, ret, exit, runs, historyVars>>

\* Mutant: the selection goes over the whole corpus.
Select_Corpus ==
  /\ pc = "select" /\ args.reseed = "no" /\ (staleEnv => args.all)
  /\ work' = {n \in Names : ~cached(n)}
  /\ alarms' = {n \in args.scope : cached(n) /\ baseline[n].verdict = "FAIL"}
  /\ pc' = IF work' = {} THEN "report" ELSE "running"
  /\ UNCHANGED <<inputVars, file, nightly, args, baseline, hashes, active, loaded,
                 downgrades, status, ret, exit, runs, historyVars>>

\* Unchanged names are skipped, but a cached FAIL alarms again.
Select ==
  /\ pc = "select" /\ args.reseed = "no" /\ (staleEnv => args.all)
  /\ work' = {n \in args.scope : ~cached(n)}
  /\ alarms' = {n \in args.scope : cached(n) /\ baseline[n].verdict = "FAIL"}
  /\ pc' = IF work' = {} THEN "report" ELSE "running"
  /\ UNCHANGED <<inputVars, file, nightly, args, baseline, hashes, active, loaded,
                 downgrades, status, ret, exit, runs, historyVars>>

\* A worker takes a name and copies the objects into its layer.
Take(n) ==
  /\ pc \in {"running", "raising"} /\ n \in work \ active /\ Cardinality(active) < Workers
  /\ active' = active \cup {n}
  /\ loaded' = [loaded EXCEPT ![n] = current(n)]
  /\ UNCHANGED <<inputVars, file, nightly, pc, args, baseline, hashes, work, alarms,
                 downgrades, status, ret, exit, runs, historyVars>>

\* Mutant: the rows are written at the end of the run.
record_SaveLater(n, v) ==
  LET row == [in |-> hashes[n], verdict |-> v] IN
  /\ IF v = "FAIL" THEN alarms' = alarms \cup {n} /\ UNCHANGED downgrades
     ELSE /\ downgrades' = IF baseline[n].verdict = "PASS" /\ v # "PASS"
                           THEN downgrades \cup {n} ELSE downgrades
          /\ UNCHANGED alarms
  /\ baseline' = [baseline EXCEPT ![n] = row]
  /\ file' = IF work = {n} THEN baseline' ELSE file
  /\ learned' = [learned EXCEPT ![n] = row]
  /\ work' = work \ {n} /\ active' = active \ {n}

\* Mutant: the old verdict is read after the row was replaced.
record_LateOld(n, v) ==
  LET row == [in |-> hashes[n], verdict |-> v] IN
  /\ IF v = "FAIL" THEN alarms' = alarms \cup {n} ELSE UNCHANGED alarms
  /\ UNCHANGED downgrades
  /\ baseline' = [baseline EXCEPT ![n] = row]
  /\ file' = baseline'
  /\ learned' = [learned EXCEPT ![n] = row]
  /\ work' = work \ {n} /\ active' = active \ {n}

\* record(), on_row of gate.py: note an alarm or a downgrade, replace the row
\* and save the file (a temporary renamed over it).
record(n, v) ==
  LET row == [in |-> hashes[n], verdict |-> v] IN
  /\ IF v = "FAIL" THEN alarms' = alarms \cup {n} /\ UNCHANGED downgrades
     ELSE /\ downgrades' = IF baseline[n].verdict = "PASS" /\ v # "PASS"
                           THEN downgrades \cup {n} ELSE downgrades
          /\ UNCHANGED alarms
  /\ baseline' = [baseline EXCEPT ![n] = row]
  /\ file' = baseline'
  /\ learned' = [learned EXCEPT ![n] = row]
  /\ work' = work \ {n} /\ active' = active \ {n}

\* A worker finishes a name.
Finish(n) ==
  /\ pc \in {"running", "raising", "cancelled"} /\ n \in active
  /\ \E v \in Verdict :
        /\ record(n, v)
        /\ seen' = IF v \in Good THEN seen \cup {<<n, loaded[n], v>>} ELSE seen
  /\ UNCHANGED <<inputVars, nightly, pc, args, hashes, loaded, status, ret, exit, runs,
                 told, unclean>>

\* After an interrupt the name being finished is recorded as a FAIL although
\* the gate killed its run, and a name being prepared is dropped.
FinishKilled(n) ==
  /\ pc = "cancelled" /\ n \in active
  /\ record(n, "FAIL")
  /\ UNCHANGED <<inputVars, nightly, pc, args, hashes, loaded, status, ret, exit, runs,
                 seen, told, unclean>>

DropPrepared(n) ==
  /\ pc = "cancelled" /\ n \in active
  /\ active' = active \ {n}
  /\ UNCHANGED <<inputVars, file, nightly, pc, args, baseline, hashes, work, loaded,
                 alarms, downgrades, status, ret, exit, runs, historyVars>>

AllRan ==
  /\ pc = "running" /\ work = {}
  /\ pc' = "report"
  /\ UNCHANGED <<inputVars, file, nightly, args, runVars, exit, runs, historyVars>>

\* A worker raises over its name.  The other workers go on with the queue,
\* and main re-raises when the pool has been left.
WorkerRaises(n) ==
  /\ pc \in {"running", "raising"} /\ n \in active
  /\ active' = active \ {n} /\ work' = work \ {n}
  /\ pc' = "raising"
  /\ UNCHANGED <<inputVars, file, nightly, args, baseline, hashes, loaded, alarms,
                 downgrades, status, ret, exit, runs, historyVars>>

RunRaises ==
  /\ pc = "raising" /\ active = {}
  /\ pc' = "cleanup" /\ status' = 1
  /\ UNCHANGED <<inputVars, file, nightly, args, baseline, hashes, work, active, loaded,
                 alarms, downgrades, ret, exit, runs, historyVars>>

\* SIGINT or SIGTERM, once a run: GuestPipeline has the second one.
Interrupt ==
  /\ pc \in {"stages", "select", "seeded", "running", "raising", "report"}
  /\ pc' = "cancelled" /\ status' = 1
  /\ UNCHANGED <<inputVars, file, nightly, args, baseline, hashes, work, active, loaded,
                 alarms, downgrades, ret, exit, runs, historyVars>>

\* Mutant: the queue has to be empty too.
WorkersEnd_Drained ==
  /\ pc = "cancelled" /\ active = {} /\ work = {}
  /\ pc' = "cleanup"
  /\ UNCHANGED <<inputVars, file, nightly, args, runVars, exit, runs, historyVars>>

WorkersEnd ==
  /\ pc = "cancelled" /\ active = {}
  /\ pc' = "cleanup"
  /\ UNCHANGED <<inputVars, file, nightly, args, runVars, exit, runs, historyVars>>

Report ==
  /\ pc = "report"
  /\ status' = IF alarms \cup downgrades # {} THEN 1 ELSE 0
  /\ pc' = "cleanup"
  /\ UNCHANGED <<inputVars, file, nightly, args, baseline, hashes, work, active, loaded,
                 alarms, downgrades, ret, exit, runs, historyVars>>

\* The driver's locals are gone with it.
LocalsDie ==
  /\ baseline' = NoRows /\ hashes' = NoInputs /\ loaded' = NoInputs
  /\ work' = {} /\ active' = {} /\ alarms' = {} /\ downgrades' = {}
  /\ status' = 0 /\ ret' = NoStatus

\* The finally: restore the shared tree, which may fail.  A `return` of the
\* try keeps its value; otherwise `status or 1`.
Cleanup ==
  /\ pc = "cleanup"
  /\ \E ok \in BOOLEAN :
        /\ unclean' = ~ok
        /\ exit' = IF ret # NoStatus THEN ret
                   ELSE IF ok THEN status ELSE 1
  /\ pc' = "exited" /\ told' = file
  /\ LocalsDie
  /\ UNCHANGED <<inputVars, file, nightly, args, runs, seen, learned>>

\* The driver is killed, or the host goes down.
Kill ==
  /\ InRun /\ kills < MaxKills /\ kills' = kills + 1
  /\ pc' = "idle"
  /\ LocalsDie
  /\ UNCHANGED <<rust, c, env, edits, file, nightly, args, exit, runs, historyVars>>

-----------------------------------------------------------------------------
RunNext ==
  \/ StageFails \/ Hash \/ Reseed \/ Seeded \/ RefuseEnv \/ Select
  \/ AllRan \/ RunRaises \/ WorkersEnd \/ Report \/ Cleanup
  \/ \E n \in Names : \/ Take(n) \/ Finish(n) \/ WorkerRaises(n)
                      \/ FinishKilled(n) \/ DropPrepared(n)

Next == Edit \/ Nightly \/ Start \/ RunNext \/ Interrupt \/ Kill

Spec == Init /\ [][Next]_vars

\* Stages, guests and the cleanup all run under a time limit.
FairSpec == Spec /\ WF_vars(RunNext)

-----------------------------------------------------------------------------
(***************************************************************************)
(* Properties.                                                             *)
(***************************************************************************)

\* Type invariant: the rows, the hashes and the driver's locals.
TypeOK ==
  /\ rust \in [Names -> Rusts] /\ c \in [Names -> Cs] /\ env \in Envs
  /\ file \in Rows /\ nightly \in Rows /\ baseline \in Rows
  /\ learned \in Rows /\ told \in Rows
  /\ pc \in PCs /\ args \in Args
  /\ hashes \in [Names -> Input \cup {NoInput}]
  /\ loaded \in [Names -> Input \cup {NoInput}]
  /\ work \subseteq Names /\ active \subseteq Names
  /\ alarms \subseteq Names /\ downgrades \subseteq Names
  /\ status \in {0, 1} /\ ret \in {NoStatus, 0, 2} /\ exit \in {NoStatus, 0, 1, 2}
  /\ runs \in 0 .. MaxRuns /\ edits \in 0 .. MaxEdits /\ kills \in 0 .. MaxKills
  /\ seen \subseteq Names \X Input \X Good
  /\ unclean \in BOOLEAN

\* A cached good verdict is evidence: every PASS or NO-ORACLE row of the
\* baseline comes from a guest run with exactly the hashed objects in exactly
\* the hashed environment, however runs, interrupts, crashes and reseeds from
\* a nightly's runtime-after.tsv follow each other.
GoodRowsSeen ==
  \A n \in Names : file[n].verdict \in Good =>
    <<n, file[n].in, file[n].verdict>> \in seen

\* What exit 0 means: the run covered every name it was given, each has a row
\* for the objects and the environment of now, none of them FAIL, and the
\* shared tree was restored.
ExitZeroMeans ==
  (pc = "exited" /\ exit = 0 /\ args.reseed = "no") =>
    /\ \A n \in args.scope : file[n] # NoRow /\ file[n].in = current(n)
                             /\ file[n].verdict # "FAIL"
    /\ ~unclean

\* "ALARMS (exit 1) [...] on a PASS that became NO-ORACLE"
\* (scripts/gate.py:15-16): a run that ends with 0 leaves no name of its scope
\* at NO-ORACLE that stood at PASS when a run last came to an end.  It holds
\* as long as no driver is killed.
DowngradeAlarms ==
  [][(pc = "cleanup" /\ pc' = "exited" /\ exit' = 0 /\ args.reseed = "no") =>
       \A n \in args.scope : ~(told[n].verdict = "PASS"
                               /\ file[n].verdict = "NO-ORACLE")]_vars

\* "an interrupted run keeps what it learned": once recorded, a row is in the
\* file, also after an interrupt, an exception or a kill.
KeepsWhatItLearned ==
  \A n \in Names : learned[n] # NoRow => file[n] = learned[n]

\* A run ends, unless it is killed.
RunEnds == InRun ~> ~InRun

\* The baseline implements the ledger: what it answers without running a
\* guest is what guests said of the same objects and environment.
Ledger == INSTANCE VerdictLedger WITH
  Inputs <- Input,
  input <- [n \in Names |-> current(n)],
  answer <- IF pc = "exited" /\ exit = 0 /\ args.reseed = "no"
            THEN args.scope ELSE {}

ImplementsLedger == Ledger!Spec

==============================================================================
