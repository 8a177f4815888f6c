-------------------------- MODULE EquivGuardProofs --------------------------
(***************************************************************************)
(* The shared selftests output and the guard that reads it, for every set  *)
(* of translations and any number of runs, tests, faults, interrupts and   *)
(* kills.  TreeInv says whose turn it is in the tree, and what a script    *)
(* that has the turn has already made of its object.                       *)
(***************************************************************************)
EXTENDS EquivGuard, TLAPS

Kinds == Content \cup {"none"}
Swapping == {"rust", "c", "cleaning"}
Equipped == {"install", "installing", "build", "building", "tests", "guest"}

\* A script at work has a translation, and its backup once it installs.
Named(s) == Going(s) => s.name \in Names
HasBackup(s, backup) == s.at \in Equipped => backup[s.name] # "none"

FilesOK ==
  /\ obj \in [Names -> Content] /\ corig \in [Names -> Kinds] /\ linked \in [Names -> Kinds]
ScriptOK(s) == s \in ScriptType /\ Named(s) /\ HasBackup(s, corig)
Rows == {"none", "PASS", "FAIL", "NO-ORACLE"}
GateOK ==
  /\ pc \in {"off", "restore", "take", "rust", "c", "clean", "cleaning", "clean_all", "clean_check"}
  /\ todo \subseteq Names /\ sweep \subseteq Names /\ active \in Names \cup {NoName}
  /\ touched \subseteq Names /\ err \in BOOLEAN /\ ended \in BOOLEAN /\ overlapped \in BOOLEAN
  /\ sweep \subseteq Backups
  /\ pc \in Swapping => active \in Names
RowsOK ==
  /\ verdict \in Rows /\ loaded \in Kinds \X Kinds /\ rows \in [Names -> Rows \X (Kinds \X Kinds)]
TreeTypes == FilesOK /\ ScriptOK(script) /\ ScriptOK(other) /\ GateOK /\ RowsOK

\* Only the gate's script is at work in a run that began alone.
Turns ==
  /\ pc \notin Swapping => script = NoScript
  /\ pc \in Swapping => script.name = active /\ script.which = (IF pc = "rust" THEN "rust" ELSE "c")
  /\ pc = "rust" => ~script.only
  /\ pc \in {"restore", "take"} => active = NoName
  /\ ended => pc = "off"
  /\ (~overlapped /\ (pc # "off" \/ ended)) => ~Going(other)

\* What is not backed up yet is the C object, also while it is being copied.
Copying(s, o) == s.at = "backing" => o[s.name] = "c"
Originals ==
  ~overlapped =>
    /\ \A n \in Names : corig[n] # "rust" /\ (corig[n] = "none" => obj[n] = "c")
    /\ Copying(script, obj) /\ Copying(other, obj)

\* What the gate's script has made of its object and of the test runner.
Wanted(s, backup) == IF s.which = "rust" THEN "rust" ELSE backup[s.name]
Made(s) == s.at \in {"tests", "guest"} \/ (s.at = "done" /\ s.rc # "error")
MadeOK(s, o, backup, link) ==
  /\ s.at \in {"build", "building"} \/ Made(s) =>
       backup[s.name] # "none" /\ o[s.name] = Wanted(s, backup)
  /\ (Made(s) /\ s.name \in Skel) => link[s.name] = o[s.name]
Swapped ==
  (~overlapped /\ pc \in Swapping) => MadeOK(script, obj, corig, linked)

\* What the guest of a passing Rust run has loaded.
OfRust(n, s) == s[1] = "rust" /\ (n \in Skel => s[2] = "rust")
Loads ==
  ~overlapped =>
    /\ (pc = "rust" /\ ~Going(script) /\ script.rc = "ok") => OfRust(active, script.saw)
    /\ (pc = "c" /\ verdict = "PASS") => OfRust(active, loaded)
    /\ PassIsOfRust

\* The objects a run is done with, and after the cleanup all it swapped.
Back(n) == corig[n] # "none" /\ (n \in Skel => linked[n] = corig[n])
PutBack ==
  (~overlapped /\ (pc # "off" \/ ended)) =>
    /\ \A n \in touched \ {active} : Back(n)
    /\ (pc \in {"clean_all", "clean_check"} /\ ~err) => \A n \in touched : Back(n)

TreeInv ==
  /\ TreeTypes /\ Turns /\ Originals /\ Swapped /\ Loads /\ PutBack /\ Restored

(* The guard's rows. *)
RowType == [c : Kinds, r : 0 .. MaxEdits + 1, verdict : Verdicts \cup {"none"},
            cmp : Kinds, read : Kinds]
RowOK(row) ==
  row.verdict = "EQUIV" => row.read = "c" \/ row.read # row.cmp \/ overlapped
JobOK(n) ==
  /\ job[n].at = "cached" => job[n].row = base[n]
  /\ job[n].at = "compared" => job[n].row.cmp # "rust" \/ overlapped
  /\ job[n].at = "done" => job[n].row.verdict # "none" /\ RowOK(job[n].row)
JobType == [at : {"idle", "cached", "queued", "compared", "done"}, row : RowType]
GuardInv ==
  /\ base \in [Names -> RowType] /\ \A n \in Names : base[n].verdict = "none" <=> base[n] = NoRow
  /\ gpc \in {"off", "on"} /\ gstatus \in {"none", "ok", "alarm", "crash"}
  /\ EquivIsOfC
  /\ build \in [Names -> 1 .. MaxEdits + 1]
  /\ job \in [Names -> JobType] /\ \A n \in Names : JobOK(n)

-----------------------------------------------------------------------------
(* The scripts *)

LEMMA StartFacts ==
  ASSUME NEW n \in Names \cup {NoName}, NEW w \in {"c", "rust"}, NEW only \in BOOLEAN
  PROVE  /\ Start(n, w, only) \in ScriptType
         /\ Start(n, w, only).name = n /\ Start(n, w, only).which = w
         /\ Start(n, w, only).only = only /\ Start(n, w, only).at = "backup"
BY DEF Start, ScriptType, Points, Codes, Nothing, Content

LEMMA NoScriptFacts ==
  NoScript \in ScriptType /\ NoScript.at = "done" /\ ~Going(NoScript)
BY DEF NoScript, Start, ScriptType, Points, Codes, Nothing, Content, Going

\* A script ends, at a point of its own or killed.
LEMMA ExitFacts ==
  ASSUME NEW s \in ScriptType, NEW rc \in Codes
  PROVE  /\ Exit(s, rc) \in ScriptType /\ Exit(s, rc).name = s.name
         /\ Exit(s, rc).which = s.which /\ Exit(s, rc).only = s.only
         /\ Exit(s, rc).at = "done" /\ Exit(s, rc).rc = rc
BY DEF Exit, ScriptType, Points

LEMMA SawFacts ==
  ASSUME NEW s \in ScriptType, NEW rc \in Codes, NEW a \in Kinds, NEW b \in Kinds
  PROVE  LET t == [Exit(s, rc) EXCEPT !.saw = <<a, b>>]
         IN  /\ t \in ScriptType /\ t.name = s.name /\ t.which = s.which
             /\ t.only = s.only /\ t.at = "done" /\ t.rc = rc /\ t.saw = <<a, b>>
<1> DEFINE e == Exit(s, rc)
<1>1. /\ e \in ScriptType /\ e.name = s.name /\ e.which = s.which /\ e.only = s.only
      /\ e.at = "done" /\ e.rc = rc
  BY ExitFacts
<1> HIDE DEF e
<1>2. LET t == [e EXCEPT !.saw = <<a, b>>]
      IN  /\ t \in ScriptType /\ t.name = s.name /\ t.which = s.which
          /\ t.only = s.only /\ t.at = "done" /\ t.rc = rc /\ t.saw = <<a, b>>
  BY <1>1 DEF ScriptType, Kinds
<1> QED
  BY Zenon, <1>2 DEF e

\* What a script keeps while it runs.
Keeps(s, t) ==
  t \in ScriptType /\ t.name = s.name /\ t.which = s.which /\ t.only = s.only

LEMMA AtFacts ==
  ASSUME NEW s \in ScriptType, NEW p \in Points, NEW t, t = [s EXCEPT !.at = p]
  PROVE  Keeps(s, t) /\ t.at = p
BY DEF ScriptType, Keeps

\* Each point of the script, by the fields of the record.
Moves(s, t) ==
  \/ /\ s.at = "backup" /\ corig[s.name] # "none" /\ t.at = "install"
     /\ UNCHANGED files
  \/ /\ s.at = "backup" /\ corig[s.name] = "none" /\ t.at = "backing"
     /\ corig' = [corig EXCEPT ![s.name] = "torn"] /\ UNCHANGED <<obj, linked>>
  \/ /\ s.at = "backing" /\ t.at = "install"
     /\ corig' = [corig EXCEPT ![s.name] = obj[s.name]] /\ UNCHANGED <<obj, linked>>
  \/ /\ s.at = "install" /\ t.at = "installing"
     /\ obj' = [obj EXCEPT ![s.name] = "torn"] /\ UNCHANGED <<corig, linked>>
  \/ /\ s.at = "installing" /\ t.at = "build"
     /\ obj' = [obj EXCEPT ![s.name] = Wanted(s, corig)] /\ UNCHANGED <<corig, linked>>
  \/ /\ s.at = "build" /\ s.name \in Skel /\ t.at = "building"
     /\ linked' = [linked EXCEPT ![s.name] = "none"] /\ UNCHANGED <<obj, corig>>
  \/ /\ s.at = "build" /\ s.name \notin Skel /\ t.at = "tests" /\ UNCHANGED files
  \/ /\ s.at = "building" /\ t.at = "tests"
     /\ linked' = [linked EXCEPT ![s.name] = obj[s.name]] /\ UNCHANGED <<obj, corig>>
  \/ /\ s.at = "tests" /\ t.at = "guest" /\ UNCHANGED files
  \/ /\ s.at = "tests" /\ t.at = "done" /\ (t.rc = "ok" => s.only) /\ UNCHANGED files
  \/ /\ s.at = "guest" /\ t.at = "done" /\ t.saw = <<obj[s.name], linked[s.name]>>
     /\ UNCHANGED files
  \/ /\ s.at \in Points \ {"done"} /\ t.at = "done" /\ t.rc = "error" /\ UNCHANGED files

LEMMA StepMoves ==
  ASSUME FilesOK, NEW s \in ScriptType, Named(s), NEW t, Step(s, t)
  PROVE  Keeps(s, t) /\ Moves(s, t) /\ s.at # "done" /\ s.name \in Names
<1>1. CASE Backup(s, t)
  <2>1. Going(s) /\ s.name \in Names
    BY <1>1 DEF Backup, Going, Named
  <2>2. CASE s.at = "backup"
    <3>1. CASE corig[s.name] # "none"
      <4>1. t = [s EXCEPT !.at = "install"] /\ UNCHANGED files
        BY <1>1, <2>2, <3>1 DEF Backup, files
      <4>2. Keeps(s, t) /\ t.at = "install"
        BY <4>1, AtFacts DEF Points
      <4> QED
        BY <2>1, <2>2, <3>1, <4>1, <4>2 DEF Moves
    <3>2. CASE corig[s.name] = "none"
      <4>1. /\ t = [s EXCEPT !.at = "backing"]
            /\ corig' = [corig EXCEPT ![s.name] = "torn"] /\ UNCHANGED <<obj, linked>>
        BY <1>1, <2>2, <3>2 DEF Backup
      <4>2. Keeps(s, t) /\ t.at = "backing"
        BY <4>1, AtFacts DEF Points
      <4> QED
        BY <2>1, <2>2, <3>2, <4>1, <4>2 DEF Moves
    <3> QED
      BY <3>1, <3>2
  <2>3. CASE s.at = "backing" /\ t = [s EXCEPT !.at = "install"]
    <3>1. Keeps(s, t) /\ t.at = "install"
      BY <2>3, AtFacts DEF Points
    <3>2. Exit(s, "error").at = "done"
      BY ExitFacts DEF Codes
    <3>3. corig' = [corig EXCEPT ![s.name] = obj[s.name]] /\ UNCHANGED <<obj, linked>>
      BY <1>1, <2>3, <3>1, <3>2 DEF Backup
    <3> QED
      BY <2>1, <2>3, <3>1, <3>3 DEF Moves
  <2>4. CASE s.at = "backing" /\ t = Exit(s, "error") /\ UNCHANGED files
    BY <2>1, <2>4, ExitFacts DEF Keeps, Moves, Points, Codes
  <2> QED
    BY <1>1, <2>1, <2>2, <2>3, <2>4 DEF Backup, files
<1>2. CASE Install(s, t)
  <2>1. Going(s) /\ s.name \in Names
    BY <1>2 DEF Install, Going, Named
  <2>2. CASE s.at = "install"
    <3>1. /\ t = [s EXCEPT !.at = "installing"]
          /\ obj' = [obj EXCEPT ![s.name] = "torn"] /\ UNCHANGED <<corig, linked>>
      BY <1>2, <2>2 DEF Install
    <3>2. Keeps(s, t) /\ t.at = "installing"
      BY <3>1, AtFacts DEF Points
    <3> QED
      BY <2>1, <2>2, <3>1, <3>2 DEF Moves
  <2>3. CASE s.at = "installing" /\ t = [s EXCEPT !.at = "build"]
    <3>1. Keeps(s, t) /\ t.at = "build"
      BY <2>3, AtFacts DEF Points
    <3>2. Exit(s, "error").at = "done"
      BY ExitFacts DEF Codes
    <3>3. obj' = [obj EXCEPT ![s.name] = Wanted(s, corig)] /\ UNCHANGED <<corig, linked>>
      BY <1>2, <2>3, <3>1, <3>2 DEF Install, Wanted
    <3> QED
      BY <2>1, <2>3, <3>1, <3>3 DEF Moves
  <2>4. CASE s.at = "installing" /\ t = Exit(s, "error") /\ UNCHANGED files
    BY <2>1, <2>4, ExitFacts DEF Keeps, Moves, Points, Codes
  <2> QED
    BY <1>2, <2>1, <2>2, <2>3, <2>4 DEF Install, files
<1>3. CASE Build(s, t)
  <2>1. Going(s) /\ s.name \in Names
    BY <1>3 DEF Build, Going, Named
  <2>2. CASE s.at = "build"
    <3>1. CASE s.name \in Skel
      <4>1. /\ t = [s EXCEPT !.at = "building"]
            /\ linked' = [linked EXCEPT ![s.name] = "none"] /\ UNCHANGED <<obj, corig>>
        BY <1>3, <2>2, <3>1 DEF Build
      <4>2. Keeps(s, t) /\ t.at = "building"
        BY <4>1, AtFacts DEF Points
      <4> QED
        BY <2>1, <2>2, <3>1, <4>1, <4>2 DEF Moves
    <3>2. CASE s.name \notin Skel
      <4>1. t = [s EXCEPT !.at = "tests"] /\ UNCHANGED files
        BY <1>3, <2>2, <3>2 DEF Build, files
      <4>2. Keeps(s, t) /\ t.at = "tests"
        BY <4>1, AtFacts DEF Points
      <4> QED
        BY <2>1, <2>2, <3>2, <4>1, <4>2 DEF Moves
    <3> QED
      BY <3>1, <3>2
  <2>3. CASE s.at = "building" /\ t = [s EXCEPT !.at = "tests"]
    <3>1. Keeps(s, t) /\ t.at = "tests"
      BY <2>3, AtFacts DEF Points
    <3>2. Exit(s, "error").at = "done"
      BY ExitFacts DEF Codes
    <3>3. linked' = [linked EXCEPT ![s.name] = obj[s.name]] /\ UNCHANGED <<obj, corig>>
      BY <1>3, <2>3, <3>1, <3>2 DEF Build
    <3> QED
      BY <2>1, <2>3, <3>1, <3>3 DEF Moves
  <2>4. CASE s.at = "building" /\ t = Exit(s, "error") /\ UNCHANGED files
    BY <2>1, <2>4, ExitFacts DEF Keeps, Moves, Points, Codes
  <2> QED
    BY <1>3, <2>1, <2>2, <2>3, <2>4 DEF Build, files
<1>4. CASE Tests(s, t)
  <2>1. s.at = "tests" /\ s.name \in Names /\ UNCHANGED files
    BY <1>4 DEF Tests, Going, Named
  <2>2. CASE t = Exit(s, "unused")
    BY <2>1, <2>2, ExitFacts DEF Keeps, Moves, Codes
  <2>3. CASE t = Exit(s, "ok") /\ s.only
    BY <2>1, <2>3, ExitFacts DEF Keeps, Moves, Codes
  <2>4. CASE t = [s EXCEPT !.at = "guest"]
    BY <2>1, <2>4, AtFacts DEF Moves, Points
  <2> QED
    BY <1>4, <2>1, <2>2, <2>3, <2>4 DEF Tests
<1>5. CASE Guest(s, t)
  <2>1. s.at = "guest" /\ s.name \in Names /\ UNCHANGED files
    BY <1>5 DEF Guest, Going, Named
  <2>2. PICK rc \in Codes : t = [Exit(s, rc) EXCEPT !.saw = <<obj[s.name], linked[s.name]>>]
    BY <1>5 DEF Guest
  <2>3. obj[s.name] \in Kinds /\ linked[s.name] \in Kinds
    BY <2>1 DEF FilesOK, Kinds
  <2> QED
    BY <2>1, <2>2, <2>3, SawFacts DEF Keeps, Moves
<1> QED
  BY <1>1, <1>2, <1>3, <1>4, <1>5 DEF Step

\* A step of a script writes the files of its own translation only, and no
\* backup disappears.
LEMMA StepWrites ==
  ASSUME FilesOK, NEW s \in ScriptType, s.name \in Names, HasBackup(s, corig),
         NEW t, Keeps(s, t), Moves(s, t)
  PROVE  /\ FilesOK' /\ HasBackup(t, corig')
         /\ \A n \in Names : corig[n] # "none" => corig'[n] # "none"
         /\ \A n \in Names : n # s.name =>
              obj'[n] = obj[n] /\ corig'[n] = corig[n] /\ linked'[n] = linked[n]
<1>1. FilesOK' /\ HasBackup(t, corig')
  BY SMTT(30) DEF FilesOK, Keeps, Moves, HasBackup, Equipped, files, Content, Kinds, Wanted
<1>2. \A n \in Names : corig[n] # "none" => corig'[n] # "none"
  BY SMTT(30) DEF FilesOK, Moves, files, Content, Kinds
<1>3. \A n \in Names : n # s.name =>
        obj'[n] = obj[n] /\ corig'[n] = corig[n] /\ linked'[n] = linked[n]
  BY SMTT(30) DEF FilesOK, Moves, files
<1> QED
  BY <1>1, <1>2, <1>3

\* A backup is made of the C object.
LEMMA StepCopies ==
  ASSUME FilesOK, NEW s \in ScriptType, s.name \in Names, HasBackup(s, corig), Copying(s, obj),
         \A n \in Names : corig[n] # "rust" /\ (corig[n] = "none" => obj[n] = "c"),
         NEW t, Keeps(s, t), Moves(s, t)
  PROVE  /\ \A n \in Names : corig'[n] # "rust" /\ (corig'[n] = "none" => obj'[n] = "c")
         /\ Copying(t, obj')
<1>1. corig'[s.name] # "rust" /\ (corig'[s.name] = "none" => obj'[s.name] = "c")
  BY SMTT(30) DEF FilesOK, Moves, files, Copying, HasBackup, Equipped
<1>2. Copying(t, obj')
  BY SMTT(30) DEF FilesOK, Moves, Keeps, files, Copying
<1>3. \A n \in Names : n # s.name => obj'[n] = obj[n] /\ corig'[n] = corig[n]
  BY StepWrites
<1> QED
  BY <1>1, <1>2, <1>3

\* The object and the runner after the script's copy and build.
LEMMA StepMakes ==
  ASSUME FilesOK, NEW s \in ScriptType, s.name \in Names, HasBackup(s, corig),
         MadeOK(s, obj, corig, linked), NEW t, Keeps(s, t), Moves(s, t), s.at # "done"
  PROVE  /\ MadeOK(t, obj', corig', linked')
         /\ (t.at = "done" /\ t.rc = "ok" /\ s.which = "rust" /\ ~s.only) => OfRust(s.name, t.saw)
<1>1. MadeOK(t, obj', corig', linked')
  BY SMTT(40) DEF FilesOK, Moves, Keeps, files, MadeOK, Made, Wanted, HasBackup, Equipped
<1>2. (t.at = "done" /\ t.rc = "ok" /\ s.which = "rust" /\ ~s.only) => OfRust(s.name, t.saw)
  BY SMTT(30) DEF Moves, MadeOK, Made, Wanted, OfRust
<1> QED
  BY <1>1, <1>2

-----------------------------------------------------------------------------
(* The gate *)

treeVars == <<files, script, other, gate>>
TreeStep == TreeNext \/ UNCHANGED treeVars

\* What a step of either script does, with what the other one keeps.
LEMMA ScriptWrites ==
  ASSUME TreeTypes, NEW s \in {script, other}, NEW t, Step(s, t)
  PROVE  /\ Keeps(s, t) /\ Moves(s, t) /\ s.at # "done" /\ s.name \in Names
         /\ FilesOK' /\ HasBackup(t, corig')
         /\ \A n \in Names : corig[n] # "none" => corig'[n] # "none"
         /\ \A n \in Names : n # s.name =>
              obj'[n] = obj[n] /\ corig'[n] = corig[n] /\ linked'[n] = linked[n]
<1>1. FilesOK /\ s \in ScriptType /\ Named(s) /\ HasBackup(s, corig)
  BY DEF TreeTypes, ScriptOK
<1>2. Keeps(s, t) /\ Moves(s, t) /\ s.at # "done" /\ s.name \in Names
  BY <1>1, StepMoves
<1> QED
  BY <1>1, <1>2, StepWrites

\* A backup that is there stays there.
LEMMA BackupsStay ==
  ASSUME TreeTypes, TreeStep
  PROVE  /\ FilesOK' /\ \A n \in Names : corig[n] # "none" => corig'[n] # "none"
         /\ Backups \subseteq Backups'
<1>1. CASE ScriptStep \/ OtherStep
  BY <1>1, ScriptWrites DEF ScriptStep, OtherStep, Backups
<1>2. CASE RestoreOne
  <2>1. corig' = corig /\ linked' = linked
    BY <1>2 DEF RestoreOne
  <2>2. PICK n \in sweep : obj' = [obj EXCEPT ![n] = corig[n]] \/ obj' = [obj EXCEPT ![n] = "torn"]
    BY <1>2 DEF RestoreOne
  <2>3. n \in Names /\ corig[n] \in Content
    BY DEF TreeTypes, FilesOK, GateOK, Backups, Kinds
  <2>4. obj' \in [Names -> Content]
    BY <2>2, <2>3 DEF TreeTypes, FilesOK, Content
  <2> QED
    BY <2>1, <2>4 DEF TreeTypes, FilesOK, Backups
<1>3. CASE Interrupt
  <2>1. corig' = corig /\ linked' = linked
    BY <1>3 DEF Interrupt
  <2>2. obj' \in [Names -> Content]
    BY <1>3 DEF Interrupt, TreeTypes, FilesOK, GateOK, Content
  <2> QED
    BY <2>1, <2>2 DEF TreeTypes, FilesOK, Backups
<1>4. CASE UNCHANGED files
  BY <1>4 DEF TreeTypes, FilesOK, Backups, files
<1> QED
  BY <1>1, <1>2, <1>3, <1>4 DEF TreeStep, treeVars, TreeNext, DevTest, OtherInterrupt, GateStart,
     CheckRestored, Take, SwapBack, Record, Timeout, Kill, CleanActive, CleanAll, CleanCheck

LEMMA ScriptsStep ==
  ASSUME TreeTypes, TreeStep
  PROVE  ScriptOK(script)' /\ ScriptOK(other)'
<1>0. /\ \A n \in Names : corig[n] # "none" => corig'[n] # "none"
      /\ ScriptOK(script) /\ ScriptOK(other)
  BY BackupsStay DEF TreeTypes
<1>1. ASSUME NEW s, ScriptOK(s)
      PROVE  s \in ScriptType /\ Named(s) /\ HasBackup(s, corig')
  BY <1>0, <1>1 DEF ScriptOK, Named, HasBackup, Going, Equipped
<1>2. ASSUME NEW n \in Names, NEW w \in {"c", "rust"}, NEW only \in BOOLEAN
      PROVE  LET s == Start(n, w, only) IN s \in ScriptType /\ Named(s) /\ HasBackup(s, corig')
  BY StartFacts DEF Named, HasBackup, Equipped
<1>3. LET s == NoScript IN s \in ScriptType /\ Named(s) /\ HasBackup(s, corig')
  BY NoScriptFacts DEF Named, HasBackup, Equipped
<1>4. LET s == Exit(script, "error") IN s \in ScriptType /\ Named(s) /\ HasBackup(s, corig')
  BY <1>0, ExitFacts DEF ScriptOK, Named, HasBackup, Equipped, Going, Codes
<1>5. CASE ScriptStep
  <2>1. Keeps(script, script') /\ script.name \in Names /\ HasBackup(script', corig') /\ other' = other
    BY <1>5, ScriptWrites DEF ScriptStep
  <2> QED
    BY <1>0, <1>1, <2>1 DEF ScriptOK, Keeps, Named
<1>6. CASE OtherStep
  <2>1. Keeps(other, other') /\ other.name \in Names /\ HasBackup(other', corig') /\ script' = script
    BY <1>6, ScriptWrites DEF OtherStep
  <2> QED
    BY <1>0, <1>1, <2>1 DEF ScriptOK, Keeps, Named
<1>7. /\ \/ script' \in {script, NoScript, Exit(script, "error")}
         \/ \E n \in Names, w \in {"c", "rust"}, only \in BOOLEAN : script' = Start(n, w, only)
      /\ \/ other' \in {other, script, NoScript}
         \/ \E n \in Names, w \in {"c", "rust"}, only \in BOOLEAN : other' = Start(n, w, only)
      \/ ScriptStep \/ OtherStep
  <2>1. CASE DevTest
    BY <2>1 DEF DevTest
  <2>2. CASE OtherInterrupt \/ GateStart \/ RestoreOne \/ CheckRestored \/ Record \/ Timeout
             \/ Interrupt \/ Kill \/ CleanAll \/ CleanCheck \/ UNCHANGED treeVars
    BY <2>2 DEF OtherInterrupt, GateStart, RestoreOne, CheckRestored, Record, Timeout,
       Interrupt, Kill, CleanAll, CleanCheck, treeVars
  <2>3. CASE Take
    BY <2>3 DEF Take, TreeTypes, GateOK
  <2>4. CASE SwapBack \/ CleanActive
    <3>1. active \in Names \/ script' = script
      BY <2>4 DEF SwapBack, CleanActive, TreeTypes, GateOK, Swapping
    <3>2. /\ other' = other
          /\ script' = script \/ \E only \in BOOLEAN : script' = Start(active, "c", only)
      BY <2>4 DEF SwapBack, CleanActive
    <3> QED
      BY <3>1, <3>2
  <2> QED
    BY <2>1, <2>2, <2>3, <2>4 DEF TreeStep, TreeNext
<1>8. CASE ~ScriptStep /\ ~OtherStep
  <2>1. script' \in ScriptType /\ Named(script') /\ HasBackup(script', corig')
    BY <1>0, <1>1, <1>2, <1>3, <1>4, <1>7, <1>8
  <2>2. other' \in ScriptType /\ Named(other') /\ HasBackup(other', corig')
    BY <1>0, <1>1, <1>2, <1>3, <1>4, <1>7, <1>8
  <2> QED
    BY <2>1, <2>2 DEF ScriptOK, Named
<1> QED
  BY <1>5, <1>6, <1>8

LEMMA GateStep ==
  ASSUME TreeTypes, TreeStep
  PROVE  GateOK' /\ RowsOK'
<1>0. Backups \subseteq Backups' /\ Backups' \subseteq Names /\ GateOK /\ RowsOK
  BY BackupsStay DEF TreeTypes, Backups
<1>1. CASE UNCHANGED gate
  BY <1>0, <1>1 DEF gate, GateOK, RowsOK
<1>2. CASE DevTest \/ CheckRestored \/ CleanCheck \/ Kill
  BY <1>0, <1>2 DEF DevTest, CheckRestored, CleanCheck, Kill, Raise, GateOK, RowsOK, Swapping
<1>3. CASE GateStart
  <2>1. Backups' = Backups
    BY <1>3 DEF GateStart, files, Backups
  <2>2. RowsOK'
    BY <1>0, <1>3 DEF GateStart, RowsOK, Rows, Nothing, Kinds
  <2>3. GateOK'
    BY <1>0, <1>3, <2>1 DEF GateStart, GateOK, Swapping
  <2> QED
    BY <2>2, <2>3
<1>4. CASE RestoreOne
  BY <1>0, <1>4 DEF RestoreOne, GateOK, RowsOK, Swapping
<1>5. CASE Take
  BY <1>0, <1>5 DEF Take, GateOK, RowsOK, Swapping
<1>6. CASE SwapBack
  <2>1. GateOK'
    BY <1>0, <1>6 DEF SwapBack, GateOK, Swapping
  <2>2. verdict' \in Rows /\ loaded' = script.saw /\ rows' = rows
    BY <1>6 DEF SwapBack, Row, Rows
  <2>3. script.saw \in Kinds \X Kinds
    BY DEF TreeTypes, ScriptOK, ScriptType, Kinds
  <2> QED
    BY <1>0, <2>1, <2>2, <2>3 DEF RowsOK
<1>7. CASE Record
  <2>1. GateOK'
    BY <1>0, <1>7 DEF Record, Raise, GateOK, Swapping
  <2>2. verdict' \in Rows /\ loaded' \in Kinds \X Kinds
    BY <1>7 DEF Record, Rows, Nothing, Kinds
  <2>3. rows' = rows \/ (active \in Names /\ rows' = [rows EXCEPT ![active] = <<verdict, loaded>>])
    BY <1>0, <1>7 DEF Record, GateOK, Swapping
  <2>4. rows' \in [Names -> Rows \X (Kinds \X Kinds)]
    BY <1>0, <2>3 DEF RowsOK
  <2> QED
    BY <2>1, <2>2, <2>4 DEF RowsOK
<1>8. CASE Interrupt
  BY <1>0, <1>8 DEF Interrupt, Raise, GateOK, RowsOK, Swapping, Rows, Nothing, Kinds
<1>9. CASE CleanActive \/ CleanAll
  <2>1. Backups' = Backups
    BY <1>9 DEF CleanActive, CleanAll, files, Backups
  <2> QED
    BY <1>0, <1>9, <2>1 DEF CleanActive, CleanAll, GateOK, RowsOK, Swapping
<1> QED
  BY <1>1, <1>2, <1>3, <1>4, <1>5, <1>6, <1>7, <1>8, <1>9 DEF TreeStep, TreeNext, treeVars,
     ScriptStep, OtherStep, OtherInterrupt, Timeout

LEMMA TreeTypesStep ==
  ASSUME TreeTypes, TreeStep
  PROVE  TreeTypes'
BY BackupsStay, ScriptsStep, GateStep DEF TreeTypes

\* Whose turn it is.
LEMMA TurnsStep ==
  ASSUME TreeTypes, Turns, TreeStep
  PROVE  Turns'
<1>0. /\ ScriptOK(script) /\ ScriptOK(other) /\ GateOK
      /\ NoScript.at = "done" /\ ~Going(NoScript)
  BY NoScriptFacts DEF TreeTypes
<1>1. CASE ScriptStep
  <2>1. /\ Keeps(script, script') /\ script.at # "done" /\ UNCHANGED <<other, gate>>
    BY <1>1, ScriptWrites DEF ScriptStep
  <2>2. pc \in Swapping
    BY <1>0, <2>1 DEF Turns
  <2> QED
    BY <2>1, <2>2 DEF Turns, Keeps, gate, Going
<1>2. CASE OtherStep
  <2>1. other.at # "done" /\ UNCHANGED <<script, gate>>
    BY <1>2, ScriptWrites DEF OtherStep
  <2>2. ~(~overlapped /\ (pc # "off" \/ ended))
    BY <2>1 DEF Turns, Going
  <2> QED
    BY <2>1, <2>2 DEF Turns, gate
<1>3. CASE DevTest
  BY <1>3 DEF DevTest, Turns, Swapping
<1>4. CASE OtherInterrupt
  BY <1>0, <1>4 DEF OtherInterrupt, Turns, gate
<1>5. CASE GateStart
  <2>1. /\ pc = "off" /\ pc' = "restore" /\ active' = NoName /\ ended' = FALSE /\ script' = script
        /\ ~overlapped' => ~Going(other)
        /\ ~Going(other) => other' = NoScript
    BY <1>5 DEF GateStart
  <2> QED
    BY <1>0, <2>1 DEF Turns, Swapping
<1>6. CASE RestoreOne
  BY <1>0, <1>6 DEF RestoreOne, Turns, Swapping
<1>7. CASE CheckRestored \/ CleanCheck
  BY <1>0, <1>7 DEF CheckRestored, CleanCheck, Raise, Turns, Swapping
<1>8. CASE Take
  <2>1. CASE todo = {}
    BY <1>0, <1>8, <2>1 DEF Take, Turns, Swapping
  <2>2. CASE todo # {}
    <3>1. PICK n \in todo : /\ active' = n /\ script' = Start(n, "rust", FALSE) /\ pc' = "rust"
      BY <1>8, <2>2 DEF Take
    <3>2. script'.name = n /\ script'.which = "rust" /\ script'.only = FALSE
      BY <1>0, <3>1, StartFacts DEF GateOK
    <3>3. pc = "take" /\ UNCHANGED <<other, ended, overlapped>>
      BY <1>8 DEF Take
    <3> QED
      BY <3>1, <3>2, <3>3 DEF Turns, Swapping
  <2> QED
    BY <2>1, <2>2
<1>9. CASE SwapBack
  <2>1. /\ pc = "rust" /\ pc' = "c" /\ script' = Start(active, "c", Row # "FAIL")
        /\ UNCHANGED <<other, active, ended, overlapped>>
    BY <1>9 DEF SwapBack
  <2>2. script'.name = active /\ script'.which = "c"
    BY <1>0, <2>1, StartFacts DEF GateOK
  <2> QED
    BY <2>1, <2>2 DEF Turns, Swapping
<1>10. CASE Record
  <2>1. /\ pc = "c" /\ script' = NoScript
        /\ pc' = "clean" \/ (pc' = "take" /\ active' = NoName)
        /\ UNCHANGED <<other, ended, overlapped>>
    BY <1>10 DEF Record, Raise
  <2> QED
    BY <1>10, <2>1 DEF Turns, Swapping, Record
<1>11. CASE Timeout
  <2>1. /\ pc \in Swapping /\ script' = Exit(script, "error") /\ UNCHANGED <<other, gate>>
    BY <1>11 DEF Timeout, Swapping
  <2>2. script'.name = script.name /\ script'.which = script.which /\ script'.only = script.only
    BY <1>0, <2>1, ExitFacts DEF ScriptOK, Codes
  <2> QED
    BY <2>1, <2>2 DEF Turns, gate
<1>12. CASE Interrupt
  BY <1>0, <1>12 DEF Interrupt, Raise, Turns, Swapping
<1>13. CASE Kill
  BY <1>0, <1>13 DEF Kill, Turns, Swapping
<1>14. CASE CleanActive
  <2>1. CASE active = NoName
    BY <1>14, <2>1 DEF CleanActive, Turns, Swapping
  <2>2. CASE active # NoName
    <3>1. /\ pc = "clean" /\ pc' = "cleaning" /\ script' = Start(active, "c", TRUE)
          /\ UNCHANGED <<other, active, ended, overlapped>>
      BY <1>14, <2>2 DEF CleanActive
    <3>2. script'.name = active /\ script'.which = "c"
      BY <1>0, <3>1, StartFacts DEF GateOK
    <3> QED
      BY <3>1, <3>2 DEF Turns, Swapping
  <2> QED
    BY <2>1, <2>2
<1>15. CASE CleanAll
  BY <1>15 DEF CleanAll, Turns, Swapping
<1>16. CASE UNCHANGED treeVars
  BY <1>16 DEF treeVars, gate, Turns, Going
<1> QED
  BY <1>1, <1>2, <1>3, <1>4, <1>5, <1>6, <1>7, <1>8, <1>9, <1>10, <1>11, <1>12, <1>13, <1>14,
     <1>15, <1>16 DEF TreeStep, TreeNext

\* A run that began beside another script stays marked.
LEMMA OverlapStays ==
  ASSUME TreeStep, overlapped
  PROVE  overlapped'
BY DEF TreeStep, TreeNext, ScriptStep, OtherStep, DevTest, OtherInterrupt, GateStart,
   RestoreOne, CheckRestored, Take, SwapBack, Record, Timeout, Interrupt, Kill, CleanActive,
   CleanAll, CleanCheck, treeVars, gate

\* The first copy of an object is made while the C one is there.
LEMMA OriginalsStep ==
  ASSUME TreeTypes, Turns, Originals, TreeStep
  PROVE  Originals'
<1> SUFFICES ASSUME ~overlapped' PROVE Originals'
  BY DEF Originals
<1>0. /\ ~overlapped
      /\ \A n \in Names : corig[n] # "rust" /\ (corig[n] = "none" => obj[n] = "c")
      /\ Copying(script, obj) /\ Copying(other, obj)
      /\ FilesOK /\ ScriptOK(script) /\ ScriptOK(other)
  BY OverlapStays DEF Originals, TreeTypes
<1>1. Going(script) => pc \in Swapping
  BY NoScriptFacts DEF Turns
<1>2. ~(Going(script) /\ Going(other))
  BY <1>0, <1>1 DEF Turns, Swapping
<1>3. Copying(NoScript, obj') /\ \A n, w, only : Copying(Start(n, w, only), obj')
  BY NoScriptFacts DEF Copying, Start
<1>4. CASE ScriptStep
  <2>1. /\ Keeps(script, script') /\ Moves(script, script') /\ script.at # "done"
        /\ script.name \in Names /\ other' = other
    BY <1>4, ScriptWrites DEF ScriptStep
  <2>2. /\ \A n \in Names : corig'[n] # "rust" /\ (corig'[n] = "none" => obj'[n] = "c")
        /\ Copying(script', obj')
    BY <1>0, <2>1, StepCopies DEF ScriptOK
  <2>3. Copying(other, obj')
    BY <1>2, <2>1 DEF Copying, Going
  <2> QED
    BY <2>1, <2>2, <2>3 DEF Originals
<1>5. CASE OtherStep
  <2>1. /\ Keeps(other, other') /\ Moves(other, other') /\ other.at # "done"
        /\ other.name \in Names /\ script' = script
    BY <1>5, ScriptWrites DEF OtherStep
  <2>2. /\ \A n \in Names : corig'[n] # "rust" /\ (corig'[n] = "none" => obj'[n] = "c")
        /\ Copying(other', obj')
    BY <1>0, <2>1, StepCopies DEF ScriptOK
  <2>3. Copying(script, obj')
    BY <1>2, <2>1 DEF Copying, Going
  <2> QED
    BY <2>1, <2>2, <2>3 DEF Originals
<1>6. CASE RestoreOne \/ Interrupt
  <2>1. /\ corig' = corig /\ UNCHANGED other /\ pc # "off"
        /\ script' = NoScript \/ (script' = script /\ pc \notin Swapping)
    BY <1>6 DEF RestoreOne, Interrupt, Swapping
  <2>2. \A n \in Names : n \notin sweep => obj'[n] = obj[n]
    BY <1>0, <1>6 DEF RestoreOne, Interrupt, FilesOK
  <2>3. \A n \in Names : corig[n] = "none" => obj'[n] = obj[n]
    BY <2>2 DEF TreeTypes, GateOK, Backups
  <2>4. ~Going(other) /\ ~Going(script')
    BY <1>0, <1>1, <2>1, NoScriptFacts DEF Turns
  <2>5. Copying(other, obj') /\ Copying(script', obj')
    BY <2>4 DEF Copying, Going
  <2> QED
    BY <1>0, <2>1, <2>3, <2>5 DEF Originals
<1>7. ASSUME UNCHANGED files, Copying(script', obj), Copying(other', obj)
      PROVE  Originals'
  BY <1>0, <1>7 DEF Originals, files
<1>8. CASE Timeout
  <2>1. script' = Exit(script, "error") /\ other' = other /\ UNCHANGED files
    BY <1>8 DEF Timeout
  <2>2. script'.at = "done"
    BY <1>0, <2>1, ExitFacts DEF ScriptOK, Codes
  <2> QED
    BY <1>0, <1>7, <2>1, <2>2 DEF Copying
<1>9. CASE Kill \/ OtherInterrupt \/ GateStart \/ Record \/ CleanAll
  <2>1. /\ script' \in {script, NoScript} /\ other' \in {other, script, NoScript} /\ UNCHANGED files
    BY <1>9 DEF Kill, OtherInterrupt, GateStart, Record, CleanAll
  <2> QED
    BY <1>0, <1>3, <1>7, <2>1 DEF files
<1>10. CASE DevTest \/ Take \/ SwapBack \/ CleanActive
  <2>1. /\ script' = script \/ \E n, w, only : script' = Start(n, w, only)
        /\ other' = other \/ \E n, w, only : other' = Start(n, w, only)
        /\ UNCHANGED files
    <3>1. CASE DevTest
      BY <3>1 DEF DevTest
    <3>2. CASE Take
      BY <3>2 DEF Take
    <3>3. CASE SwapBack
      BY Zenon, <3>3 DEF SwapBack
    <3>4. CASE CleanActive
      BY Zenon, <3>4 DEF CleanActive
    <3> QED
      BY <1>10, <3>1, <3>2, <3>3, <3>4
  <2> QED
    BY <1>0, <1>3, <1>7, <2>1 DEF files
<1>11. CASE CheckRestored \/ CleanCheck \/ UNCHANGED treeVars
  BY <1>0, <1>7, <1>11 DEF CheckRestored, CleanCheck, treeVars
<1> QED
  BY <1>4, <1>5, <1>6, <1>8, <1>9, <1>10, <1>11 DEF TreeStep, TreeNext

\* The gate's script makes what it was asked for, and its guest loads that.
LEMMA SwappedStep ==
  ASSUME TreeTypes, Turns, Swapped, TreeStep
  PROVE  Swapped'
<1> SUFFICES ASSUME ~overlapped', pc' \in Swapping
             PROVE  MadeOK(script', obj', corig', linked')
  BY DEF Swapped
<1>0. ~overlapped /\ ScriptOK(script) /\ FilesOK /\ GateOK
  BY OverlapStays DEF TreeTypes
<1>1. ASSUME NEW n \in Names, NEW w \in {"c", "rust"}, NEW only \in BOOLEAN,
             script' = Start(n, w, only)
      PROVE  MadeOK(script', obj', corig', linked')
  BY <1>1, StartFacts DEF MadeOK, Made
<1>2. CASE ScriptStep
  <2>1. /\ Keeps(script, script') /\ Moves(script, script') /\ script.at # "done"
        /\ script.name \in Names /\ pc' = pc
    BY <1>2, ScriptWrites DEF ScriptStep, gate
  <2>2. MadeOK(script, obj, corig, linked)
    BY <1>0, <2>1 DEF Swapped
  <2> QED
    BY <1>0, <2>1, <2>2, StepMakes DEF ScriptOK
<1>3. CASE Take
  BY <1>0, <1>1, <1>3 DEF Take, GateOK, Swapping
<1>4. CASE SwapBack
  <2>1. active \in Names /\ script' = Start(active, "c", Row # "FAIL")
    BY <1>0, <1>4 DEF SwapBack, GateOK, Swapping
  <2> QED
    BY <1>1, <2>1
<1>5. CASE CleanActive
  <2>1. active \in Names /\ script' = Start(active, "c", TRUE)
    BY <1>0, <1>5 DEF CleanActive, GateOK, Swapping
  <2> QED
    BY <1>1, <2>1
<1>6. CASE Timeout
  <2>1. script' = Exit(script, "error")
    BY <1>6 DEF Timeout
  <2>2. script'.at = "done" /\ script'.rc = "error"
    BY <1>0, <2>1, ExitFacts DEF ScriptOK, Codes
  <2> QED
    BY <2>2 DEF MadeOK, Made
<1>7. CASE OtherStep
  <2>1. Going(other) /\ pc' = pc
    BY <1>7, ScriptWrites DEF OtherStep, Going, gate
  <2> QED
    BY <1>0, <2>1 DEF Turns, Swapping
<1>8. CASE OtherInterrupt \/ UNCHANGED treeVars
  BY <1>0, <1>8 DEF OtherInterrupt, treeVars, files, gate, Swapped
<1>9. ~(DevTest \/ GateStart \/ RestoreOne \/ CheckRestored \/ Record \/ Interrupt \/ Kill
        \/ CleanAll \/ CleanCheck)
  BY DEF DevTest, GateStart, RestoreOne, CheckRestored, Record, Interrupt, Kill, CleanAll,
     CleanCheck, Raise, Swapping
<1> QED
  BY <1>2, <1>3, <1>4, <1>5, <1>6, <1>7, <1>8, <1>9 DEF TreeStep, TreeNext

LEMMA LoadsStep ==
  ASSUME TreeTypes, Turns, Swapped, Loads, TreeStep
  PROVE  Loads'
<1> SUFFICES ASSUME ~overlapped' PROVE Loads'
  BY DEF Loads
<1>0. /\ ~overlapped /\ ScriptOK(script) /\ FilesOK /\ GateOK /\ RowsOK
      /\ (pc = "rust" /\ ~Going(script) /\ script.rc = "ok") => OfRust(active, script.saw)
      /\ (pc = "c" /\ verdict = "PASS") => OfRust(active, loaded)
      /\ PassIsOfRust
  BY OverlapStays DEF TreeTypes, Loads
<1>1. ASSUME rows' = rows PROVE PassIsOfRust'
  BY <1>0, <1>1 DEF PassIsOfRust
<1>2. CASE ScriptStep
  <2>1. /\ Keeps(script, script') /\ Moves(script, script') /\ script.at # "done"
        /\ script.name \in Names /\ UNCHANGED <<pc, rows, active, verdict, loaded>>
    BY <1>2, ScriptWrites DEF ScriptStep, gate
  <2>2. ASSUME pc = "rust", script'.at = "done", script'.rc = "ok"
        PROVE  OfRust(active, script'.saw)
    <3>1. MadeOK(script, obj, corig, linked)
      BY <1>0, <2>2 DEF Swapped, Swapping
    <3>2. script.name = active /\ script.which = "rust" /\ ~script.only
      BY <2>2 DEF Turns, Swapping
    <3> QED
      BY <1>0, <2>1, <2>2, <3>1, <3>2, StepMakes DEF ScriptOK
  <2> QED
    BY <1>0, <1>1, <2>1, <2>2 DEF Loads, Going
<1>3. CASE SwapBack
  <2>1. /\ pc = "rust" /\ ~Going(script) /\ verdict' = Row /\ loaded' = script.saw
        /\ pc' = "c" /\ UNCHANGED <<active, rows>>
    BY <1>3 DEF SwapBack
  <2>2. Row = "PASS" => OfRust(active, script.saw)
    BY <1>0, <2>1 DEF Row
  <2> QED
    BY <1>1, <2>1, <2>2 DEF Loads
<1>4. CASE Record
  <2>1. /\ pc = "c" /\ active \in Names /\ pc' \notin {"rust", "c"}
        /\ rows' = rows \/ rows' = [rows EXCEPT ![active] = <<verdict, loaded>>]
    BY <1>0, <1>4 DEF Record, Raise, GateOK, Swapping
  <2>2. CASE rows' = rows
    BY <1>1, <2>1, <2>2 DEF Loads
  <2>3. CASE rows' = [rows EXCEPT ![active] = <<verdict, loaded>>]
    <3>1. rows'[active] = <<verdict, loaded>> /\ \A n \in Names \ {active} : rows'[n] = rows[n]
      BY <1>0, <2>1, <2>3 DEF RowsOK
    <3>2. ASSUME NEW n \in Names, rows'[n][1] = "PASS" PROVE OfRust(n, rows'[n][2])
      <4>1. CASE n = active
        BY <1>0, <2>1, <3>1, <3>2, <4>1
      <4>2. CASE n # active
        BY <1>0, <3>1, <3>2, <4>2 DEF PassIsOfRust, OfRust
      <4> QED
        BY <4>1, <4>2
    <3> QED
      BY <2>1, <3>2 DEF Loads, PassIsOfRust, OfRust
  <2> QED
    BY <2>1, <2>2, <2>3
<1>5. CASE GateStart
  <2>1. pc' = "restore" /\ \A n \in Names : rows'[n] = <<"none", Nothing>>
    BY <1>5 DEF GateStart
  <2> QED
    BY <2>1 DEF Loads, PassIsOfRust
<1>6. CASE Take
  <2>1. rows' = rows /\ (pc' = "clean" \/ pc' = "rust")
    BY <1>6 DEF Take
  <2>2. ASSUME pc' = "rust" PROVE Going(script')
    <3>1. PICK n \in todo : script' = Start(n, "rust", FALSE)
      BY <1>6, <2>2 DEF Take
    <3> QED
      BY <1>0, <3>1, StartFacts DEF GateOK, Going
  <2> QED
    BY <1>1, <2>1, <2>2 DEF Loads
<1>7. CASE Timeout
  <2>1. script' = Exit(script, "error") /\ UNCHANGED <<pc, rows, active, verdict, loaded>>
    BY <1>7 DEF Timeout, gate
  <2>2. script'.rc = "error"
    BY <1>0, <2>1, ExitFacts DEF ScriptOK, Codes
  <2> QED
    BY <1>0, <1>1, <2>1, <2>2 DEF Loads
<1>8. CASE OtherStep \/ OtherInterrupt \/ UNCHANGED treeVars
  <2>1. UNCHANGED <<script, pc, rows, active, verdict, loaded>>
    BY <1>8 DEF OtherStep, OtherInterrupt, treeVars, gate
  <2> QED
    BY <1>0, <1>1, <2>1 DEF Loads, Going
<1>9. CASE DevTest \/ RestoreOne \/ CheckRestored \/ Interrupt \/ Kill \/ CleanActive
           \/ CleanAll \/ CleanCheck
  <2>1. rows' = rows /\ pc' \notin {"rust", "c"}
    BY <1>9 DEF DevTest, RestoreOne, CheckRestored, Interrupt, Kill, CleanActive, CleanAll,
       CleanCheck, Raise
  <2> QED
    BY <1>1, <2>1 DEF Loads
<1> QED
  BY <1>2, <1>3, <1>4, <1>5, <1>6, <1>7, <1>8, <1>9 DEF TreeStep, TreeNext

\* What the run has put back, and the tree it leaves.
LEMMA PutBackStep ==
  ASSUME TreeTypes, Turns, Swapped, PutBack, Restored, TreeStep
  PROVE  PutBack' /\ Restored'
<1> SUFFICES ASSUME ~overlapped', pc' # "off" \/ ended'
             PROVE  /\ \A n \in touched' \ {active'} : Back(n)'
                    /\ (pc' \in {"clean_all", "clean_check"} /\ ~err') =>
                         \A n \in touched' : Back(n)'
                    /\ Restored'
  BY DEF PutBack, Restored
<1>0. /\ ~overlapped /\ ScriptOK(script) /\ FilesOK /\ GateOK /\ NoName \notin touched
      /\ NoName \notin touched'
  BY OverlapStays, GateStep, SharedTreeAssumption DEF TreeTypes, GateOK
<1>1. ASSUME UNCHANGED <<corig, linked>>, NEW n, Back(n) PROVE Back(n)'
  BY <1>1 DEF Back
<1>a. ASSUME UNCHANGED <<corig, linked, touched, active, ended>>, pc # "off"
      PROVE  (\A n \in touched' \ {active'} : Back(n)') /\ Restored'
  <2>1. ~ended
    BY <1>a DEF Turns
  <2>2. \A n \in touched \ {active} : Back(n)
    BY <1>0, <1>a DEF PutBack
  <2>3. \A n \in touched' \ {active'} : Back(n)'
    BY Zenon, <1>1, <1>a, <2>2
  <2> QED
    BY <1>a, <2>1, <2>3 DEF Restored
<1>2. CASE ScriptStep
  <2>1. /\ script.at # "done" /\ UNCHANGED <<pc, touched, active, ended>>
        /\ \A n \in Names : n # script.name => corig'[n] = corig[n] /\ linked'[n] = linked[n]
    BY <1>2, ScriptWrites DEF ScriptStep, gate
  <2>2. pc \in Swapping /\ script.name = active
    BY <2>1, NoScriptFacts DEF Turns
  <2>3. ~ended
    BY <2>2 DEF Turns, Swapping
  <2>4. \A n \in touched \ {active} : Back(n) /\ n \in Names
    BY <1>0, <2>2 DEF PutBack, Swapping, GateOK
  <2>5. \A n \in touched' \ {active'} : Back(n)'
    BY <2>1, <2>2, <2>4 DEF Back
  <2> QED
    BY <2>1, <2>2, <2>3, <2>5 DEF Restored, Swapping
<1>3. CASE OtherStep
  <2>1. Going(other) /\ UNCHANGED <<pc, ended>>
    BY <1>3, ScriptWrites DEF OtherStep, Going, gate
  <2> QED
    BY <1>0, <2>1 DEF Turns
<1>4. CASE OtherInterrupt \/ Timeout \/ UNCHANGED treeVars
  <2>1. UNCHANGED <<files, gate>>
    BY <1>4 DEF OtherInterrupt, Timeout, treeVars
  <2>2. UNCHANGED <<obj, corig, linked, pc, touched, active, err, ended, overlapped>>
    BY <2>1 DEF files, gate
  <2> QED
    BY <2>2 DEF PutBack, Restored, Back
<1>5. CASE DevTest
  BY <1>5 DEF DevTest
<1>6. CASE GateStart
  <2>1. touched' = {} /\ ended' = FALSE
    BY <1>6 DEF GateStart
  <2> QED
    BY <2>1 DEF Restored
<1>7. CASE RestoreOne
  <2>1. /\ UNCHANGED <<corig, linked, touched, active, ended>> /\ pc \in {"restore", "clean_all"}
        /\ \/ UNCHANGED <<pc, err>>
           \/ pc = "restore" /\ pc' = "clean"
           \/ pc = "clean_all" /\ err'
    BY <1>7 DEF RestoreOne
  <2>2. ASSUME pc' \in {"clean_all", "clean_check"}, ~err', NEW n \in touched' PROVE Back(n)'
    <3>1. pc = "clean_all" /\ ~err /\ n \in touched
      BY <2>1, <2>2
    <3>2. Back(n)
      BY <1>0, <3>1 DEF PutBack
    <3> QED
      BY Zenon, <1>1, <2>1, <3>2
  <2> QED
    BY Zenon, <1>a, <2>1, <2>2
<1>8. CASE CheckRestored \/ SwapBack \/ Interrupt
  <2>1. /\ UNCHANGED <<corig, linked, touched, active, ended>>
        /\ pc # "off" /\ pc' \in {"take", "clean", "c"}
    BY <1>8 DEF CheckRestored, SwapBack, Interrupt, Raise, files
  <2> QED
    BY <1>a, <2>1
<1>9. CASE Take
  <2>1. /\ UNCHANGED <<corig, linked, ended>> /\ pc = "take" /\ pc' \in {"clean", "rust"}
        /\ \/ UNCHANGED <<touched, active>>
           \/ touched' \ {active'} \subseteq touched
    BY <1>9 DEF Take, files
  <2>2. ~ended /\ active = NoName
    BY <2>1 DEF Turns
  <2>3. \A n \in touched : Back(n)
    BY <1>0, <2>1, <2>2 DEF PutBack
  <2> QED
    BY <1>1, <2>1, <2>2, <2>3 DEF Restored
<1>10. ASSUME pc \in {"c", "cleaning"}, script.at = "done", script.rc # "error"
       PROVE  \A n \in touched : Back(n)
  <2>1. MadeOK(script, obj, corig, linked) /\ script.name = active /\ script.which = "c"
    BY <1>0, <1>10 DEF Swapped, Swapping, Turns
  <2>2. Back(active)
    BY <1>10, <2>1 DEF MadeOK, Made, Wanted, Back
  <2> QED
    BY <1>0, <1>10, <2>2 DEF PutBack
<1>11. CASE Record
  <2>1. /\ UNCHANGED <<corig, linked, touched, ended>> /\ pc = "c" /\ pc' \in {"take", "clean"}
        /\ script.at = "done" /\ (active' # active => script.rc # "error")
    BY <1>11 DEF Record, Raise, files, Going
  <2>2. ~ended
    BY <2>1 DEF Turns
  <2>3. CASE active' = active
    BY <1>a, <2>1, <2>3
  <2>4. CASE active' # active
    BY <1>1, <1>10, <2>1, <2>2, <2>4 DEF Restored
  <2> QED
    BY <2>3, <2>4
<1>12. CASE Kill
  BY <1>12 DEF Kill, Turns
<1>13. CASE CleanActive
  <2>1. /\ UNCHANGED <<corig, linked, touched, active, ended>> /\ pc = "clean"
        /\ (pc' = "clean_all" => active = NoName) /\ pc' # "clean_check"
    BY <1>13 DEF CleanActive, files
  <2>2. \A n \in touched' \ {active'} : Back(n)' /\ Restored'
    BY <1>a, <2>1
  <2> QED
    BY <1>0, <1>a, <2>1, <2>2
<1>14. CASE CleanAll
  <2>1. /\ UNCHANGED <<corig, linked, touched, active, ended>> /\ pc = "cleaning"
        /\ script.at = "done" /\ (~err' => script.rc = "ok")
    BY <1>14 DEF CleanAll, files, Going
  <2>2. ASSUME ~err', NEW n \in touched' PROVE Back(n)'
    <3>1. script.rc # "error" /\ n \in touched
      BY <2>1, <2>2
    <3> QED
      BY <1>1, <1>10, <2>1, <3>1
  <2> QED
    BY Zenon, <1>a, <2>1, <2>2
<1>15. CASE CleanCheck
  <2>1. /\ UNCHANGED <<obj, corig, linked, touched, active>> /\ pc \in {"clean_all", "clean_check"}
        /\ pc' = "off" /\ (~err' => ~err /\ pristine)
    BY <1>15 DEF CleanCheck, files
  <2>2. ASSUME ~err', NEW n \in touched
        PROVE  obj[n] = corig[n] /\ (n \in Skel => linked[n] = obj[n])
    <3>1. Back(n) /\ n \in Names
      BY <1>0, <2>1, <2>2 DEF PutBack, GateOK
    <3> QED
      BY <2>1, <2>2, <3>1 DEF Back, pristine, Backups
  <2>3. \A n \in touched' \ {active'} : Back(n)'
    <3>1. \A n \in touched \ {active} : Back(n)
      BY <1>0, <2>1 DEF PutBack
    <3> QED
      BY Zenon, <1>1, <2>1, <3>1
  <2>4. Restored'
    BY <2>1, <2>2 DEF Restored
  <2> QED
    BY <2>1, <2>3, <2>4
<1> QED
  BY <1>2, <1>3, <1>4, <1>5, <1>6, <1>7, <1>8, <1>9, <1>11, <1>12, <1>13, <1>14, <1>15
     DEF TreeStep, TreeNext

LEMMA TreeInitInv == TreeInit => TreeInv
<1> SUFFICES ASSUME TreeInit PROVE TreeInv
  OBVIOUS
<1>1. NoScript \in ScriptType /\ NoScript.at = "done" /\ ~Going(NoScript)
  BY NoScriptFacts
<1>2. FilesOK /\ ScriptOK(script) /\ ScriptOK(other)
  BY <1>1 DEF TreeInit, FilesOK, ScriptOK, Named, HasBackup, Equipped, Content, Kinds
<1>3. GateOK
  BY DEF TreeInit, GateOK, Swapping
<1>4. RowsOK
  BY DEF TreeInit, RowsOK, Rows, Nothing, Kinds
<1>5. Turns
  BY <1>1 DEF TreeInit, Turns, Swapping
<1>6. Originals
  BY <1>1 DEF TreeInit, Originals, Copying
<1>7. Swapped /\ PutBack /\ Restored
  BY DEF TreeInit, Swapped, Swapping, PutBack, Restored
<1>8. PassIsOfRust
  BY DEF TreeInit, PassIsOfRust
<1>9. Loads
  BY <1>8 DEF TreeInit, Loads
<1> QED
  BY <1>2, <1>3, <1>4, <1>5, <1>6, <1>7, <1>9 DEF TreeInv, TreeTypes

\* A step of the guard is none of the tree's.
LEMMA NextIsTreeStep == [Next]_<<vars, gvars>> => TreeStep
<1>1. UNCHANGED vars => TreeStep
  BY DEF vars, TreeStep, treeVars
<1>2. GuardNext => TreeStep
  BY <1>1 DEF GuardNext, Rebuild, GuardStart, Save, GuardKill, Checkout, Compare, Read,
     TreeStep, treeVars
<1> QED
  BY <1>1, <1>2 DEF Next, TreeStep

LEMMA TreeInvariance == Spec => []TreeInv
<1>1. TreeInv /\ [Next]_<<vars, gvars>> => TreeInv'
  BY NextIsTreeStep, TreeTypesStep, TurnsStep, OriginalsStep, SwappedStep, LoadsStep, PutBackStep
     DEF TreeInv
<1>2. Init => TreeInv
  BY TreeInitInv DEF Init
<1> QED
  BY <1>1, <1>2, PTL DEF Spec

\* The files of the shared tree, the scripts and the gate's variables keep
\* their types, whoever runs in the tree and whatever is cut short in it: a
\* script has its translation and a backup to install from.
THEOREM TreeTypeCorrect == Spec => []TreeTypeOK
<1>1. TreeInv => TreeTypeOK
  BY DEF TreeInv, TreeTypes, FilesOK, ScriptOK, GateOK, RowsOK, Rows, Kinds, TreeTypeOK
<1> QED
  BY <1>1, TreeInvariance, PTL

\* The first copy swap-and-test.sh makes of an object is never made of the
\* Rust one, whatever was interrupted, killed or cut short before, as long as
\* no run of the gate began while another script was at work.
THEOREM BackupsAreNotRust == Spec => []BackupIsNotRust
<1>1. TreeInv => BackupIsNotRust
  BY DEF TreeInv, Originals, BackupIsNotRust
<1> QED
  BY <1>1, TreeInvariance, PTL

\* Every PASS of the serial phase is of a guest that loaded the Rust object,
\* from a runner built with its skeleton where a test includes it.
THEOREM PassesAreOfRust == Spec => []PassIsOfRust
<1>1. TreeInv => PassIsOfRust
  BY DEF TreeInv, Loads, PassIsOfRust
<1> QED
  BY <1>1, TreeInvariance, PTL

\* A run of the gate that ends by itself without an error of its cleanup has
\* put back every object it swapped, with the runner that was built from it.
THEOREM RunsRestore == Spec => []Restored
<1>1. TreeInv => Restored
  BY DEF TreeInv
<1> QED
  BY <1>1, TreeInvariance, PTL

-----------------------------------------------------------------------------
(* The guard *)

LEMMA NoRowFacts ==
  /\ NoRow \in RowType /\ NoRow.verdict = "none" /\ Idle \in JobType /\ Idle.at = "idle"
  /\ \A k \in Kinds, v \in 1 .. MaxEdits + 1 :
       [NoRow EXCEPT !.c = k, !.r = v] \in RowType
<1>1. 0 \in 0 .. MaxEdits + 1 /\ 1 .. MaxEdits + 1 \subseteq 0 .. MaxEdits + 1
  BY EquivGuardAssumption
<1>2. NoRow \in RowType /\ NoRow.verdict = "none"
  BY <1>1 DEF NoRow, RowType, Kinds
<1>3. ASSUME NEW k \in Kinds, NEW v \in 1 .. MaxEdits + 1
      PROVE  [NoRow EXCEPT !.c = k, !.r = v] \in RowType
  BY <1>1 DEF NoRow, RowType, Kinds
<1> QED
  BY <1>2, <1>3 DEF Idle, JobType

\* The rows a run of the guard keeps or proves.
LEMMA UpdatedFacts ==
  ASSUME GuardInv, NEW n \in Names
  PROVE  /\ Updated[n] \in RowType /\ RowOK(Updated[n])
         /\ Updated[n].verdict = "none" <=> Updated[n] = NoRow
<1>1. Updated[n] = IF job[n].at = "done" THEN job[n].row ELSE base[n]
  BY DEF Updated
<1>2. CASE job[n].at = "done"
  BY <1>1, <1>2, NoRowFacts DEF GuardInv, JobOK, JobType
<1>3. CASE job[n].at # "done"
  BY <1>1, <1>3 DEF GuardInv, EquivIsOfC, RowOK
<1> QED
  BY <1>2, <1>3

\* A proof of a run that compared the object with its backup first.
LEMMA JobStep ==
  ASSUME TreeInv, GuardInv, NEW n \in Names, Compare(n) \/ Read(n)
  PROVE  GuardInv'
<1>0. /\ job \in [Names -> JobType] /\ \A m \in Names : JobOK(m) /\ obj[n] \in Kinds
      /\ UNCHANGED <<vars, build, base, torn, gpc, gstatus, guards>> /\ overlapped' = overlapped
  BY DEF TreeInv, TreeTypes, FilesOK, Kinds, GuardInv, Compare, Read, vars, gate
<1>1. ASSUME NEW j \in JobType, job' = [job EXCEPT ![n] = j],
             j.at # "cached",
             j.at = "compared" => j.row.cmp # "rust" \/ overlapped,
             j.at = "done" => j.row.verdict # "none" /\ RowOK(j.row)
      PROVE  GuardInv'
  <2>1. job' \in [Names -> JobType] /\ job'[n] = j /\ \A m \in Names \ {n} : job'[m] = job[m]
    BY <1>0, <1>1
  <2>2. JobOK(n)'
    BY <1>0, <1>1, <2>1 DEF JobOK, RowOK
  <2>3. \A m \in Names \ {n} : JobOK(m)'
    BY <1>0, <2>1 DEF JobOK, RowOK
  <2>4. EquivIsOfC'
    BY <1>0 DEF GuardInv, EquivIsOfC
  <2> QED
    BY <1>0, <2>1, <2>2, <2>3, <2>4 DEF GuardInv
<1>2. CASE Compare(n)
  <2>1. CASE corig[n] \notin {"none", obj[n]}
    <3> DEFINE j == [at |-> "done", row |-> [job[n].row EXCEPT !.verdict = "ERROR"]]
    <3>1. job' = [job EXCEPT ![n] = j]
      BY <1>2, <2>1 DEF Compare
    <3>2. j \in JobType /\ j.at = "done" /\ j.row.verdict = "ERROR"
      BY <1>0 DEF JobType, RowType, Verdicts
    <3> QED
      BY <1>1, <3>1, <3>2 DEF RowOK
  <2>2. CASE corig[n] \in {"none", obj[n]}
    <3> DEFINE j == [at |-> "compared", row |-> [job[n].row EXCEPT !.cmp = obj[n]]]
    <3>1. job' = [job EXCEPT ![n] = j]
      BY <1>2, <2>2 DEF Compare
    <3>2. j \in JobType /\ j.at = "compared" /\ j.row.cmp = obj[n]
      BY <1>0 DEF JobType, RowType
    <3>3. obj[n] # "rust" \/ overlapped
      BY <2>2 DEF TreeInv, Originals
    <3> QED
      BY <1>1, <3>1, <3>2, <3>3
  <2> QED
    BY <2>1, <2>2
<1>3. CASE Read(n)
  <2>1. PICK v \in IF obj[n] = "torn" THEN {"ERROR"} ELSE Verdicts :
          job' = [job EXCEPT ![n] =
            [at |-> "done", row |-> [job[n].row EXCEPT !.verdict = v, !.read = obj[n]]]]
    BY <1>3 DEF Read
  <2> DEFINE j == [at |-> "done", row |-> [job[n].row EXCEPT !.verdict = v, !.read = obj[n]]]
  <2>2. v \in Verdicts /\ v # "none" /\ (v = "EQUIV" => obj[n] # "torn") /\ job[n].at = "compared"
    BY <1>3, <2>1 DEF Verdicts, Read
  <2>3. /\ j \in JobType /\ j.at = "done" /\ j.row.verdict = v /\ j.row.read = obj[n]
        /\ j.row.cmp = job[n].row.cmp
    BY <1>0, <2>2 DEF JobType, RowType
  <2>4. job[n].row.cmp # "rust" \/ overlapped
    BY <1>0, <2>2 DEF JobOK
  <2>5. obj[n] \in Content
    BY DEF TreeInv, TreeTypes, FilesOK
  <2>6. RowOK(j.row)
    BY <2>2, <2>3, <2>4, <2>5 DEF RowOK, Content
  <2> QED
    BY <1>1, <2>1, <2>2, <2>3, <2>6
<1> QED
  BY <1>2, <1>3

LEMMA GuardStep ==
  ASSUME TreeInv, GuardInv, [Next]_<<vars, gvars>>
  PROVE  GuardInv'
<1>0. overlapped => overlapped'
  BY NextIsTreeStep, OverlapStays
<1>1. CASE UNCHANGED gvars
  <2>1. UNCHANGED <<build, base, torn, gpc, job, gstatus, guards>>
    BY <1>1 DEF gvars
  <2>2. EquivIsOfC' /\ \A n \in Names : JobOK(n)'
    BY <1>0, <2>1 DEF GuardInv, EquivIsOfC, JobOK, RowOK
  <2> QED
    BY <2>1, <2>2 DEF GuardInv
<1>2. CASE Rebuild
  <2>1. PICK m \in Names : build[m] <= MaxEdits /\ build' = [build EXCEPT ![m] = @ + 1]
    BY <1>2 DEF Rebuild
  <2>2. build' \in [Names -> 1 .. MaxEdits + 1]
    BY <2>1, EquivGuardAssumption DEF GuardInv
  <2>3. UNCHANGED <<base, gpc, job, gstatus>>
    BY <1>2 DEF Rebuild
  <2>4. EquivIsOfC' /\ \A n \in Names : JobOK(n)'
    BY <1>0, <2>3 DEF GuardInv, EquivIsOfC, JobOK, RowOK
  <2> QED
    BY <2>2, <2>3, <2>4 DEF GuardInv
<1>3. CASE Checkout
  <2>1. UNCHANGED <<build, base, gpc, job, gstatus>>
    BY <1>3 DEF Checkout
  <2>2. EquivIsOfC' /\ \A n \in Names : JobOK(n)'
    BY <1>0, <2>1 DEF GuardInv, EquivIsOfC, JobOK, RowOK
  <2> QED
    BY <2>1, <2>2 DEF GuardInv
<1>4. CASE GuardStart
  <2>1. UNCHANGED <<build, base>> /\ gpc' \in {"on", gpc} /\ gstatus' \in {"crash", "none"}
    BY <1>4 DEF GuardStart
  <2>2. EquivIsOfC'
    BY <1>0, <2>1 DEF GuardInv, EquivIsOfC
  <2>3. CASE torn
    <3>1. job' = job
      BY <1>4, <2>3 DEF GuardStart
    <3>2. \A n \in Names : JobOK(n)'
      BY <1>0, <2>1, <3>1 DEF GuardInv, JobOK, RowOK
    <3> QED
      BY <2>1, <2>2, <3>1, <3>2 DEF GuardInv
  <2>4. CASE ~torn
    <3>1. PICK scope \in SUBSET Names \ {{}} :
            job' = [n \in Names |->
                IF n \notin scope THEN Idle
                ELSE IF Unchanged(n) THEN [at |-> "cached", row |-> base[n]]
                ELSE [at |-> "queued", row |-> [NoRow EXCEPT !.c = obj[n], !.r = build[n]]]]
      BY <1>4, <2>4 DEF GuardStart
    <3>2. ASSUME NEW n \in Names PROVE job'[n] \in JobType /\ JobOK(n)'
      <4>0. /\ base[n] \in RowType /\ base'[n] = base[n]
            /\ [NoRow EXCEPT !.c = obj[n], !.r = build[n]] \in RowType
        BY <2>1, NoRowFacts DEF GuardInv, TreeInv, TreeTypes, FilesOK, Kinds
      <4>1. CASE job'[n] = Idle
        BY <4>1, NoRowFacts DEF JobOK
      <4>2. CASE job'[n] = [at |-> "cached", row |-> base[n]]
        BY <4>0, <4>2 DEF JobOK, JobType
      <4>3. CASE job'[n] = [at |-> "queued", row |-> [NoRow EXCEPT !.c = obj[n], !.r = build[n]]]
        BY <4>0, <4>3 DEF JobOK, JobType
      <4> QED
        BY <3>1, <4>1, <4>2, <4>3
    <3>3. job' \in [Names -> JobType]
      <4>1. job' = [n \in Names |-> job'[n]]
        BY <3>1
      <4> QED
        BY <3>2, <4>1
    <3> QED
      BY <2>1, <2>2, <3>2, <3>3 DEF GuardInv
  <2> QED
    BY <2>3, <2>4
<1>5. CASE Save \/ GuardKill
  <2>1. /\ build' = build /\ gpc' = "off" /\ gstatus' \in {"alarm", "ok", "none"}
        /\ job' = [n \in Names |-> Idle]
    BY <1>5 DEF Save, GuardKill
  <2>2. \/ base' = base \/ base' = Updated
        \/ \E kept \in SUBSET Names :
             base' = [n \in Names |-> IF n \in kept THEN Updated[n] ELSE NoRow]
    BY <1>5 DEF Save, GuardKill
  <2>3. job' \in [Names -> JobType] /\ \A n \in Names : JobOK(n)'
    BY <2>1, NoRowFacts DEF JobOK
  <2>4. ASSUME NEW n \in Names
        PROVE  /\ base'[n] \in RowType /\ RowOK(base'[n])
               /\ base'[n].verdict = "none" <=> base'[n] = NoRow
    <3>1. base'[n] \in {base[n], Updated[n], NoRow}
      BY <2>2
    <3>2. CASE base'[n] = base[n]
      BY <3>2 DEF GuardInv, EquivIsOfC, RowOK
    <3>3. CASE base'[n] = Updated[n]
      BY <3>3, UpdatedFacts
    <3>4. CASE base'[n] = NoRow
      BY <3>4, NoRowFacts DEF RowOK
    <3> QED
      BY <3>1, <3>2, <3>3, <3>4
  <2>5. base' \in [Names -> RowType]
    <3>1. base' = [n \in Names |-> base'[n]]
      BY <2>2 DEF GuardInv, Updated
    <3> QED
      BY <2>4, <3>1
  <2>6. EquivIsOfC'
    BY <1>0, <2>4 DEF EquivIsOfC, RowOK
  <2> QED
    BY <2>1, <2>3, <2>4, <2>5, <2>6 DEF GuardInv
<1> QED
  BY <1>1, <1>2, <1>3, <1>4, <1>5, JobStep DEF Next, GuardNext, vars, gvars

LEMMA GuardInvariance == Spec => []GuardInv
<1>1. Init => GuardInv
  <2> SUFFICES ASSUME GuardInit PROVE GuardInv
    BY DEF Init
  <2>1. build \in [Names -> 1 .. MaxEdits + 1]
    BY EquivGuardAssumption DEF GuardInit
  <2>2. job \in [Names -> JobType] /\ \A n \in Names : JobOK(n)
    BY NoRowFacts DEF GuardInit, JobOK
  <2>3. base \in [Names -> RowType] /\ \A n \in Names : base[n].verdict = "none" <=> base[n] = NoRow
    BY NoRowFacts DEF GuardInit
  <2>4. EquivIsOfC
    BY NoRowFacts DEF GuardInit, EquivIsOfC
  <2> QED
    BY <2>1, <2>2, <2>3, <2>4 DEF GuardInit, GuardInv
<1>2. TreeInv /\ GuardInv /\ [Next]_<<vars, gvars>> => GuardInv'
  BY GuardStep
<1> QED
  BY <1>1, <1>2, TreeInvariance, PTL DEF Spec

\* The rows of the baseline are typed, and a row without a verdict is no row.
THEOREM GuardTypeCorrect == Spec => []TypeOK
<1>1. TreeTypeOK /\ GuardInv => TypeOK
  BY DEF GuardInv, TypeOK, RowType, Kinds
<1> QED
  BY <1>1, TreeTypeCorrect, GuardInvariance, PTL

\* An EQUIV row of the guard, which takes no lock, is a proof against the C
\* object whatever is swapped around it: a Rust object in its place is taken
\* only in the instant between the comparison with the backup and the read.
THEOREM EquivsAreOfC == Spec => []EquivIsOfC
<1>1. GuardInv => EquivIsOfC
  BY DEF GuardInv
<1> QED
  BY <1>1, GuardInvariance, PTL

\* The guard exits 0 only if no object it was asked about has a divergence,
\* proved in this run or kept from an earlier one.
THEOREM DivergencesAlarm == Spec => DivergenceAlarms
<1> DEFINE Alarm == gstatus' = "ok" /\ gstatus # "ok" =>
                      \A n \in Names : job[n].at # "idle" => base'[n].verdict # "INEQUIV"
<1>1. GuardInv /\ [Next]_<<vars, gvars>> => [Alarm]_gvars
  <2> SUFFICES ASSUME GuardInv, [Next]_<<vars, gvars>>, gstatus' = "ok", gstatus # "ok",
                      NEW n \in Names, job[n].at # "idle"
               PROVE  base'[n].verdict # "INEQUIV"
    OBVIOUS
  <2>1. Save
    BY DEF Next, GuardNext, Rebuild, GuardStart, GuardKill, Checkout, Compare, Read, gvars
  <2>2. base' = Updated /\ Alarms = {} /\ job[n].at \notin {"queued", "compared"}
    BY <2>1 DEF Save, Finished
  <2>3. job[n].at \in {"done", "cached"} /\ (job[n].at = "cached" => job[n].row = base[n])
    BY <2>2 DEF GuardInv, JobOK, JobType
  <2>4. job[n].row.verdict # "INEQUIV"
    BY <2>2, <2>3 DEF Alarms
  <2>5. base'[n] = job[n].row
    BY <2>2, <2>3 DEF Updated
  <2> QED
    BY <2>4, <2>5
<1> QED
  BY <1>1, GuardInvariance, PTL DEF Spec, DivergenceAlarms

=============================================================================
