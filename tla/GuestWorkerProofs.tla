------------------------- MODULE GuestWorkerProofs --------------------------
(***************************************************************************)
(* The guest discipline: one guest at a time, no slot rebuilt under it,    *)
(* every verdict about its own object.  All of it rests on the order in    *)
(* which the worker boots, posts, waits and joins, and holds as long as    *)
(* main does not stop the guests of a worker that is still going.          *)
(***************************************************************************)
EXTENDS GuestPipelineProofs

\* The worker holds a guest of its own, and has posted a job to it.
WithGuest == {"post", "ready", "wait", "join_lost", "join_fail"}
WithJob == WithGuest \ {"post"}

RcOK == {0, ExitNoTest}

\* Guests are numbered in the order they are booted, jobs from 0.
Numbering ==
  /\ mine <= boots /\ guests <= boots /\ snapshot <= boots
  /\ \A b \in Boots : b > boots => /\ loop[b] = NoLoop /\ nextJob[b] = 0
                                  /\ b \notin held /\ b \notin children

\* The slot of the object being finished is not the one being built.
SlotsAlternate ==
  /\ bpc # "idle" => count > 0 /\ pending.slot = (count - 1) % SLOTS
  /\ (bpc # "idle" /\ pc \in WithGuest \cup {"finish"}) => pending.slot # cur.slot

\* A successful step 1 leaves the object's layer in its slot, and the layer
\* stays there until the object is finished with the guest.
LayersHold ==
  /\ (bpc = "built" /\ pending.step1 = "ok") => layer[pending.slot] = pending.name
  /\ pc \in WithGuest => cur.step1 = "ok"
  /\ (pc \in WithGuest \cup {"finish"} /\ cur.step1 = "ok") =>
       layer[cur.slot] = cur.name

\* main leaves the futures only for a worker that ended or a cancelled gate.
MainWaits ==
  mpc \notin {"results", "returned"} => pc = "done" \/ cancelled

\* jobs/ holds the jobs of the last guest.
JobsPosted ==
  /\ \A n \in JobIds : (boots = 0 \/ n >= nextJob[boots]) => jobs[n] = NoJob
  /\ pc \in WithGuest => mine = boots
  /\ pc \in WithJob => nextJob[boots] = job + 1 /\ jobs[job].upper = cur.slot
  /\ pc = "ready" => jobs[job].rc = NoRc /\ ~jobs[job].ready
  /\ (pc = "wait" /\ jobs[job].rc # NoRc) => jobs[job].obj = cur.name

\* Where the running guest may be, seen from the worker.
GuestFollows(b) ==
  /\ b = boots
  /\ pc # "done" => b = guests
  /\ pc \notin {"done", "join_lost", "join_fail"} => b \in held
  /\ pc \notin WithJob => loop[b].pc = "poll" /\ loop[b].n = nextJob[b]
  /\ pc \notin WithJob \cup {"unwind", "done"} => loop[b].rc \in RcOK
  /\ pc = "ready" => loop[b].pc = "poll" /\ loop[b].n = job /\ loop[b].rc \in RcOK
  /\ pc = "wait" =>
       \/ /\ loop[b].n = job /\ jobs[job].rc = NoRc
          /\ loop[b].pc # "unmounted" => loop[b].rc \in RcOK
       \/ /\ loop[b].n = job + 1 /\ loop[b].pc = "poll"
          /\ jobs[job].rc = loop[b].rc
  /\ pc \in {"join_lost", "join_fail"} => stop
  /\ loop[b].pc # "poll" =>
       /\ loop[b].slot = cur.slot
       /\ loop[b].n = job
       /\ loop[b].pc = "mounted" => loop[b].rc \in RcOK
       /\ (loop[b].pc = "unmounted" /\ pc = "wait") => loop[b].obj = cur.name

GuestsFollow == \A b \in Boots : Live(b) => GuestFollows(b)

\* A result from the guest is about the object being finished.
ResultsOwn ==
  /\ pc \in {"oracle", "oracle_run"} => res.by # "guest"
  /\ OwnObject

Discipline ==
  /\ Numbering /\ SlotsAlternate /\ LayersHold
  /\ ~early => /\ MainWaits /\ JobsPosted /\ ResultsOwn
               /\ GuestsFollow

LEMMA BootsAreNumbers == Boots \subseteq Nat \ {0} /\ JobIds \subseteq Nat
BY PipelineAssumption DEF Boots, JobIds

LEMMA NumberingStep ==
  ASSUME TypeOK, NamesKnown, Numbering, [Next]_vars
  PROVE  Numbering'
<1> USE BootsAreNumbers DEF Numbering, TypeOK
<1>1. ASSUME UNCHANGED <<mine, guests, snapshot, boots, loop, nextJob>>,
             held' \subseteq held, children' \subseteq children
      PROVE  Numbering'
  BY <1>1
<1>2. ASSUME guest_for, UNCHANGED snapshot PROVE Numbering'
  <2>1. CASE alive(guests)
    BY <1>2, <2>1 DEF guest_for
  <2>2. CASE ~alive(guests)
    <3>1. boots' = boots + 1 /\ guests' = boots' /\ mine' = boots' /\ nextJob' = nextJob
      BY <1>2, <2>2 DEF guest_for, Boot
    <3>2. \A b \in Boots : b # boots' =>
            /\ loop'[b] = loop[b]
            /\ b \in held' <=> b \in held
            /\ b \in children' <=> b \in children
      BY <1>2, <2>2 DEF guest_for, Boot
    <3> QED
      BY <1>2, <3>1, <3>2
  <2> QED
    BY <2>1, <2>2
<1>3. ASSUME NEW b \in {0} \cup Boots, b <= boots, NEW l,
             loop' = [loop EXCEPT ![b] = l], children' \subseteq children,
             UNCHANGED <<mine, snapshot, boots, nextJob, held>>,
             guests' \in {0, guests}
      PROVE Numbering'
  BY <1>3
<1>4. ASSUME NEW o, StopChildren(o), children' \subseteq children,
             UNCHANGED <<mine, guests, snapshot, boots, nextJob, held>>
      PROVE Numbering'
  BY SMTT(40), <1>4 DEF StopChildren
<1>5. CASE WorkerNext
  <2>1. CASE BootFirst \/ FinishInGuest
    BY SMTT(40), <1>2, <2>1 DEF BootFirst, FinishInGuest, mainVars
  <2>2. CASE Joined
    BY <1>3, <2>2 DEF Joined, mainVars
  <2>3. CASE PostUpper
    BY <2>3 DEF PostUpper, mainVars, NamesKnown
  <2>4. CASE TakeFirst \/ NextObject \/ FinishStep1 \/ PostReady
    BY SMTT(40), <1>1, <2>4 DEF TakeFirst, NextObject, FinishStep1, PostReady,
       hostVars, mainVars
  <2>5. CASE WaitRc \/ CheckRaises \/ WaitGivesUp
    BY SMTT(40), <1>1, <2>5 DEF WaitRc, CheckRaises, WaitGivesUp, StopMine,
       hostVars, mainVars
  <2>6. CASE ClassicStart \/ ClassicEnd \/ ClassicRaises \/ Record \/ Unwind
    BY <1>1, <2>6 DEF ClassicStart, ClassicEnd, ClassicRaises, Record, Unwind,
       hostVars, mainVars
  <2> QED
    BY SMTT(40), <1>5, <2>1, <2>2, <2>3, <2>4, <2>5, <2>6 DEF WorkerNext
<1>6. CASE BuilderNext
  BY <1>1, <1>6 DEF BuilderNext, PrepareStart, PrepareEnd, workerVars, hostVars,
     mainVars
<1>7. CASE GuestNext
  <2> SUFFICES ASSUME NEW b \in Boots,
                      \/ GuestTakes(b) \/ GuestRuns(b) \/ GuestReports(b)
                      \/ GuestLeaves(b) \/ GuestDies(b)
               PROVE  Numbering'
    BY <1>7 DEF GuestNext
  <2>1. /\ loop[b].pc # "none"
        /\ UNCHANGED <<mine, guests, snapshot, boots, nextJob, held, children>>
    BY Zenon DEF GuestTakes, GuestRuns, GuestReports, GuestLeaves, GuestDies, Live,
       workerVars, hostVars, mainVars
  <2>2. \A c \in Boots \ {b} : loop'[c] = loop[c]
    BY ZenonT(40) DEF GuestTakes, GuestRuns, GuestReports, GuestLeaves, GuestDies
  <2>3. NoLoop.pc = "none"
    BY DEF NoLoop, FreshLoop
  <2> QED
    BY Zenon, <2>1, <2>2, <2>3
<1>8. CASE MainNext
  <2>1. CASE SnapshotGuests \/ ClearGuests
    BY SMTT(40), <2>1 DEF SnapshotGuests, ClearGuests, notMain, workerVars
  <2>2. CASE WorkerReturns \/ RequestStop \/ JoinGuest \/ PoolExits
    BY <1>1, <2>2 DEF WorkerReturns, RequestStop, JoinGuest, JoinTakesProc,
       PoolExits, notMain, workerVars
  <2>3. CASE JoinRacesAlive
    BY <1>1, <2>3 DEF JoinRacesAlive, JoinTakesProc
  <2>4. CASE JoinedGuest
    BY <1>3, <2>4 DEF JoinedGuest, workerVars
  <2>5. CASE Cleanup
    BY <1>4, <2>5 DEF Cleanup, hostVars
  <2> QED
    BY <1>8, <2>1, <2>2, <2>3, <2>4, <2>5 DEF MainNext
<1>9. CASE EnvironmentNext
  <2>1. CASE OtherWorkerRaises
    BY <1>1, <2>1 DEF OtherWorkerRaises, notMain, workerVars
  <2>2. CASE Interrupted
    BY SMTT(40), <1>4, <2>2 DEF Interrupted
  <2> QED
    BY <1>9, <2>1, <2>2 DEF EnvironmentNext
<1>10. CASE Finished \/ UNCHANGED vars
  BY <1>1, <1>10 DEF Finished, vars, workerVars, hostVars, mainVars
<1> QED
  BY <1>5, <1>6, <1>7, <1>8, <1>9, <1>10 DEF Next

\* Step 1 counts as done only when it exited with 0.
LEMMA Step1OK == \A o : Step1(o) = "ok" => o.rc = 0
BY SMTT(40) DEF Step1, runtime_result

\* The builder's slot and the layers, over every step.
LEMMA LayersStep ==
  ASSUME TypeOK, SlotsAlternate, LayersHold, [Next]_vars
  PROVE  SlotsAlternate' /\ LayersHold'
<1> USE DEF SlotsAlternate, LayersHold, WithGuest
<1> DEFINE Busy == WithGuest \cup {"finish"}
<1>1. ASSUME UNCHANGED <<bpc, pending, count, cur, layer>>,
             pc' \in Busy => pc \in Busy,
             pc' \in WithGuest => cur.step1 = "ok"
      PROVE  SlotsAlternate' /\ LayersHold'
  BY <1>1
<1>2. ASSUME NEW o \in KilledOutcomes, StopChildren(o), UNCHANGED <<count, cur, layer>>
      PROVE  SlotsAlternate' /\ LayersHold'
  <2>1. pc' \in Busy => pc' = pc
    BY <1>2 DEF StopChildren, Judge
  <2>2. CASE bpc = "building"
    <3>1. bpc' = "built" /\ pending' = [pending EXCEPT !.step1 = Step1(o), !.killed = TRUE]
      BY <1>2, <2>2 DEF StopChildren
    <3>2. Step1(o) # "ok"
      <4>1. o.rc = Killed
        BY Zenon, <1>2 DEF KilledOutcomes
      <4> QED
        BY <4>1, Step1OK DEF Killed
    <3>3. pending'.slot = pending.slot /\ pending'.step1 # "ok"
      BY <3>1, <3>2 DEF TypeOK, Prepared
    <3> QED
      BY <1>2, <2>1, <2>2, <3>1, <3>3
  <2>3. CASE bpc # "building"
    BY SMTT(40), <1>2, <2>1, <2>3 DEF StopChildren, builderVars
  <2> QED
    BY <2>2, <2>3
<1>3. CASE WorkerNext
  <2>1. CASE TakeFirst
    BY SMTT(40), <2>1 DEF TakeFirst, builderVars, dirVars
  <2>2. CASE BootFirst
    BY SMTT(40), <2>2 DEF BootFirst, Submit, guest_for, TypeOK
  <2>3. CASE NextObject
    <3>1. CASE cancelled
      BY <2>3, <3>1 DEF NextObject, dirVars
    <3>2. CASE ~cancelled /\ queue = <<>>
      BY SMTT(40), <2>3, <3>2 DEF NextObject, dirVars
    <3>3. CASE ~cancelled /\ queue # <<>>
      <4>1. /\ pc' = "finish" /\ bpc' = "submitted" /\ cur' = pending
            /\ count' = count + 1 /\ pending'.slot = count % SLOTS /\ layer' = layer
        BY <2>3, <3>3 DEF NextObject, Submit, dirVars
      <4>2. count \in Nat /\ count > 0 /\ pending.slot = (count - 1) % SLOTS
        BY <2>3 DEF NextObject, TypeOK
      <4>3. count % SLOTS # (count - 1) % SLOTS
        BY <4>2 DEF SLOTS
      <4> QED
        BY SMTT(40), <2>3, <4>1, <4>2, <4>3 DEF NextObject
    <3> QED
      BY SMTT(40), <3>1, <3>2, <3>3
  <2>4. CASE FinishStep1 \/ FinishInGuest \/ PostUpper \/ PostReady
    BY <1>1, <2>4 DEF FinishStep1, FinishInGuest, PostUpper, PostReady, guest_for,
       builderVars, dirVars
  <2>5. CASE WaitRc \/ CheckRaises \/ WaitGivesUp \/ Joined
    BY Zenon, <1>1, <2>5 DEF WaitRc, CheckRaises, WaitGivesUp, Joined, StopMine,
       builderVars, dirVars
  <2>6. CASE ClassicStart \/ ClassicEnd \/ ClassicRaises \/ Record \/ Unwind
    BY SMTT(40), <1>1, <2>6 DEF ClassicStart, ClassicEnd, ClassicRaises, Record,
       Unwind,
       Judge, builderVars, dirVars
  <2> QED
    BY <1>3, <2>1, <2>2, <2>3, <2>4, <2>5, <2>6 DEF WorkerNext
<1>4. CASE BuilderNext
  <2>1. pending.slot \in Slots /\ cur.slot \in Slots
    BY SMTT(40) DEF TypeOK, Prepared
  <2>2. CASE PrepareStart
    <3>1. CASE cancelled
      <4>1. /\ bpc' = "built" /\ layer' = layer
            /\ pending' = [pending EXCEPT !.step1 = Step1(NotStarted), !.killed = TRUE]
        BY SMTT(40), <2>2, <3>1 DEF PrepareStart
      <4>2. Step1(NotStarted) # "ok"
        BY Step1OK DEF NotStarted, Cancelled
      <4>3. pending'.slot = pending.slot /\ pending'.step1 # "ok"
        BY <4>1, <4>2 DEF TypeOK, Prepared
      <4> QED
        BY <2>2, <4>1, <4>3 DEF PrepareStart, workerVars
    <3>2. CASE ~cancelled
      BY SMTT(40), <2>1, <2>2, <3>2 DEF PrepareStart, workerVars, TypeOK
    <3> QED
      BY <3>1, <3>2
  <2>3. CASE PrepareEnd
    <3>1. PICK o \in Step1Outcomes :
            /\ pending' = [pending EXCEPT !.step1 = Step1(o)]
            /\ layer' = IF o.rc = 0
                        THEN [layer EXCEPT ![pending.slot] = pending.name] ELSE layer
      BY SMTT(40), <2>3 DEF PrepareEnd
    <3>2. /\ pending'.slot = pending.slot /\ pending'.name = pending.name
          /\ pending'.step1 = Step1(o)
      BY <3>1 DEF TypeOK, Prepared
    <3>3. UNCHANGED <<pc, cur, count>> /\ bpc = "building" /\ bpc' = "built"
      BY <2>3 DEF PrepareEnd, workerVars
    <3>4. pending'.step1 = "ok" => layer'[pending.slot] = pending.name
      BY Zenon, <2>1, <3>1, <3>2, Step1OK DEF TypeOK
    <3>5. cur.slot # pending.slot => layer'[cur.slot] = layer[cur.slot]
      BY <2>1, <3>1 DEF TypeOK
    <3> QED
      BY <3>2, <3>3, <3>4, <3>5
  <2> QED
    BY <1>4, <2>2, <2>3 DEF BuilderNext
<1>5. CASE GuestNext
  BY Zenon, <1>1, <1>5 DEF GuestNext, GuestTakes, GuestRuns, GuestReports,
     GuestLeaves,
     GuestDies, workerVars, builderVars, dirVars
<1>6. CASE MainNext
  <2>1. CASE Cleanup
    BY SMTT(40), <1>2, <2>1 DEF Cleanup, dirVars
  <2>2. CASE JoinRacesAlive \/ JoinedGuest
    BY <1>1, <2>2 DEF JoinRacesAlive, JoinedGuest, workerVars, builderVars
  <2>3. CASE WorkerReturns \/ SnapshotGuests \/ ClearGuests \/ RequestStop
             \/ JoinGuest \/ PoolExits
    BY Zenon, <1>1, <2>3 DEF WorkerReturns, SnapshotGuests, ClearGuests,
       RequestStop,
       JoinGuest, PoolExits, notMain, workerVars, builderVars
  <2> QED
    BY SMTT(40), <1>6, <2>1, <2>2, <2>3 DEF MainNext
<1>7. CASE EnvironmentNext
  BY <1>1, <1>2, <1>7 DEF EnvironmentNext, OtherWorkerRaises, Interrupted,
     notMain, workerVars, builderVars, dirVars
<1>8. CASE Finished \/ UNCHANGED vars
  BY Zenon, <1>1, <1>8 DEF Finished, vars, workerVars, builderVars, dirVars
<1> QED
  BY SMTT(40), <1>3, <1>4, <1>5, <1>6, <1>7, <1>8 DEF Next

\* What main waits for, and whose verdict a result is.
LEMMA MainStep ==
  ASSUME TypeOK, MainWaits, ~early', [Next]_vars
  PROVE  MainWaits'
<1> USE DEF MainWaits
<1>1. CASE WorkerNext
  <2>1. UNCHANGED mainVars /\ pc # "done"
    BY <1>1 DEF WorkerNext, TakeFirst, BootFirst, NextObject, FinishStep1,
       FinishInGuest, PostUpper, PostReady, WaitRc, CheckRaises, WaitGivesUp,
       Joined, ClassicStart, ClassicEnd, ClassicRaises, Record, Unwind
  <2> QED
    BY <2>1 DEF mainVars
<1>2. CASE BuilderNext \/ GuestNext
  BY ZenonT(40), <1>2 DEF BuilderNext, PrepareStart, PrepareEnd, GuestNext,
     GuestTakes,
     GuestRuns, GuestReports, GuestLeaves, GuestDies, workerVars, mainVars
<1>3. CASE MainNext
  BY <1>3 DEF MainNext, WorkerReturns, SnapshotGuests, ClearGuests, RequestStop,
     JoinGuest, JoinRacesAlive, JoinTakesProc, JoinedGuest, PoolExits, Cleanup,
     notMain, workerVars
<1>4. CASE EnvironmentNext
  BY <1>4 DEF EnvironmentNext, OtherWorkerRaises, Interrupted
<1>5. CASE Finished \/ UNCHANGED vars
  BY SMTT(40), <1>5 DEF Finished, vars, workerVars, mainVars
<1> QED
  BY <1>1, <1>2, <1>3, <1>4, <1>5 DEF Next

\* The jobs directory, over every step.
LEMMA JobsStep ==
  ASSUME TypeOK, NamesKnown, JobsPosted, GuestsFollow, [Next]_vars
  PROVE  JobsPosted'
<1> USE BootsAreNumbers DEF JobsPosted, WithGuest, WithJob
<1>1. ASSUME UNCHANGED <<jobs, boots, nextJob, mine, job, cur>>,
             pc' \in WithGuest => pc' = pc
      PROVE  JobsPosted'
  BY <1>1
<1>2. ASSUME UNCHANGED <<jobs, boots, nextJob>>, pc' \notin WithGuest
      PROVE  JobsPosted'
  BY SMTT(40), <1>2
<1>3. ASSUME guest_for, pc' \in {"await", "post"} PROVE JobsPosted'
  <2>1. CASE alive(guests)
    <3>1. guests = boots
      BY SMTT(40), <2>1 DEF alive, GuestsFollow, GuestFollows, TypeOK
    <3> QED
      BY SMTT(40), <1>3, <2>1, <3>1 DEF guest_for
  <2>2. CASE ~alive(guests)
    <3>1. mine' = boots' /\ jobs' = [n \in JobIds |-> NoJob]
      BY SMTT(40), <1>3, <2>2 DEF guest_for, Boot
    <3> QED
      BY SMTT(40), <1>3, <3>1
  <2> QED
    BY SMTT(40), <2>1, <2>2
<1>4. CASE WorkerNext
  <2>1. CASE BootFirst \/ FinishInGuest
    BY Zenon, <1>3, <2>1 DEF BootFirst, FinishInGuest
  <2>2. CASE PostUpper
    <3> DEFINE n == nextJob[mine]
    <3>1. mine = boots /\ boots \in Boots /\ n \in JobIds /\ jobs[n] = NoJob
      BY <2>2 DEF PostUpper, NamesKnown
    <3>2. /\ pc' = "ready" /\ job' = n /\ UNCHANGED <<mine, boots, cur>>
          /\ nextJob' = [nextJob EXCEPT ![mine] = n + 1]
          /\ jobs' = [jobs EXCEPT ![n].upper = cur.slot]
      BY <2>2 DEF PostUpper
    <3>3. nextJob'[boots'] = n + 1
      BY <3>1, <3>2 DEF TypeOK
    <3>4. jobs'[n].upper = cur.slot /\ jobs'[n].rc = NoRc /\ ~jobs'[n].ready
      BY <3>1, <3>2 DEF TypeOK, NoJob
    <3>5. \A k \in JobIds : k # n => jobs'[k] = jobs[k]
      BY <3>2 DEF TypeOK
    <3> QED
      BY <3>1, <3>2, <3>3, <3>4, <3>5
  <2>3. CASE PostReady
    <3>1. /\ pc = "ready" /\ pc' = "wait" /\ UNCHANGED <<mine, boots, nextJob, job, cur>>
          /\ jobs' = [jobs EXCEPT ![job].ready = TRUE]
      BY <2>3 DEF PostReady, hostVars
    <3>2. jobs'[job].upper = jobs[job].upper /\ jobs'[job].rc = jobs[job].rc
      BY <3>1 DEF TypeOK, Job
    <3>3. \A k \in JobIds : k # job => jobs'[k] = jobs[k]
      BY <3>1 DEF TypeOK
    <3>4. boots \in Boots
      BY SMTT(40), <3>1 DEF NamesKnown
    <3> QED
      BY <3>1, <3>2, <3>3, <3>4
  <2>4. CASE WaitRc \/ WaitGivesUp
    BY Zenon, <2>4 DEF WaitRc, WaitGivesUp, StopMine
  <2>5. CASE TakeFirst \/ NextObject \/ FinishStep1 \/ CheckRaises \/ Joined
    BY <1>2, <2>5 DEF TakeFirst, NextObject, FinishStep1, CheckRaises, Joined,
       hostVars, dirVars
  <2>6. CASE ClassicStart \/ ClassicEnd \/ ClassicRaises \/ Record \/ Unwind
    BY <1>2, <2>6 DEF ClassicStart, ClassicEnd, ClassicRaises, Record, Unwind,
       Judge, hostVars, dirVars
  <2> QED
    BY Zenon, <1>4, <2>1, <2>2, <2>3, <2>4, <2>5, <2>6 DEF WorkerNext
<1>5. CASE BuilderNext
  BY <1>1, <1>5 DEF BuilderNext, PrepareStart, PrepareEnd, workerVars, hostVars
<1>6. CASE GuestNext
  <2>1. PICK b \in Boots : \/ GuestTakes(b) \/ GuestRuns(b) \/ GuestReports(b)
                          \/ GuestLeaves(b) \/ GuestDies(b)
    BY Zenon, <1>6 DEF GuestNext
  <2>2. CASE GuestTakes(b) \/ GuestLeaves(b) \/ GuestDies(b)
    BY SMTT(40), <1>1, <2>2 DEF GuestTakes, GuestLeaves, GuestDies, workerVars,
       hostVars, dirVars
  <2>3. CASE GuestRuns(b) \/ GuestReports(b)
    <3>1. Live(b) /\ loop[b].pc \in {"mounted", "unmounted"}
      BY Zenon, <2>3 DEF GuestRuns, GuestReports, Live
    <3>2. b = boots /\ pc \in WithJob \ {"ready"} /\ loop[b].n = job
      BY Zenon, <3>1 DEF GuestsFollow, GuestFollows
    <3>3. UNCHANGED <<boots, nextJob, mine, job, cur, pc>>
      BY Zenon, <2>3 DEF GuestRuns, GuestReports, workerVars, hostVars
    <3>4. nextJob[boots] = job + 1 /\ job \in JobIds /\ jobs[job] \in Job
      BY SMTT(40), <3>2 DEF TypeOK
    <3>5. CASE GuestRuns(b)
      <4>1. PICK v : jobs' = jobs \/ jobs' = [jobs EXCEPT ![job].summary = v]
        BY Zenon, <3>2, <3>5 DEF GuestRuns
      <4>2. /\ jobs'[job].upper = jobs[job].upper /\ jobs'[job].rc = jobs[job].rc
            /\ jobs'[job].obj = jobs[job].obj
        BY <3>4, <4>1 DEF TypeOK, Job
      <4>3. \A k \in JobIds : k # job => jobs'[k] = jobs[k]
        BY SMTT(40), <4>1 DEF TypeOK
      <4> QED
        BY <3>2, <3>3, <3>4, <4>2, <4>3
    <3>6. CASE GuestReports(b)
      <4>1. \/ jobs' = jobs
            \/ jobs' = [jobs EXCEPT ![job].rc = loop[b].rc, ![job].obj = loop[b].obj]
        BY <3>2, <3>6 DEF GuestReports
      <4>2. \A k \in JobIds : k # job => jobs'[k] = jobs[k]
        BY <4>1 DEF TypeOK
      <4>3. /\ jobs'[job].upper = jobs[job].upper
        BY <3>4, <4>1 DEF TypeOK, Job
      <4>4. pc = "wait" => loop[b].obj = cur.name
        BY <3>1, <3>6 DEF GuestReports, GuestsFollow, GuestFollows
      <4>5. \/ jobs'[job].rc = jobs[job].rc /\ jobs'[job].obj = jobs[job].obj
            \/ jobs'[job].obj = loop[b].obj
        BY <3>4, <4>1 DEF TypeOK, Job
      <4> QED
        BY <3>2, <3>3, <3>4, <4>2, <4>3, <4>4, <4>5
    <3> QED
      BY Zenon, <2>3, <3>5, <3>6
  <2> QED
    BY Zenon, <2>1, <2>2, <2>3
<1>7. ASSUME NEW o, StopChildren(o), UNCHANGED <<jobs, boots, nextJob, mine, job, cur>>
      PROVE  JobsPosted'
  BY SMTT(40), <1>1, <1>7 DEF StopChildren, Judge
<1>8. CASE MainNext
  <2>1. CASE Cleanup
    BY ZenonT(40), <1>7, <2>1 DEF Cleanup, dirVars, hostVars
  <2>2. CASE JoinRacesAlive \/ JoinedGuest
    BY <1>1, <2>2 DEF JoinRacesAlive, JoinedGuest, workerVars
  <2>3. CASE WorkerReturns \/ SnapshotGuests \/ ClearGuests \/ RequestStop
             \/ JoinGuest \/ PoolExits
    BY Zenon, <1>1, <2>3 DEF WorkerReturns, SnapshotGuests, ClearGuests,
       RequestStop,
       JoinGuest, PoolExits, notMain, workerVars
  <2> QED
    BY <1>8, <2>1, <2>2, <2>3 DEF MainNext
<1>9. CASE EnvironmentNext
  BY <1>1, <1>7, <1>9 DEF EnvironmentNext, OtherWorkerRaises, Interrupted,
     notMain, workerVars, dirVars
<1>10. CASE Finished \/ UNCHANGED vars
  BY Zenon, <1>1, <1>10 DEF Finished, vars, workerVars, hostVars, dirVars
<1> QED
  BY SMTT(40), <1>4, <1>5, <1>6, <1>8, <1>9, <1>10 DEF Next

=============================================================================
