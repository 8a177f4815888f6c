----------------------- MODULE GuestDisciplineProofs ------------------------
(***************************************************************************)
(* The running guest and the results, over every step, and the theorem     *)
(* about the guests, the slots and the verdicts of one overlay worker.     *)
(***************************************************************************)
EXTENDS GuestWorkerProofs

\* A verdict from the shared guest other than FAIL means that the exit
\* status was 0, or EXIT_NO_TEST.
LEMMA GuestVerdict ==
  ASSUME NEW r, NEW y
  PROVE  runtime_result([rc |-> r, noCons |-> FALSE, summary |-> y]) # "FAIL"
           => r \in RcOK
BY DEF runtime_result, NoOracle, RcOK

\* The running guest, over every step.
LEMMA GuestsStep ==
  ASSUME TypeOK, NamesKnown, Reach, Numbering, LayersHold, MainWaits, JobsPosted,
         GuestsFollow, [Next]_vars, ~early'
  PROVE  GuestsFollow'
<1> USE BootsAreNumbers DEF GuestsFollow
<1>0. ASSUME \A b \in Boots : ~Live(b)' PROVE GuestsFollow'
  BY SMTT(40), <1>0
<1>1. ASSUME UNCHANGED <<boots, guests, held, loop, nextJob, jobs, job, cur>>,
             stop => stop', pc' = pc
      PROVE  GuestsFollow'
  BY SMTT(40), <1>1 DEF GuestFollows, Live
<1>2. ASSUME UNCHANGED <<boots, guests, held, loop, nextJob>>,
             pc \notin WithJob, pc' \notin WithJob,
             pc \in {"unwind", "done"} => pc' \in {"unwind", "done"},
             pc = "done" => pc' = "done"
      PROVE  GuestsFollow'
  BY Zenon, <1>2 DEF GuestFollows, Live, WithJob, WithGuest
<1>3. ASSUME NEW g \in {0} \cup Boots, loop' = [loop EXCEPT ![g] = Gone],
             \A b \in Boots : Live(b) => b = g
      PROVE  GuestsFollow'
  BY <1>3 DEF Live, Gone, FreshLoop, TypeOK
<1>4. ASSUME NEW o, StopChildren(o) PROVE GuestsFollow'
  BY <1>0, <1>4 DEF StopChildren, Reach, Live, Gone, FreshLoop
<1>5. ASSUME guest_for, pc \in {"boot", "finish"}, pc' \in {"await", "post"}
      PROVE  GuestsFollow'
  <2>1. CASE alive(guests)
    BY <1>2, <1>5, <2>1 DEF guest_for, WithJob, WithGuest
  <2>2. CASE ~alive(guests)
    <3>1. \A b \in Boots : ~Live(b)
      BY Zenon, <1>5, <2>2 DEF GuestFollows, alive
    <3>2. /\ boots' = boots + 1 /\ boots' \in Boots /\ guests' = boots'
          /\ nextJob' = nextJob
          /\ \/ loop' = loop
             \/ loop' = [loop EXCEPT ![boots'] = FreshLoop] /\ held' = held \cup {boots'}
      BY <1>5, <2>2 DEF guest_for, Boot
    <3>3. nextJob[boots'] = 0
      BY <3>2 DEF Numbering, TypeOK
    <3>4. CASE loop' = loop
      BY Zenon, <1>0, <3>1, <3>4 DEF Live
    <3>5. CASE loop' = [loop EXCEPT ![boots'] = FreshLoop] /\ held' = held \cup {boots'}
      <4>1. \A b \in Boots : Live(b)' => b = boots'
        BY SMTT(40), <3>1, <3>5 DEF Live, TypeOK
      <4>2. loop'[boots'] = FreshLoop
        BY SMTT(40), <3>2, <3>5 DEF TypeOK
      <4>3. /\ loop'[boots'].pc = "poll" /\ loop'[boots'].n = nextJob'[boots']
            /\ loop'[boots'].rc \in RcOK
        BY <3>2, <3>3, <4>2 DEF FreshLoop, RcOK
      <4>4. pc' \notin WithJob /\ pc' # "ready" /\ pc' # "wait"
            /\ pc' \notin {"done", "join_lost", "join_fail"}
        BY SMTT(40), <1>5 DEF WithJob, WithGuest
      <4>5. ASSUME NEW b \in Boots, Live(b)' PROVE GuestFollows(b)'
        <5>1. b = boots' /\ b = guests' /\ b \in held'
          BY SMTT(40), <3>2, <3>5, <4>1, <4>5
        <5>2. loop'[b].pc = "poll" /\ loop'[b].n = nextJob'[b] /\ loop'[b].rc \in RcOK
          BY <4>3, <5>1
        <5> QED
          BY <4>4, <5>1, <5>2 DEF GuestFollows
      <4> QED
        BY Zenon, <4>5
    <3> QED
      BY SMTT(40), <3>2, <3>4, <3>5
  <2> QED
    BY <2>1, <2>2
<1>6. ASSUME pc = "wait", mine \notin held PROVE \A b \in Boots : ~Live(b)
  BY Zenon, <1>6 DEF GuestFollows, JobsPosted, WithGuest
<1>7. CASE WorkerNext
  <2>1. CASE BootFirst \/ FinishInGuest
    BY <1>5, <2>1 DEF BootFirst, FinishInGuest
  <2>2. CASE PostUpper
    <3>1. mine = boots /\ mine \in Boots
      BY <2>2 DEF PostUpper, JobsPosted, WithGuest, NamesKnown
    <3>2. nextJob' = [nextJob EXCEPT ![mine] = @ + 1] /\ job' = nextJob[mine]
      BY <2>2 DEF PostUpper
    <3>3. \A b \in Boots : Live(b) => loop[b].pc = "poll" /\ loop[b].n = job'
      BY <2>2, <3>1, <3>2 DEF PostUpper, GuestFollows, WithJob, WithGuest
    <3> QED
      BY <2>2, <3>1, <3>3 DEF PostUpper, GuestFollows, Live, WithJob, WithGuest
  <2>3. CASE PostReady
    <3>1. /\ pc = "ready" /\ pc' = "wait"
          /\ UNCHANGED <<boots, guests, held, loop, nextJob, job, cur>>
          /\ jobs' = [jobs EXCEPT ![job].ready = TRUE]
      BY <2>3 DEF PostReady, hostVars
    <3>2. jobs'[job].rc = NoRc
      BY <3>1 DEF JobsPosted, TypeOK, Job
    <3> QED
      BY <3>1, <3>2 DEF GuestFollows, Live, WithJob, WithGuest
  <2>4. CASE WaitRc
    <3>1. /\ pc = "wait" /\ jobs[job].rc # NoRc
          /\ UNCHANGED <<boots, guests, loop, nextJob, job, cur, jobs>>
      BY <2>4 DEF WaitRc
    <3>2. \A b \in Boots : Live(b) =>
            /\ loop[b].pc = "poll" /\ loop[b].n = job + 1 /\ jobs[job].rc = loop[b].rc
      BY ZenonT(40), <3>1 DEF GuestFollows
    <3>3. nextJob[boots] = job + 1
      BY SMTT(40), <3>1 DEF JobsPosted, WithJob, WithGuest
    <3>4. \/ pc' = "join_fail" /\ stop'
          \/ pc' = "classic" /\ mine \notin held
          \/ pc' = "record" /\ held' = held /\ jobs[job].rc \in RcOK
      BY ZenonT(40), <2>4, GuestVerdict DEF WaitRc, StopMine
    <3> QED
      BY ZenonT(40), <1>0, <1>6, <3>1, <3>2, <3>3, <3>4
         DEF GuestFollows, Live, WithJob, WithGuest
  <2>5. CASE CheckRaises
    <3>1. /\ pc = "wait" /\ jobs[job].rc # NoRc /\ pc' = "unwind"
          /\ UNCHANGED <<boots, guests, held, loop, nextJob, job, cur, jobs>>
      BY <2>5 DEF CheckRaises, hostVars, dirVars
    <3>2. nextJob[boots] = job + 1
      BY <3>1 DEF JobsPosted, WithJob, WithGuest
    <3> QED
      BY <3>1, <3>2 DEF GuestFollows, Live, WithJob, WithGuest
  <2>6. CASE WaitGivesUp
    <3>1. /\ pc = "wait" /\ stop'
          /\ UNCHANGED <<boots, guests, loop, nextJob, job, cur, jobs>>
          /\ \/ pc' = "join_lost"
             \/ pc' = "classic" /\ mine \notin held
      BY <2>6 DEF WaitGivesUp, StopMine
    <3> QED
      BY Zenon, <1>0, <1>6, <3>1 DEF GuestFollows, Live, WithJob, WithGuest
  <2>7. CASE Joined
    <3>1. \A b \in Boots : Live(b) => b = mine
      BY <2>7 DEF Joined, JobsPosted, GuestFollows, WithGuest
    <3> QED
      BY ZenonT(40), <1>3, <2>7, <3>1 DEF Joined, TypeOK
  <2>8. CASE TakeFirst \/ NextObject \/ FinishStep1
    BY <1>2, <2>8 DEF TakeFirst, NextObject, FinishStep1, WithJob, WithGuest,
       hostVars
  <2>9. CASE ClassicStart \/ ClassicEnd \/ ClassicRaises \/ Record \/ Unwind
    BY <1>2, <2>9 DEF ClassicStart, ClassicEnd, ClassicRaises, Record, Unwind,
       Judge, WithJob, WithGuest, hostVars
  <2> QED
    BY <1>7, <2>1, <2>2, <2>3, <2>4, <2>5, <2>6, <2>7, <2>8, <2>9 DEF WorkerNext
<1>8. CASE BuilderNext
  BY <1>1, <1>8 DEF BuilderNext, PrepareStart, PrepareEnd, workerVars, hostVars
<1>9. CASE GuestNext
  <2>1. PICK b \in Boots : \/ GuestTakes(b) \/ GuestRuns(b) \/ GuestReports(b)
                          \/ GuestLeaves(b) \/ GuestDies(b)
    BY <1>9 DEF GuestNext
  <2>2. Live(b) /\ GuestFollows(b)
    BY ZenonT(40), <2>1 DEF GuestTakes, GuestRuns, GuestReports, GuestLeaves,
       GuestDies, Live
  <2>3. /\ UNCHANGED <<boots, guests, held, nextJob, job, cur, pc, stop>>
        /\ \A c \in Boots \ {b} : loop'[c] = loop[c]
    <3>1. UNCHANGED <<boots, guests, held, nextJob, job, cur, pc, stop>>
      BY Zenon, <2>1 DEF GuestTakes, GuestRuns, GuestReports, GuestLeaves,
         GuestDies,
         workerVars, hostVars, dirVars
    <3>2. \A c \in Boots \ {b} : loop'[c] = loop[c]
      BY ZenonT(40), <2>1 DEF GuestTakes, GuestRuns, GuestReports, GuestLeaves,
         GuestDies, TypeOK
    <3> QED
      BY Zenon, <3>1, <3>2
  <2>4. \A c \in Boots : Live(c)' => c = b
    BY Zenon, <2>2, <2>3 DEF GuestFollows, Live
  <2>5. loop[b] \in Loop /\ cur.slot \in Slots /\ job \in JobIds /\ jobs[job] \in Job
    BY DEF TypeOK, Prepared
  <2>6. CASE GuestTakes(b)
    <3>1. /\ loop[b].pc = "poll" /\ ~stop /\ jobs' = jobs
          /\ loop[b].n \in JobIds /\ jobs[loop[b].n].ready
          /\ loop'[b] = [loop[b] EXCEPT !.pc = "mounted", !.dir = boots,
                                        !.slot = jobs[loop[b].n].upper]
      BY <2>6 DEF GuestTakes, TypeOK, dirVars
    <3>2. ~NoJob.ready
      BY DEF NoJob
    <3>3. pc = "wait" /\ loop[b].n = job
      BY <2>2, <3>1, <3>2 DEF GuestFollows, JobsPosted, WithJob, WithGuest
    <3>4. /\ loop'[b].slot = cur.slot /\ loop'[b].pc = "mounted"
          /\ loop'[b].n = loop[b].n /\ loop'[b].rc = loop[b].rc
      BY <2>5, <3>1, <3>3 DEF JobsPosted, WithJob, WithGuest, Loop
    <3>5. jobs[job].rc = NoRc /\ loop[b].rc \in RcOK
      BY <2>2, <2>5, <3>1, <3>3 DEF GuestFollows
    <3>6. GuestFollows(b)'
      BY <2>2, <2>3, <3>1, <3>3, <3>4, <3>5 DEF GuestFollows, WithJob, WithGuest
    <3> QED
      BY <2>4, <3>6
  <2>7. CASE GuestRuns(b)
    <3> DEFINE ran == IF loop[b].slot = NoSlot THEN NoName ELSE layer[loop[b].slot]
    <3>1. PICK o \in TestOutcomes :
            /\ loop' = [loop EXCEPT ![b].pc = "unmounted", ![b].rc = o.rc, ![b].obj = ran]
            /\ jobs' = jobs \/ jobs' = [jobs EXCEPT ![loop[b].n].summary = o.summary]
      BY Zenon, <2>7 DEF GuestRuns
    <3>2. loop[b].pc = "mounted" /\ loop[b].n = job /\ loop[b].slot = cur.slot
      BY SMTT(40), <2>2, <2>7 DEF GuestRuns, GuestFollows
    <3>3. pc \in {"wait", "join_lost", "join_fail"}
      BY <2>2, <3>2 DEF GuestFollows, WithJob, WithGuest
    <3>4. cur.slot # NoSlot /\ layer[cur.slot] = cur.name
      BY <2>5, <3>3 DEF LayersHold, WithGuest, Slots, SLOTS, NoSlot
    <3>5. /\ loop'[b].pc = "unmounted" /\ loop'[b].n = job
          /\ loop'[b].slot = cur.slot /\ loop'[b].obj = cur.name
      BY <2>5, <3>1, <3>2, <3>4 DEF Loop, TypeOK
    <3>6. jobs'[job].rc = jobs[job].rc
      BY <2>5, <3>1, <3>2 DEF TypeOK, Job
    <3>7. pc = "wait" => jobs[job].rc = NoRc
      BY Zenon, <2>2, <3>2 DEF GuestFollows
    <3>8. GuestFollows(b)'
      BY Zenon, <2>2, <2>3, <3>3, <3>5, <3>6, <3>7
         DEF GuestFollows, WithJob, WithGuest
    <3> QED
      BY <2>4, <3>8
  <2>8. CASE GuestReports(b)
    <3>1. loop'[b] = [loop[b] EXCEPT !.pc = "poll", !.n = @ + 1, !.slot = NoSlot]
      BY <2>8 DEF GuestReports, TypeOK
    <3>2. loop[b].pc = "unmounted" /\ loop[b].n = job
      BY <2>2, <2>8 DEF GuestReports, GuestFollows
    <3>3. pc \in {"wait", "join_lost", "join_fail"}
      BY Zenon, <2>2, <3>2 DEF GuestFollows, WithJob, WithGuest
    <3>4. jobs[job].upper # NoSlot
      <4>1. jobs[job].upper = cur.slot
        BY Zenon, <3>3 DEF JobsPosted, WithJob, WithGuest
      <4> QED
        BY <2>5, <4>1 DEF Slots, SLOTS, NoSlot
    <3>5. jobs' = [jobs EXCEPT ![job].rc = loop[b].rc, ![job].obj = loop[b].obj]
      BY <2>8, <3>2, <3>4 DEF GuestReports
    <3>6. jobs'[job].rc = loop[b].rc
      BY <2>5, <3>5 DEF TypeOK, Job
    <3>7. loop'[b].pc = "poll" /\ loop'[b].n = job + 1 /\ loop'[b].rc = loop[b].rc
      BY <2>5, <3>1, <3>2 DEF Loop
    <3>8. GuestFollows(b)'
      BY Zenon, <2>2, <2>3, <3>3, <3>6, <3>7 DEF GuestFollows, WithJob, WithGuest
    <3> QED
      BY <2>4, <3>8
  <2>9. CASE GuestLeaves(b) \/ GuestDies(b)
    <3>1. loop' = [loop EXCEPT ![b] = Gone]
      BY SMTT(40), <2>9 DEF GuestLeaves, GuestDies
    <3>2. \A c \in Boots : Live(c) => c = b
      BY <2>2 DEF GuestFollows
    <3> QED
      BY Zenon, <1>3, <3>1, <3>2
  <2> QED
    BY <2>1, <2>6, <2>7, <2>8, <2>9
<1>10. CASE MainNext
  <2>1. ASSUME mpc \notin {"results", "returned"}, pc # "done"
        PROVE  \A b \in Boots : ~Live(b)
    BY <2>1 DEF MainWaits, Reach, InterruptReachesGuests
  <2>2. CASE Cleanup
    BY <1>4, <2>2 DEF Cleanup
  <2>3. CASE ClearGuests \/ JoinGuest
    <3>1. /\ mpc \notin {"results", "returned"}
          /\ UNCHANGED <<boots, loop, nextJob, pc>>
      BY <2>3 DEF ClearGuests, JoinGuest, notMain, workerVars
    <3>2. CASE pc = "done"
      BY Zenon, <3>1, <3>2 DEF GuestFollows, Live, WithJob, WithGuest
    <3>3. CASE pc # "done"
      BY Zenon, <1>0, <2>1, <3>1, <3>3 DEF Live
    <3> QED
      BY SMTT(40), <3>2, <3>3
  <2>4. CASE JoinRacesAlive
    BY Zenon, <1>0, <2>1, <2>4 DEF JoinRacesAlive, Live
  <2>5. CASE JoinedGuest
    <3>1. \A c \in Boots : Live(c)' => Live(c)
      BY <2>5 DEF JoinedGuest, Live, Gone, FreshLoop, TypeOK
    <3>2. /\ mpc = "joinwait"
          /\ UNCHANGED <<boots, nextJob, pc>>
          /\ \A c \in Boots : Live(c)' => loop'[c] = loop[c]
      BY SMTT(40), <2>5 DEF JoinedGuest, workerVars, Live, Gone, FreshLoop, TypeOK
    <3>3. CASE pc = "done"
      BY <3>1, <3>2, <3>3 DEF GuestFollows, WithJob, WithGuest
    <3>4. CASE pc # "done"
      BY ZenonT(40), <1>0, <2>1, <3>1, <3>2, <3>4
    <3> QED
      BY <3>3, <3>4
  <2>6. CASE WorkerReturns \/ SnapshotGuests \/ RequestStop \/ PoolExits
    BY <1>1, <2>6 DEF WorkerReturns, SnapshotGuests, RequestStop, PoolExits,
       notMain, workerVars
  <2> QED
    BY <1>10, <2>2, <2>3, <2>4, <2>5, <2>6 DEF MainNext
<1>11. CASE EnvironmentNext
  BY SMTT(40), <1>1, <1>4, <1>11
     DEF EnvironmentNext, OtherWorkerRaises, Interrupted,
     notMain, workerVars
<1>12. CASE Finished \/ UNCHANGED vars
  BY <1>1, <1>12 DEF Finished, vars, workerVars, hostVars, dirVars
<1> QED
  BY <1>7, <1>8, <1>9, <1>10, <1>11, <1>12 DEF Next

\* Whose object a result is about, over every step.
LEMMA ResultsStep ==
  ASSUME TypeOK, JobsPosted, ResultsOwn, ~early, [Next]_vars
  PROVE  ResultsOwn'
<1> USE DEF ResultsOwn, OwnObject
<1>1. ASSUME pc' \notin {"oracle", "oracle_run", "record"} PROVE ResultsOwn'
  BY <1>1
<1>2. ASSUME UNCHANGED <<pc, res, cur>> PROVE ResultsOwn'
  BY SMTT(40), <1>2
<1>3. ASSUME NEW from \in {"classic", "oracle"}, NEW o,
             NEW kind \in {"classic", "cancelled"}, Judge(from, o, kind),
             from = "oracle" => pc \in {"oracle", "oracle_run"}, cur' = cur
      PROVE  ResultsOwn'
  <2>1. CASE from = "classic"
    BY <1>3, <2>1 DEF Judge
  <2>2. CASE from = "oracle"
    BY <1>3, <2>2 DEF Judge, TypeOK, Result
  <2> QED
    BY <1>3, <2>1, <2>2
<1>4. ASSUME NEW o, StopChildren(o), cur' = cur PROVE ResultsOwn'
  BY SMTT(40), <1>2, <1>3, <1>4 DEF StopChildren
<1>5. CASE WorkerNext
  <2>1. CASE WaitRc
    <3>1. jobs[job].obj = cur.name
      BY ZenonT(40), <2>1 DEF WaitRc, JobsPosted
    <3> QED
      BY <2>1, <3>1 DEF WaitRc, StopMine
  <2>2. CASE FinishStep1
    BY <2>2 DEF FinishStep1
  <2>3. CASE ClassicStart
    BY ZenonT(40), <1>3, <2>3 DEF ClassicStart
  <2>4. CASE ClassicEnd
    BY <1>3, <2>4 DEF ClassicEnd
  <2>5. CASE TakeFirst \/ BootFirst \/ NextObject \/ FinishInGuest \/ PostUpper \/ PostReady
    BY <1>1, <2>5 DEF TakeFirst, BootFirst, NextObject, FinishInGuest, PostUpper,
       PostReady
  <2>6. CASE CheckRaises \/ WaitGivesUp \/ Joined \/ ClassicRaises \/ Record \/ Unwind
    BY Zenon, <1>1, <2>6 DEF CheckRaises, WaitGivesUp, StopMine, Joined,
       ClassicRaises,
       Record, Unwind
  <2> QED
    BY SMTT(40), <1>5, <2>1, <2>2, <2>3, <2>4, <2>5, <2>6 DEF WorkerNext
<1>6. CASE BuilderNext \/ GuestNext
  BY ZenonT(40), <1>2, <1>6 DEF BuilderNext, PrepareStart, PrepareEnd, GuestNext,
     GuestTakes,
     GuestRuns, GuestReports, GuestLeaves, GuestDies, workerVars
<1>7. CASE MainNext
  <2>1. CASE Cleanup
    BY Zenon, <1>4, <2>1 DEF Cleanup
  <2>2. CASE JoinRacesAlive
    BY <1>1, <2>2 DEF JoinRacesAlive
  <2>3. CASE JoinedGuest \/ WorkerReturns \/ SnapshotGuests \/ ClearGuests
             \/ RequestStop \/ JoinGuest \/ PoolExits
    BY Zenon, <1>2, <2>3 DEF JoinedGuest, WorkerReturns, SnapshotGuests,
       ClearGuests,
       RequestStop, JoinGuest, PoolExits, notMain, workerVars
  <2> QED
    BY Zenon, <1>7, <2>1, <2>2, <2>3 DEF MainNext
<1>8. CASE EnvironmentNext
  BY <1>2, <1>4, <1>8 DEF EnvironmentNext, OtherWorkerRaises, Interrupted,
     notMain, workerVars
<1>9. CASE Finished \/ UNCHANGED vars
  BY Zenon, <1>2, <1>9 DEF Finished, vars, workerVars
<1> QED
  BY Zenon, <1>5, <1>6, <1>7, <1>8, <1>9 DEF Next

\* main's early stop is never taken back.
LEMMA EarlyStays == [Next]_vars /\ early => early'
BY Zenon DEF Next, WorkerNext, TakeFirst, BootFirst, NextObject, FinishStep1,
   FinishInGuest, PostUpper, PostReady, WaitRc, CheckRaises, WaitGivesUp, Joined,
   ClassicStart, ClassicEnd, ClassicRaises, Record, Unwind, BuilderNext,
   PrepareStart, PrepareEnd, GuestNext, GuestTakes, GuestRuns, GuestReports,
   GuestLeaves, GuestDies, MainNext, WorkerReturns, SnapshotGuests, ClearGuests,
   RequestStop, JoinGuest, JoinRacesAlive, JoinedGuest, PoolExits, Cleanup,
   EnvironmentNext, OtherWorkerRaises, Interrupted, Finished, vars, mainVars

IInv == TypeInv /\ Reach /\ Discipline

LEMMA InductiveInvariant == Spec => []IInv
<1>1. Init => IInv
  <2> SUFFICES ASSUME Init PROVE IInv
    OBVIOUS
  <2>1. TypeInv
    BY InitType
  <2>2. \A b \in Boots : ~Live(b)
    BY DEF Init, Live, NoLoop, FreshLoop
  <2>3. Reach
    BY <2>2 DEF Reach, InterruptReachesGuests
  <2>4. Numbering /\ SlotsAlternate /\ LayersHold
    BY SMTT(40), BootsAreNumbers
       DEF Init, Numbering, SlotsAlternate, LayersHold, WithGuest
  <2>5. MainWaits /\ JobsPosted /\ ResultsOwn /\ GuestsFollow
    BY <2>2 DEF Init, MainWaits, JobsPosted, ResultsOwn, OwnObject, GuestsFollow,
       WithGuest, WithJob
  <2> QED
    BY <2>1, <2>3, <2>4, <2>5 DEF IInv, Discipline
<1>2. IInv /\ [Next]_vars => IInv'
  <2> SUFFICES ASSUME IInv, [Next]_vars PROVE IInv'
    OBVIOUS
  <2>1. TypeInv'
    BY TypeStep DEF IInv
  <2>2. Reach'
    BY ReachStep DEF IInv, TypeInv
  <2>3. Numbering' /\ SlotsAlternate' /\ LayersHold'
    BY NumberingStep, LayersStep DEF IInv, TypeInv, Discipline
  <2>4. ASSUME ~early' PROVE MainWaits' /\ JobsPosted' /\ ResultsOwn' /\ GuestsFollow'
    <3>1. ~early
      BY <2>4, EarlyStays
    <3> QED
      BY <2>4, <3>1, MainStep, JobsStep, ResultsStep, GuestsStep
         DEF IInv, TypeInv, Discipline
  <2> QED
    BY <2>1, <2>2, <2>3, <2>4 DEF IInv, Discipline
<1> QED
  BY <1>1, <1>2, PTL DEF Spec

\* What the invariant says of the guests while main waits for the worker.
LEMMA DisciplineHolds ==
  IInv => SlotExclusive /\ OneGuest /\ OwnObject /\ FailedGuestRetired
<1> SUFFICES ASSUME IInv, ~early
             PROVE  SlotExclusive /\ OneGuest /\ OwnObject /\ FailedGuestRetired
  BY DEF SlotExclusive, OneGuest, OwnObject, FailedGuestRetired
<1>1. \A b \in Boots : Live(b) => GuestFollows(b)
  BY SMTT(40) DEF IInv, Discipline, GuestsFollow
<1>2. \A b \in Boots : loop[b].pc = "mounted" =>
        /\ pc \in WithJob /\ loop[b].slot = cur.slot /\ loop[b].rc \in RcOK
  BY <1>1 DEF GuestFollows, Live
<1>3. SlotExclusive
  BY SMTT(40), <1>2 DEF SlotExclusive, IInv, Discipline, SlotsAlternate,
     WithJob, WithGuest
<1>4. OneGuest
  BY <1>1 DEF OneGuest, GuestFollows
<1>5. OwnObject
  BY DEF IInv, Discipline, ResultsOwn
<1>6. FailedGuestRetired
  BY <1>2 DEF FailedGuestRetired, RcOK
<1> QED
  BY SMTT(40), <1>3, <1>4, <1>5, <1>6

\* A slot is never rebuilt under a guest that has it mounted, as long as main
\* does not stop the guests of a worker that is still going: for every queue
\* and any number of interrupts.
THEOREM SlotsAreExclusive == Spec => []SlotExclusive
BY DisciplineHolds, InductiveInvariant, PTL

\* At most one guest serves the worker's jobs: the one it booted last.
THEOREM GuestsAreSingle == Spec => []OneGuest
BY DisciplineHolds, InductiveInvariant, PTL

\* A verdict taken from the shared guest is the verdict of the row's own
\* object, never of the one that was in the slot before it.
THEOREM VerdictsAreOwn == Spec => []OwnObject
BY DisciplineHolds, InductiveInvariant, PTL

\* No guest that ran a failing object is given another.
THEOREM FailuresRetireGuests == Spec => []FailedGuestRetired
BY DisciplineHolds, InductiveInvariant, PTL

-----------------------------------------------------------------------------
(***************************************************************************)
(* The worker and main come to an end.  Termination itself is a liveness   *)
(* property; what it rests on is not: every step of anybody uses up some   *)
(* of a finite amount of work, and while something is left to do a thread  *)
(* can go on.  So a behaviour has finitely many steps, and under FairSpec  *)
(* the last state is the end.                                              *)
(***************************************************************************)
\* How far a thread is from its end, apart from the objects it has to come.
WorkerRank(p) ==
  CASE p = "done" -> 0 [] p = "unwind" -> 1 [] p = "await" -> 2
    [] p = "record" -> 3 [] p = "oracle_run" -> 4 [] p = "oracle" -> 5
    [] p = "classic_run" -> 6 [] p = "classic" -> 7
    [] p \in {"join_lost", "join_fail"} -> 8 [] p = "wait" -> 9
    [] p = "ready" -> 10 [] p = "post" -> 11 [] p = "finish" -> 12
    [] p = "take" -> 10 [] OTHER -> 26
BuilderRank(p) == CASE p = "submitted" -> 2 [] p = "building" -> 1 [] OTHER -> 0
MainRank(p) ==
  CASE p = "returned" -> 0 [] p = "cleanup" -> 1 [] p = "pool" -> 2
    [] p = "joinwait" -> 3 [] p = "join" -> 4 [] p = "ask" -> 5
    [] p = "clear" -> 6 [] p = "snapshot" -> 7 [] OTHER -> 8

\* The objects the worker has not begun to finish.
Ahead == Len(queue) + (IF bpc = "idle" THEN 0 ELSE 1)

\* What is left to do for the worker with its builder, for main with the
\* signals to come, and for each guest, which serves each job number once.
WorkLeft == 20 * Ahead + BuilderRank(bpc) + WorkerRank(pc)
MainLeft == MainRank(mpc) + MaxInterrupts - interrupts
JobsLeft(l) == Len(Queue) + 1 - l.n
LoopLeft(l) ==
  CASE l.pc = "gone" -> 0
    [] l.pc = "unmounted" -> 3 * JobsLeft(l) + 1
    [] l.pc = "mounted" -> 3 * JobsLeft(l) + 2
    [] l.pc = "poll" -> 3 * JobsLeft(l) + 3
    [] OTHER -> 3 * JobsLeft(l) + 4

LeftIsFinite ==
  WorkLeft \in Nat /\ MainLeft \in Nat /\ \A b \in Boots : LoopLeft(loop[b]) \in Nat

StepCounts ==
  /\ WorkLeft' <= WorkLeft /\ MainLeft' <= MainLeft
  /\ \A b \in Boots : LoopLeft(loop'[b]) <= LoopLeft(loop[b])
  /\ \/ WorkLeft' < WorkLeft \/ MainLeft' < MainLeft
     \/ \E b \in Boots : LoopLeft(loop'[b]) < LoopLeft(loop[b])

\* guest_for boots at most one guest for the first object and one for each
\* object it is called for, and each object is posted at most once.
Bounded ==
  /\ pc = "take" => Len(queue) = Len(Queue)
  /\ pc = "boot" => Len(queue) = Len(Queue) - 1
  /\ pc \in {"take", "boot"} =>
       bpc = "idle" /\ boots = 0 /\ \A b \in Boots : nextJob[b] = 0
  /\ pc \notin {"take", "boot"} =>
       /\ boots + Ahead + (IF pc = "finish" THEN 1 ELSE 0) <= Len(Queue) + 1
       /\ \A b \in Boots :
            nextJob[b] + Ahead + (IF pc \in {"finish", "post"} THEN 1 ELSE 0) <= Len(Queue)
  /\ pc = "await" => bpc # "idle"

\* No guest is past the last job there can be.
JobsInRange ==
  \A b \in Boots :
    /\ loop[b].n <= Len(Queue) + 1
    /\ loop[b].pc \in {"mounted", "unmounted"} => loop[b].n <= Len(Queue)

LEMMA QueueLength == Len(Queue) \in Nat
BY PipelineAssumption

LEMMA RanksAreNumbers ==
  \A p : WorkerRank(p) \in Nat /\ BuilderRank(p) \in Nat /\ MainRank(p) \in Nat
BY DEF WorkerRank, BuilderRank, MainRank

\* What is left is a number, never negative.
LEMMA LeftAreNumbers == TypeOK /\ JobsInRange => LeftIsFinite
<1> SUFFICES ASSUME TypeOK, JobsInRange PROVE LeftIsFinite
  OBVIOUS
<1>1. Ahead \in Nat
  BY DEF TypeOK, Ahead
<1>2. WorkLeft \in Nat
  BY <1>1, RanksAreNumbers DEF WorkLeft
<1>3. MainLeft \in Nat
  BY RanksAreNumbers, PipelineAssumption DEF MainLeft, TypeOK
<1>4. ASSUME NEW b \in Boots PROVE LoopLeft(loop[b]) \in Nat
  <2>1. loop[b].n \in Nat /\ loop[b].n <= Len(Queue) + 1
    BY <1>4 DEF TypeOK, Loop, JobsInRange
  <2>2. JobsLeft(loop[b]) \in Nat
    BY <2>1, QueueLength DEF JobsLeft
  <2> QED
    BY <2>2 DEF LoopLeft
<1> QED
  BY <1>2, <1>3, <1>4 DEF LeftIsFinite

\* A step of a thread that takes nothing from the queue.
LEMMA RankFalls ==
  ASSUME TypeOK, UNCHANGED <<queue, bpc>>, WorkerRank(pc') < WorkerRank(pc)
  PROVE  WorkLeft' < WorkLeft
<1>1. Ahead \in Nat /\ Ahead' = Ahead
  BY DEF TypeOK, Ahead
<1> QED
  BY <1>1, RanksAreNumbers DEF WorkLeft

\* Guests that end, or are left alone, have no more to do than before.
LEMMA LoopsEnd ==
  ASSUME TypeOK, JobsInRange, \A b \in Boots : loop'[b] \in {loop[b], Gone}
  PROVE  \A b \in Boots : LoopLeft(loop'[b]) <= LoopLeft(loop[b])
<1> SUFFICES ASSUME NEW b \in Boots PROVE LoopLeft(loop'[b]) <= LoopLeft(loop[b])
  OBVIOUS
<1>1. LoopLeft(loop[b]) \in Nat
  BY LeftAreNumbers DEF LeftIsFinite
<1>2. LoopLeft(Gone) = 0
  BY DEF LoopLeft, Gone, FreshLoop
<1> QED
  BY <1>1, <1>2

\* A guest that is booted has a little less to do than one that is not yet.
LEMMA GuestForLoops ==
  ASSUME TypeOK, Numbering, JobsInRange, guest_for
  PROVE  \A b \in Boots : LoopLeft(loop'[b]) <= LoopLeft(loop[b])
<1>1. CASE loop' = loop
  <2>1. \A b \in Boots : LoopLeft(loop[b]) \in Nat
    BY LeftAreNumbers DEF LeftIsFinite
  <2> QED
    BY <1>1, <2>1
<1>2. CASE loop' # loop
  <2>1. boots + 1 \in Boots /\ loop' = [loop EXCEPT ![boots + 1] = FreshLoop]
    BY <1>2 DEF guest_for, Boot
  <2>2. loop[boots + 1] = NoLoop
    BY <2>1, BootsAreNumbers DEF Numbering, TypeOK
  <2>3. LoopLeft(FreshLoop) <= LoopLeft(NoLoop)
    BY QueueLength DEF LoopLeft, JobsLeft, FreshLoop, NoLoop
  <2> SUFFICES ASSUME NEW b \in Boots PROVE LoopLeft(loop'[b]) <= LoopLeft(loop[b])
    OBVIOUS
  <2>4. LoopLeft(loop[b]) \in Nat
    BY LeftAreNumbers DEF LeftIsFinite
  <2>5. CASE b = boots + 1
    BY <2>1, <2>2, <2>3, <2>5 DEF TypeOK
  <2>6. CASE b # boots + 1
    BY <2>1, <2>4, <2>6 DEF TypeOK
  <2> QED
    BY <2>5, <2>6
<1> QED
  BY <1>1, <1>2

\* A guest's own steps: it takes a job, runs it, and reports it.
LEMMA GuestStepCounts ==
  ASSUME TypeOK, JobsInRange, NEW b \in Boots,
         GuestTakes(b) \/ GuestRuns(b) \/ GuestReports(b) \/ GuestLeaves(b) \/ GuestDies(b)
  PROVE  /\ LoopLeft(loop'[b]) < LoopLeft(loop[b])
         /\ \A d \in Boots : d # b => loop'[d] = loop[d]
         /\ UNCHANGED <<queue, pc, bpc, boots, nextJob, mpc, interrupts>>
         /\ loop'[b].n <= Len(Queue) + 1
         /\ loop'[b].pc \in {"mounted", "unmounted"} => loop'[b].n <= Len(Queue)
<1>1. loop \in [Boots -> Loop] /\ loop[b] \in Loop /\ loop[b].n \in Nat
  BY DEF TypeOK, Loop
<1>2. loop[b].n <= Len(Queue) + 1 /\ (loop[b].pc \in {"mounted", "unmounted"} => loop[b].n <= Len(Queue))
  BY DEF JobsInRange
<1>3. LoopLeft(Gone) = 0 /\ Gone.n = 0 /\ Gone.pc = "gone"
  BY DEF LoopLeft, Gone, FreshLoop
<1>4. Len(Queue) \in Nat /\ (loop[b].n \in JobIds => loop[b].n <= Len(Queue))
  BY QueueLength DEF JobIds
<1>5. CASE GuestTakes(b)
  <2>1. /\ loop'[b].pc = "mounted" /\ loop'[b].n = loop[b].n /\ loop[b].pc = "poll"
        /\ \A d \in Boots : d # b => loop'[d] = loop[d]
        /\ loop[b].n \in JobIds
    BY <1>1, <1>5 DEF GuestTakes, Loop
  <2>2. UNCHANGED <<queue, pc, bpc, boots, nextJob, mpc, interrupts>>
    BY <1>5 DEF GuestTakes, workerVars, builderVars, hostVars, mainVars
  <2> QED
    BY <1>1, <1>2, <1>4, <2>1, <2>2 DEF LoopLeft, JobsLeft
<1>6. CASE GuestRuns(b)
  <2>1. /\ loop'[b].pc = "unmounted" /\ loop'[b].n = loop[b].n /\ loop[b].pc = "mounted"
        /\ \A d \in Boots : d # b => loop'[d] = loop[d]
    <3>1. PICK o \in TestOutcomes :
            loop' = [loop EXCEPT ![b].pc = "unmounted", ![b].rc = o.rc,
                                 ![b].obj = IF loop[b].slot = NoSlot
                                            THEN NoName ELSE layer[loop[b].slot]]
      BY <1>6 DEF GuestRuns
    <3>2. loop[b].pc = "mounted"
      BY <1>6 DEF GuestRuns
    <3> QED
      BY <1>1, <3>1, <3>2 DEF Loop
  <2>2. UNCHANGED <<queue, pc, bpc, boots, nextJob, mpc, interrupts>>
    BY <1>6 DEF GuestRuns, workerVars, builderVars, hostVars, mainVars
  <2> QED
    BY <1>1, <1>2, <1>4, <2>1, <2>2 DEF LoopLeft, JobsLeft
<1>7. CASE GuestReports(b)
  <2>1. /\ loop'[b].pc = "poll" /\ loop'[b].n = loop[b].n + 1 /\ loop[b].pc = "unmounted"
        /\ \A d \in Boots : d # b => loop'[d] = loop[d]
    BY <1>1, <1>7 DEF GuestReports, Loop
  <2>2. UNCHANGED <<queue, pc, bpc, boots, nextJob, mpc, interrupts>>
    BY <1>7 DEF GuestReports, workerVars, builderVars, hostVars, mainVars
  <2> QED
    BY <1>1, <1>2, <1>4, <2>1, <2>2 DEF LoopLeft, JobsLeft
<1>8. CASE GuestLeaves(b) \/ GuestDies(b)
  <2>1. loop' = [loop EXCEPT ![b] = Gone] /\ loop[b].pc \in {"poll", "mounted", "unmounted"}
    BY <1>8 DEF GuestLeaves, GuestDies, Live
  <2>2. UNCHANGED <<queue, pc, bpc, boots, nextJob, mpc, interrupts>>
    BY <1>8 DEF GuestLeaves, GuestDies, workerVars, builderVars, hostVars, mainVars
  <2>3. loop'[b] = Gone /\ \A d \in Boots : d # b => loop'[d] = loop[d]
    BY <1>1, <2>1
  <2>4. LoopLeft(loop[b]) > 0
    BY <1>1, <1>2, <1>4, <2>1 DEF LoopLeft, JobsLeft
  <2> QED
    BY <1>3, <1>4, <2>2, <2>3, <2>4
<1> QED
  BY <1>5, <1>6, <1>7, <1>8

\* The worker's steps.  Taking an object from the queue pays for all that is
\* done for it.
LEMMA WorkerTakes ==
  ASSUME TypeOK, Bounded, TakeFirst \/ BootFirst \/ NextObject
  PROVE  WorkLeft' < WorkLeft
<1>1. Len(queue) \in Nat /\ (queue # <<>> => Len(Tail(queue)) = Len(queue) - 1)
  BY DEF TypeOK
<1>2. CASE TakeFirst
  <2>1. CASE queue = <<>>
    <3>1. UNCHANGED <<queue, bpc>> /\ pc = "take" /\ pc' = "unwind"
      BY <1>2, <2>1 DEF TakeFirst, builderVars
    <3>2. WorkerRank(pc') < WorkerRank(pc)
      BY <3>1 DEF WorkerRank
    <3> QED
      BY <3>1, <3>2, RankFalls
  <2>2. CASE queue # <<>>
    <3>1. queue' = Tail(queue) /\ bpc' = bpc /\ pc = "take" /\ pc' = "boot"
      BY <1>2, <2>2 DEF TakeFirst, builderVars
    <3>2. Ahead' = Ahead - 1 /\ Ahead \in Nat
      BY <1>1, <2>2, <3>1 DEF Ahead
    <3>3. WorkerRank(pc) = 10 /\ WorkerRank(pc') = 26
      BY <3>1 DEF WorkerRank
    <3> QED
      BY <3>1, <3>2, <3>3, RanksAreNumbers DEF WorkLeft
  <2> QED
    BY <2>1, <2>2
<1>3. CASE BootFirst
  <2>1. /\ queue' = queue /\ bpc = "idle" /\ bpc' = "submitted"
        /\ pc = "boot" /\ pc' = "await"
    BY <1>3 DEF BootFirst, Submit, Bounded
  <2>2. Ahead = Len(queue) /\ Ahead' = Len(queue) + 1
    BY <2>1 DEF Ahead
  <2>3. /\ WorkerRank(pc) = 26 /\ WorkerRank(pc') = 2
        /\ BuilderRank(bpc) = 0 /\ BuilderRank(bpc') = 2
    BY <2>1 DEF WorkerRank, BuilderRank
  <2> QED
    BY <1>1, <2>2, <2>3 DEF WorkLeft
<1>4. CASE NextObject
  <2>1. /\ bpc = "built" /\ pc = "await" /\ pc' \in {"unwind", "finish"}
        /\ \/ bpc' = "idle" /\ queue' = queue
           \/ bpc' = "submitted" /\ queue # <<>> /\ queue' = Tail(queue)
    BY <1>4 DEF NextObject, Submit
  <2>2. Ahead' = Ahead - 1 /\ Ahead \in Nat
    BY <1>1, <2>1 DEF Ahead
  <2>3. /\ WorkerRank(pc) = 2 /\ WorkerRank(pc') <= 12 /\ WorkerRank(pc') \in Nat
        /\ BuilderRank(bpc) = 0 /\ BuilderRank(bpc') \in {0, 2}
    BY <2>1 DEF WorkerRank, BuilderRank
  <2> QED
    BY <2>2, <2>3 DEF WorkLeft
<1> QED
  BY <1>2, <1>3, <1>4

\* All its other steps bring it nearer to the end of the object.
LEMMA WorkerForward ==
  ASSUME TypeOK, WorkerNext, ~(TakeFirst \/ BootFirst \/ NextObject)
  PROVE  UNCHANGED <<queue, bpc>> /\ WorkerRank(pc') < WorkerRank(pc)
<1>1. CASE FinishStep1
  <2>1. UNCHANGED <<queue, bpc>> /\ pc = "finish" /\ pc' \in {"oracle", "record"}
    BY <1>1 DEF FinishStep1, builderVars
  <2> QED
    BY <2>1 DEF WorkerRank
<1>2. CASE FinishInGuest
  <2>1. UNCHANGED <<queue, bpc>> /\ pc = "finish" /\ pc' = "post"
    BY <1>2 DEF FinishInGuest, builderVars
  <2> QED
    BY <2>1 DEF WorkerRank
<1>3. CASE PostUpper
  <2>1. UNCHANGED <<queue, bpc>> /\ pc = "post" /\ pc' = "ready"
    BY <1>3 DEF PostUpper, builderVars
  <2> QED
    BY <2>1 DEF WorkerRank
<1>4. CASE PostReady
  <2>1. UNCHANGED <<queue, bpc>> /\ pc = "ready" /\ pc' = "wait"
    BY <1>4 DEF PostReady, builderVars
  <2> QED
    BY <2>1 DEF WorkerRank
<1>5. CASE WaitRc \/ CheckRaises \/ WaitGivesUp
  <2>1. /\ UNCHANGED <<queue, bpc>> /\ pc = "wait"
        /\ pc' \in {"join_lost", "join_fail", "classic", "record", "unwind"}
    BY <1>5 DEF WaitRc, CheckRaises, WaitGivesUp, StopMine, builderVars
  <2> QED
    BY <2>1 DEF WorkerRank
<1>6. CASE Joined
  <2>1. UNCHANGED <<queue, bpc>> /\ pc \in {"join_lost", "join_fail"} /\ pc' = "classic"
    BY <1>6 DEF Joined, builderVars
  <2> QED
    BY <2>1 DEF WorkerRank
<1>7. CASE ClassicStart
  <2>1. /\ UNCHANGED <<queue, bpc>>
        /\ \/ pc = "classic" /\ pc' \in {"classic_run", "oracle", "record"}
           \/ pc = "oracle" /\ pc' \in {"oracle_run", "record"}
    BY <1>7 DEF ClassicStart, Judge, builderVars
  <2> QED
    BY <2>1 DEF WorkerRank
<1>8. CASE ClassicEnd \/ ClassicRaises
  <2>1. /\ UNCHANGED <<queue, bpc>>
        /\ \/ pc = "classic_run" /\ pc' \in {"oracle", "record", "unwind"}
           \/ pc = "oracle_run" /\ pc' \in {"record", "unwind"}
    BY <1>8 DEF ClassicEnd, ClassicRaises, Judge, builderVars
  <2> QED
    BY <2>1 DEF WorkerRank
<1>9. CASE Record
  <2>1. UNCHANGED <<queue, bpc>> /\ pc = "record" /\ pc' \in {"unwind", "await"}
    BY <1>9 DEF Record, builderVars
  <2> QED
    BY <2>1 DEF WorkerRank
<1>10. CASE Unwind
  <2>1. UNCHANGED <<queue, bpc>> /\ pc = "unwind" /\ pc' = "done"
    BY <1>10 DEF Unwind, builderVars
  <2> QED
    BY <2>1 DEF WorkerRank
<1> QED
  BY <1>1, <1>2, <1>3, <1>4, <1>5, <1>6, <1>7, <1>8, <1>9, <1>10 DEF WorkerNext

\* A signal, or the cleanup, may end a build or a classic run, never more.
LEMMA StopChildrenCounts ==
  ASSUME TypeOK, NEW o, StopChildren(o), queue' = queue
  PROVE  WorkLeft' <= WorkLeft /\ \A b \in Boots : loop'[b] \in {loop[b], Gone}
<1>1. \A b \in Boots : loop'[b] \in {loop[b], Gone}
  BY DEF StopChildren
<1>2. bpc' = bpc \/ (bpc = "building" /\ bpc' = "built")
  BY DEF StopChildren, builderVars
<1>3. \/ pc' = pc \/ (pc = "classic_run" /\ pc' \in {"oracle", "record"})
      \/ (pc = "oracle_run" /\ pc' = "record")
  BY DEF StopChildren, Judge
<1>4. Ahead' = Ahead /\ Ahead \in Nat
  BY <1>2 DEF Ahead, TypeOK
<1>5. BuilderRank(bpc') <= BuilderRank(bpc)
  BY <1>2, RanksAreNumbers DEF BuilderRank
<1>6. WorkerRank(pc') <= WorkerRank(pc)
  BY <1>3, RanksAreNumbers DEF WorkerRank
<1> QED
  BY <1>1, <1>4, <1>5, <1>6, RanksAreNumbers DEF WorkLeft

\* The host's threads end guests or boot one: they do nothing else to them.
LEMMA HostLoops ==
  ASSUME TypeOK, WorkerNext \/ BuilderNext \/ MainNext \/ EnvironmentNext
  PROVE  guest_for \/ \A b \in Boots : loop'[b] \in {loop[b], Gone}
<1>1. ASSUME NEW g, loop' = [loop EXCEPT ![g] = Gone]
      PROVE  \A b \in Boots : loop'[b] \in {loop[b], Gone}
  BY <1>1 DEF TypeOK
<1>2. CASE WorkerNext
  <2>1. CASE BootFirst \/ FinishInGuest
    BY <2>1 DEF BootFirst, FinishInGuest
  <2>2. CASE Joined
    BY <1>1, <2>2 DEF Joined
  <2>3. CASE ~(BootFirst \/ FinishInGuest \/ Joined)
    <3>1. loop' = loop
      BY <1>2, <2>3 DEF WorkerNext, TakeFirst, NextObject, FinishStep1, PostUpper,
         PostReady, WaitRc, CheckRaises, WaitGivesUp, ClassicStart, ClassicEnd,
         ClassicRaises, Record, Unwind
    <3> QED
      BY <3>1
  <2> QED
    BY <2>1, <2>2, <2>3
<1>3. CASE BuilderNext
  BY <1>3 DEF BuilderNext, PrepareStart, PrepareEnd
<1>4. CASE MainNext
  <2>1. CASE JoinedGuest
    BY <1>1, <2>1 DEF JoinedGuest
  <2>2. CASE Cleanup
    BY <2>2 DEF Cleanup, StopChildren
  <2>3. CASE ~(JoinedGuest \/ Cleanup)
    <3>1. loop' = loop
      BY <1>4, <2>3 DEF MainNext, WorkerReturns, SnapshotGuests, ClearGuests,
         RequestStop, JoinGuest, JoinRacesAlive, PoolExits, notMain
    <3> QED
      BY <3>1
  <2> QED
    BY <2>1, <2>2, <2>3
<1>5. CASE EnvironmentNext
  <2>1. CASE OtherWorkerRaises
    BY <2>1 DEF OtherWorkerRaises, notMain
  <2>2. CASE Interrupted
    BY <2>2 DEF Interrupted, StopChildren
  <2> QED
    BY <1>5, <2>1, <2>2 DEF EnvironmentNext
<1> QED
  BY <1>2, <1>3, <1>4, <1>5

LEMMA HostLoopsCount ==
  ASSUME TypeOK, Numbering, JobsInRange,
         WorkerNext \/ BuilderNext \/ MainNext \/ EnvironmentNext
  PROVE  JobsInRange' /\ \A b \in Boots : LoopLeft(loop'[b]) <= LoopLeft(loop[b])
<1>1. /\ Gone.n = 0 /\ Gone.pc = "gone" /\ FreshLoop.n = 0 /\ FreshLoop.pc = "poll"
      /\ Len(Queue) \in Nat
  BY QueueLength DEF Gone, FreshLoop
<1>2. CASE guest_for
  <2>1. \A b \in Boots : loop'[b] \in {loop[b], FreshLoop}
    BY <1>2 DEF guest_for, Boot, TypeOK
  <2>2. JobsInRange'
    BY <1>1, <2>1 DEF JobsInRange
  <2> QED
    BY <1>2, <2>2, GuestForLoops
<1>3. CASE \A b \in Boots : loop'[b] \in {loop[b], Gone}
  <2>1. JobsInRange'
    BY <1>1, <1>3 DEF JobsInRange
  <2> QED
    BY <1>3, <2>1, LoopsEnd
<1> QED
  BY <1>2, <1>3, HostLoops

\* Every job number is served once, so no guest goes past the last one.
LEMMA JobsInRangeStep ==
  ASSUME TypeOK, Numbering, JobsInRange, [Next]_vars
  PROVE  JobsInRange'
<1>1. CASE GuestNext
  <2>1. PICK b \in Boots : GuestTakes(b) \/ GuestRuns(b) \/ GuestReports(b)
                           \/ GuestLeaves(b) \/ GuestDies(b)
    BY <1>1 DEF GuestNext
  <2>2. /\ \A d \in Boots : d # b => loop'[d] = loop[d]
        /\ loop'[b].n <= Len(Queue) + 1
        /\ loop'[b].pc \in {"mounted", "unmounted"} => loop'[b].n <= Len(Queue)
    BY <2>1, GuestStepCounts
  <2> QED
    BY <2>2 DEF JobsInRange
<1>2. CASE Finished \/ UNCHANGED vars
  BY <1>2 DEF Finished, vars, JobsInRange
<1> QED
  BY <1>1, <1>2, HostLoopsCount DEF Next

\* Every step of anybody uses up work of its own and adds to nobody's.
LEMMA StepsCount ==
  ASSUME TypeOK, Numbering, JobsInRange, Bounded, [Next]_vars, LeftIsFinite'
  PROVE  [StepCounts]_vars
<1> SUFFICES ASSUME Next, vars' # vars PROVE StepCounts
  OBVIOUS
<1>1. WorkLeft \in Nat /\ MainLeft \in Nat /\ \A b \in Boots : LoopLeft(loop[b]) \in Nat
  BY LeftAreNumbers DEF LeftIsFinite
<1>2. WorkLeft' \in Nat /\ \A b \in Boots : LoopLeft(loop'[b]) \in Nat
  BY DEF LeftIsFinite, LoopLeft, JobsLeft
<1>3. interrupts \in Nat /\ MaxInterrupts \in Nat
  BY PipelineAssumption DEF TypeOK
<1>4. ASSUME WorkerNext PROVE StepCounts
  <2>1. WorkLeft' < WorkLeft
    BY <1>4, WorkerTakes, WorkerForward, RankFalls
  <2>2. MainLeft' = MainLeft
    BY <1>4, WorkerGoing DEF mainVars, MainLeft
  <2>3. WorkLeft' <= WorkLeft /\ MainLeft' <= MainLeft
    BY <1>1, <1>2, <2>1, <2>2
  <2> QED
    BY <1>4, <2>1, <2>3, HostLoopsCount DEF StepCounts
<1>5. ASSUME BuilderNext PROVE StepCounts
  <2>1. /\ UNCHANGED <<queue, pc, mpc, interrupts>>
        /\ \/ bpc = "submitted" /\ bpc' \in {"building", "built"}
           \/ bpc = "building" /\ bpc' = "built"
    BY <1>5 DEF BuilderNext, PrepareStart, PrepareEnd, workerVars, mainVars
  <2>2. BuilderRank(bpc') < BuilderRank(bpc)
    BY <2>1 DEF BuilderRank
  <2>3. Ahead' = Ahead /\ Ahead \in Nat
    BY <2>1 DEF Ahead, TypeOK
  <2>4. WorkLeft' < WorkLeft /\ WorkLeft' <= WorkLeft
    BY <2>1, <2>2, <2>3, RanksAreNumbers DEF WorkLeft
  <2>5. MainLeft' <= MainLeft
    BY <1>1, <2>1 DEF MainLeft
  <2> QED
    BY <1>5, <2>4, <2>5, HostLoopsCount DEF StepCounts
<1>6. ASSUME GuestNext PROVE StepCounts
  <2>1. PICK b \in Boots : GuestTakes(b) \/ GuestRuns(b) \/ GuestReports(b)
                           \/ GuestLeaves(b) \/ GuestDies(b)
    BY <1>6 DEF GuestNext
  <2>2. /\ LoopLeft(loop'[b]) < LoopLeft(loop[b])
        /\ \A d \in Boots : d # b => loop'[d] = loop[d]
        /\ UNCHANGED <<queue, pc, bpc, mpc, interrupts>>
    BY <2>1, GuestStepCounts
  <2>3. WorkLeft' = WorkLeft /\ MainLeft' = MainLeft
    BY <2>2 DEF WorkLeft, MainLeft, Ahead
  <2>4. LoopLeft(loop'[b]) <= LoopLeft(loop[b])
    BY <1>1, <1>2, <2>2
  <2>5. \A d \in Boots : LoopLeft(loop'[d]) <= LoopLeft(loop[d])
    BY <1>1, <2>2, <2>4
  <2> QED
    BY <1>1, <2>2, <2>3, <2>5 DEF StepCounts
<1>7. ASSUME MainNext PROVE StepCounts
  <2>1. interrupts' = interrupts /\ MainRank(mpc') < MainRank(mpc)
    BY <1>7 DEF MainNext, WorkerReturns, SnapshotGuests, ClearGuests, RequestStop,
       JoinGuest, JoinRacesAlive, JoinTakesProc, JoinedGuest, PoolExits, Cleanup,
       notMain, MainRank
  <2>2. MainLeft' < MainLeft /\ MainLeft' <= MainLeft
    BY <1>3, <2>1, RanksAreNumbers DEF MainLeft
  <2>3. WorkLeft' <= WorkLeft
    <3>1. CASE Cleanup
      BY <3>1, StopChildrenCounts DEF Cleanup
    <3>2. CASE JoinRacesAlive
      <4>1. UNCHANGED <<queue, bpc>> /\ pc = "wait" /\ pc' = "unwind"
        BY <3>2 DEF JoinRacesAlive, builderVars
      <4>2. WorkerRank(pc') < WorkerRank(pc)
        BY <4>1 DEF WorkerRank
      <4> QED
        BY <1>1, <1>2, <4>1, <4>2, RankFalls
    <3>3. CASE ~(Cleanup \/ JoinRacesAlive)
      <4>1. UNCHANGED <<queue, bpc, pc>>
        BY <1>7, <3>3 DEF MainNext, WorkerReturns, SnapshotGuests, ClearGuests,
           RequestStop, JoinGuest, JoinedGuest, PoolExits, notMain, workerVars,
           builderVars
      <4> QED
        BY <1>1, <4>1 DEF WorkLeft, Ahead
    <3> QED
      BY <3>1, <3>2, <3>3
  <2> QED
    BY <1>7, <2>2, <2>3, HostLoopsCount DEF StepCounts
<1>8. ASSUME EnvironmentNext PROVE StepCounts
  <2>1. MainLeft' < MainLeft /\ MainLeft' <= MainLeft
    <3>1. CASE OtherWorkerRaises
      <4>1. mpc = "results" /\ mpc' = "snapshot" /\ interrupts' = interrupts
        BY <3>1 DEF OtherWorkerRaises, notMain
      <4> QED
        BY <1>3, <4>1 DEF MainLeft, MainRank
    <3>2. CASE Interrupted
      <4>1. /\ interrupts' = interrupts + 1
            /\ \/ mpc = "results" /\ mpc' = "snapshot"
               \/ mpc \in {"snapshot", "clear", "ask", "join", "joinwait"} /\ mpc' = "pool"
               \/ mpc \in {"pool", "cleanup"} /\ mpc' = "cleanup"
        BY <3>2 DEF Interrupted, TypeOK, MainPCs
      <4>2. MainRank(mpc') <= MainRank(mpc)
        BY <4>1 DEF MainRank
      <4> QED
        BY <1>3, <4>1, <4>2, RanksAreNumbers DEF MainLeft
    <3> QED
      BY <1>8, <3>1, <3>2 DEF EnvironmentNext
  <2>2. WorkLeft' <= WorkLeft
    <3>1. CASE OtherWorkerRaises
      BY <1>1, <3>1 DEF OtherWorkerRaises, notMain, workerVars, builderVars, WorkLeft, Ahead
    <3>2. CASE Interrupted
      BY <3>2, StopChildrenCounts DEF Interrupted
    <3> QED
      BY <1>8, <3>1, <3>2 DEF EnvironmentNext
  <2> QED
    BY <1>8, <2>1, <2>2, HostLoopsCount DEF StepCounts
<1> QED
  BY <1>4, <1>5, <1>6, <1>7, <1>8 DEF Next, Finished

\* Each object is taken once, has guest_for called for it once and is posted
\* once, whoever else steps in between.
LEMMA BoundedStep ==
  ASSUME TypeOK, Bounded, [Next]_vars
  PROVE  Bounded'
<1> USE QueueLength
<1>1. /\ Len(queue) \in Nat /\ (queue # <<>> => Len(Tail(queue)) = Len(queue) - 1)
      /\ Len(<<>>) = 0
      /\ boots \in Nat /\ \A b \in Boots : nextJob[b] \in Nat
  BY BootsAreNumbers DEF TypeOK
<1>2. ASSUME UNCHANGED <<queue, boots, nextJob>>, bpc = "idle" <=> bpc' = "idle",
             \/ pc' = pc
             \/ /\ pc \notin {"take", "boot"} /\ pc' \notin {"take", "boot", "finish", "post"}
                /\ pc' = "await" => bpc' # "idle"
      PROVE  Bounded'
  <2>1. Ahead' = Ahead /\ Ahead \in Nat
    BY <1>1, <1>2 DEF Ahead
  <2>2. CASE pc' = pc
    BY <1>2, <2>1, <2>2 DEF Bounded
  <2>3. CASE pc \notin {"take", "boot"} /\ pc' \notin {"take", "boot", "finish", "post"}
             /\ (pc' = "await" => bpc' # "idle")
    BY <1>1, <1>2, <2>1, <2>3 DEF Bounded
  <2> QED
    BY <1>2, <2>2, <2>3
<1>3. ASSUME guest_for
      PROVE  boots' \in {boots, boots + 1} /\ UNCHANGED nextJob
  BY <1>3 DEF guest_for, Boot
<1>4. CASE WorkerNext
  <2>1. CASE TakeFirst
    <3>1. /\ UNCHANGED <<boots, nextJob, bpc>> /\ pc = "take"
          /\ \/ pc' = "unwind" /\ queue = <<>> /\ queue' = queue
             \/ pc' = "boot" /\ queue # <<>> /\ queue' = Tail(queue)
      BY <2>1 DEF TakeFirst, hostVars, builderVars
    <3> QED
      BY <1>1, <3>1 DEF Bounded, Ahead
  <2>2. CASE BootFirst
    <3>1. /\ boots' \in {boots, boots + 1} /\ UNCHANGED <<nextJob, queue>>
          /\ pc = "boot" /\ pc' = "await" /\ bpc' = "submitted"
      BY <1>3, <2>2 DEF BootFirst, Submit
    <3> QED
      BY <1>1, <3>1 DEF Bounded, Ahead
  <2>3. CASE NextObject
    <3>1. /\ UNCHANGED <<boots, nextJob>> /\ pc = "await" /\ pc' \in {"unwind", "finish"}
          /\ bpc = "built"
          /\ \/ bpc' = "idle" /\ queue' = queue
             \/ bpc' = "submitted" /\ queue # <<>> /\ queue' = Tail(queue)
      BY <2>3 DEF NextObject, Submit, hostVars
    <3>2. Ahead' = Ahead - 1 /\ Ahead \in Nat
      BY <1>1, <3>1 DEF Ahead
    <3> QED
      BY <1>1, <3>1, <3>2 DEF Bounded
  <2>4. CASE FinishInGuest
    <3>1. /\ boots' \in {boots, boots + 1} /\ UNCHANGED <<nextJob, queue, bpc>>
          /\ pc = "finish" /\ pc' = "post"
      BY <1>3, <2>4 DEF FinishInGuest, builderVars
    <3>2. Ahead' = Ahead /\ Ahead \in Nat
      BY <1>1, <3>1 DEF Ahead
    <3> QED
      BY <1>1, <3>1, <3>2 DEF Bounded
  <2>5. CASE PostUpper
    <3>1. /\ UNCHANGED <<boots, queue, bpc>> /\ pc = "post" /\ pc' = "ready"
          /\ \A b \in Boots : nextJob'[b] \in {nextJob[b], nextJob[b] + 1}
      BY <2>5 DEF PostUpper, builderVars, TypeOK
    <3>2. Ahead' = Ahead /\ Ahead \in Nat
      BY <1>1, <3>1 DEF Ahead
    <3> QED
      BY <1>1, <3>1, <3>2 DEF Bounded
  <2>6. CASE ~(TakeFirst \/ BootFirst \/ NextObject \/ FinishInGuest \/ PostUpper)
    <3>1. UNCHANGED <<queue, boots, nextJob, bpc>>
      BY <1>4, <2>6 DEF WorkerNext, FinishStep1, PostReady, WaitRc, CheckRaises,
         WaitGivesUp, Joined, ClassicStart, ClassicEnd, ClassicRaises, Record, Unwind,
         builderVars, hostVars
    <3>2. /\ pc \notin {"take", "boot"} /\ pc' \notin {"take", "boot", "finish", "post"}
          /\ pc' = "await" => bpc # "idle"
      BY <1>4, <2>6 DEF WorkerNext, FinishStep1, PostReady, WaitRc, CheckRaises,
         WaitGivesUp, StopMine, Joined, ClassicStart, ClassicEnd, ClassicRaises, Judge,
         Record, Unwind
    <3> QED
      BY <1>2, <3>1, <3>2
  <2> QED
    BY <2>1, <2>2, <2>3, <2>4, <2>5, <2>6
<1>5. CASE BuilderNext
  BY <1>2, <1>5 DEF BuilderNext, PrepareStart, PrepareEnd, workerVars, hostVars
<1>6. CASE GuestNext
  <2>1. UNCHANGED <<queue, boots, nextJob, bpc, pc>>
    BY <1>6 DEF GuestNext, GuestTakes, GuestRuns, GuestReports, GuestLeaves, GuestDies,
       workerVars, builderVars, hostVars
  <2> QED
    BY <1>2, <2>1
<1>7. ASSUME NEW o, StopChildren(o), UNCHANGED <<queue, boots, nextJob>>
      PROVE  Bounded'
  <2>1. /\ bpc = "idle" <=> bpc' = "idle"
        /\ \/ pc' = pc
           \/ pc \in {"classic_run", "oracle_run"} /\ pc' \in {"oracle", "record"}
    BY <1>7 DEF StopChildren, Judge, builderVars
  <2> QED
    BY <1>2, <1>7, <2>1
<1>8. CASE MainNext
  <2>1. CASE Cleanup
    BY <1>7, <2>1 DEF Cleanup, hostVars
  <2>2. CASE ~Cleanup
    <3>1. UNCHANGED <<queue, boots, nextJob, bpc>> /\ (pc' = pc \/ (pc = "wait" /\ pc' = "unwind"))
      BY <1>8, <2>2 DEF MainNext, WorkerReturns, SnapshotGuests, ClearGuests,
         RequestStop, JoinGuest, JoinRacesAlive, JoinedGuest, PoolExits, notMain,
         workerVars, builderVars
    <3> QED
      BY <1>2, <3>1
  <2> QED
    BY <2>1, <2>2
<1>9. CASE EnvironmentNext
  <2>1. CASE OtherWorkerRaises
    BY <1>2, <2>1 DEF OtherWorkerRaises, notMain, workerVars, builderVars
  <2>2. CASE Interrupted
    BY <1>7, <2>2 DEF Interrupted
  <2> QED
    BY <1>9, <2>1, <2>2 DEF EnvironmentNext
<1>10. CASE Finished \/ UNCHANGED vars
  BY <1>2, <1>10 DEF Finished, vars, workerVars, builderVars, hostVars
<1> QED
  BY <1>4, <1>5, <1>6, <1>8, <1>9, <1>10 DEF Next

\* The guest a job is posted to was booted.
MineBooted == pc = "post" => mine \in Boots

LEMMA MineBootedStep ==
  ASSUME TypeOK, MineBooted, [Next]_vars
  PROVE  MineBooted'
<1>1. CASE WorkerNext
  <2>1. CASE FinishInGuest
    BY <2>1 DEF FinishInGuest, guest_for, Boot, alive, TypeOK, MineBooted
  <2>2. CASE ~FinishInGuest
    <3>1. pc' # "post"
      BY <1>1, <2>2 DEF WorkerNext, TakeFirst, BootFirst, NextObject, FinishStep1,
         PostUpper, PostReady, WaitRc, CheckRaises, WaitGivesUp, StopMine, Joined,
         ClassicStart, ClassicEnd, ClassicRaises, Judge, Record, Unwind
    <3> QED
      BY <3>1 DEF MineBooted
  <2> QED
    BY <2>1, <2>2
<1>2. CASE ~WorkerNext
  <2>1. mine' = mine /\ (pc' = pc \/ pc' # "post")
    BY <1>2 DEF Next, BuilderNext, PrepareStart, PrepareEnd, GuestNext, GuestTakes,
       GuestRuns, GuestReports, GuestLeaves, GuestDies, MainNext, WorkerReturns,
       SnapshotGuests, ClearGuests, RequestStop, JoinGuest, JoinRacesAlive,
       JoinedGuest, PoolExits, Cleanup, EnvironmentNext, OtherWorkerRaises,
       Interrupted, StopChildren, Judge, Finished, vars, workerVars, notMain
  <2> QED
    BY <2>1 DEF MineBooted
<1> QED
  BY <1>1, <1>2

EndInv == IInv /\ JobsInRange /\ Bounded /\ MineBooted

LEMMA EndInvariant == Spec => []EndInv
<1>1. Init => JobsInRange /\ Bounded /\ MineBooted
  BY QueueLength DEF Init, JobsInRange, Bounded, MineBooted, NoLoop, FreshLoop
<1>2. IInv /\ JobsInRange /\ Bounded /\ MineBooted /\ [Next]_vars
        => (JobsInRange /\ Bounded /\ MineBooted)'
  BY JobsInRangeStep, BoundedStep, MineBootedStep DEF IInv, TypeInv, Discipline
<1> QED
  BY <1>1, <1>2, InductiveInvariant, PTL DEF Spec, EndInv

\* The worker's numbers of guests and jobs are those its queue calls for:
\* whenever guest_for is called there is a number for the guest it may boot,
\* and whenever a job is posted there is a number for it.  Nothing the
\* worker does is lost because the model numbers guests and jobs finitely.
NoBoundBinds ==
  /\ pc \in {"boot", "finish"} => boots + 1 \in Boots
  /\ pc = "post" => nextJob[mine] \in JobIds

LEMMA BoundsSuffice == EndInv => NoBoundBinds
<1> SUFFICES ASSUME EndInv PROVE NoBoundBinds
  OBVIOUS
<1>1. TypeOK /\ Bounded /\ MineBooted
  BY DEF EndInv, IInv, TypeInv
<1>2. Len(queue) \in Nat /\ boots \in Nat /\ Ahead \in Nat /\ Len(Queue) \in Nat
  BY <1>1, BootsAreNumbers, QueueLength DEF TypeOK, Ahead
<1>3. pc \in {"boot", "finish"} => boots + 1 \in Boots
  <2>1. ASSUME pc = "boot" PROVE boots + 1 \in Boots
    BY <1>1, <1>2, <2>1 DEF Bounded, Boots
  <2>2. ASSUME pc = "finish" PROVE boots + 1 \in Boots
    BY <1>1, <1>2, <2>2 DEF Bounded, Boots
  <2> QED
    BY <2>1, <2>2
<1>4. ASSUME pc = "post" PROVE nextJob[mine] \in JobIds
  <2>1. mine \in Boots /\ nextJob[mine] \in Nat
    BY <1>1, <1>4 DEF MineBooted, TypeOK
  <2>2. nextJob[mine] + Ahead + 1 <= Len(Queue)
    BY <1>1, <1>4, <2>1 DEF Bounded
  <2> QED
    BY <1>2, <2>1, <2>2 DEF JobIds
<1> QED
  BY <1>3, <1>4 DEF NoBoundBinds

\* Boots and JobIds, the numbers the model has for Guest objects and for the
\* directories jobs/<n>, never run out under guest_for or Guest.post.
THEOREM BoundsNeverBind == Spec => []NoBoundBinds
BY EndInvariant, BoundsSuffice, PTL

\* A worker, its builder, its guests and main take finitely many steps
\* together: every step lowers what its party has left, a number, and raises
\* nobody's.
StepsRunOut == [][StepCounts]_vars

\* pipelined_loop and run_all end after finitely many steps, for every queue,
\* any number of interrupts and whatever the guests do: no loop of theirs
\* goes round without an object, a job number or a signal being used up.
THEOREM StepsComeToAnEnd == Spec => []LeftIsFinite /\ StepsRunOut
<1>1. EndInv => LeftIsFinite
  BY LeftAreNumbers DEF EndInv, IInv, TypeInv
<1>2. EndInv /\ LeftIsFinite' /\ [Next]_vars => [StepCounts]_vars
  BY StepsCount DEF EndInv, IInv, TypeInv, Discipline
<1> QED
  BY <1>1, <1>2, EndInvariant, PTL DEF Spec, StepsRunOut

\* When a thread can take a step, read off the guards of its actions: the
\* worker waits for its builder alone, main for the worker alone, and nobody
\* waits for a guest.
CanWork ==
  \/ pc \in WorkerPCs \ {"boot", "finish", "post", "await", "unwind", "done"}
  \/ pc = "await" /\ bpc = "built"
  \/ pc = "unwind" /\ bpc \in {"idle", "built"}
  \/ pc \in {"boot", "finish"} /\ (alive(guests) \/ boots + 1 \in Boots)
  \/ pc = "post" /\ nextJob[mine] \in JobIds
CanBuild == bpc \in {"submitted", "building"}
CanMain ==
  mpc \notin {"results", "pool", "returned"} \/ (mpc \in {"results", "pool"} /\ pc = "done")

\* No deadlock between the three threads: until main() has returned and the
\* worker has ended, one of them can go on, whatever the guests do.
NeverStuck ==
  (mpc = "returned" /\ pc = "done") \/ CanWork \/ CanBuild \/ CanMain

\* The worker's pending.result() and the pool's exit, main's future.result()
\* never wait for each other in a circle.
THEOREM SomebodyGoesOn == Spec => []NeverStuck
<1>1. EndInv => NeverStuck
  <2> SUFFICES ASSUME EndInv PROVE NeverStuck
    OBVIOUS
  <2>1. TypeOK /\ NoBoundBinds /\ (pc = "await" => bpc # "idle")
    BY BoundsSuffice DEF EndInv, IInv, TypeInv, Bounded
  <2> QED
    BY <2>1 DEF NeverStuck, CanWork, CanBuild, CanMain, NoBoundBinds, TypeOK,
       WorkerPCs, BuilderPCs, MainPCs
<1> QED
  BY <1>1, EndInvariant, PTL

=============================================================================
