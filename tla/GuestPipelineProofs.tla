------------------------- MODULE GuestPipelineProofs -------------------------
(***************************************************************************)
(* Proofs about one overlay worker of the runtime gate, for every queue of *)
(* translations and every number of interrupts.                            *)
(***************************************************************************)
EXTENDS GuestPipeline, TLAPS

\* TypeOK is not inductive: Record adds cur.name to the recorded names and
\* WaitRc adds the guest to the checked ones, so the object being finished
\* and the one being built must be translations, and the guest a guest.
NamesKnown ==
  /\ pc \notin {"take", "unwind", "done"} => cur.name \in Names
  /\ bpc # "idle" => pending.name \in Names
  /\ pc \in {"post", "ready", "wait", "join_lost", "join_fail"} => mine \in Boots

TypeInv == TypeOK /\ NamesKnown

-----------------------------------------------------------------------------
\* What runtime_result returns is a verdict, whatever the run did.
LEMMA VerdictType == \A o : runtime_result(o) \in Verdict
BY DEF runtime_result, Verdict

\* What finish() keeps of a step 1: "ok", or a verdict that is not PASS.
LEMMA Step1Type ==
  ASSUME NEW o
  PROVE  Step1(o) \in {"ok", "NO-ORACLE", "FAIL"}
BY DEF Step1, runtime_result

LEMMA InitType == Init => TypeInv
<1> SUFFICES ASSUME Init PROVE TypeInv
  OBVIOUS
<1> USE PipelineAssumption
<1>1. NothingPrepared \in Prepared
  BY DEF NothingPrepared, Prepared, Slots, SLOTS
<1>2. NoResult \in Result
  BY DEF NoResult, Result, Verdict
<1>3. NoJob \in Job /\ NoLoop \in Loop /\ 0 \in JobIds
  BY DEF NoJob, Job, NoLoop, FreshLoop, Loop, Slots, NoSlot, NoRc, Statuses,
         Summaries, JobIds
<1> QED
  BY <1>1, <1>2, <1>3
     DEF Init, TypeInv, TypeOK, NamesKnown, WorkerPCs, BuilderPCs, MainPCs

-----------------------------------------------------------------------------
(***************************************************************************)
(* Type correctness, one lemma for each party.                             *)
(***************************************************************************)
\* guest_for keeps the types of what it may change.
LEMMA GuestForType ==
  ASSUME TypeOK, guest_for
  PROVE  /\ boots' \in {0} \cup Boots /\ guests' \in {0} \cup Boots
         /\ mine' \in Boots
         /\ held' \subseteq Boots /\ children' \subseteq Boots
         /\ jobs' \in [JobIds -> Job] /\ stop' \in BOOLEAN
         /\ loop' \in [Boots -> Loop]
         /\ UNCHANGED <<nextJob, checked, layer>>
<1>1. NoJob \in Job /\ FreshLoop \in Loop
  BY DEF NoJob, Job, FreshLoop, Loop, Slots, NoSlot, NoRc, Statuses, Summaries
<1>2. CASE alive(guests)
  BY Zenon, <1>2 DEF guest_for, alive, TypeOK
<1>3. CASE ~alive(guests)
  BY Zenon, <1>1, <1>3 DEF guest_for, Boot, TypeOK
<1> QED
  BY <1>2, <1>3

\* The future of the next object.
LEMMA SubmitType ==
  ASSUME TypeOK, NEW name \in Names, Submit(name)
  PROVE  /\ bpc' = "submitted" /\ pending' \in Prepared
         /\ pending'.name = name /\ count' \in Nat
<1>1. count % SLOTS \in Slots
  BY DEF TypeOK, SLOTS, Slots
<1> QED
  BY <1>1 DEF Submit, TypeOK, Prepared

\* Judging a classic run, with or without the oracle.
LEMMA JudgeType ==
  ASSUME TypeOK, NEW from, NEW o,
         NEW kind \in {"classic", "cancelled"}, Judge(from, o, kind)
  PROVE  res' \in Result /\ pc' \in {"oracle", "record"}
<1>1. runtime_result(o) \in Verdict
  BY VerdictType
<1>2. CASE from = "classic"
  BY <1>1, <1>2 DEF Judge, Result, TypeOK, Prepared
<1>3. CASE from # "classic"
  BY <1>1, <1>3 DEF Judge, Result, TypeOK, Prepared
<1> QED
  BY <1>2, <1>3

\* The worker thread.
LEMMA WorkerType == TypeInv /\ WorkerNext => TypeInv'
<1> SUFFICES ASSUME TypeInv, WorkerNext PROVE TypeInv'
  OBVIOUS
<1> USE DEF TypeInv
<1>1. CASE TakeFirst
  <2>1. CASE queue = <<>>
    BY <1>1, <2>1 DEF TakeFirst, TypeOK, NamesKnown, WorkerPCs, builderVars,
       hostVars, dirVars, mainVars
  <2>2. CASE queue # <<>>
    <3>1. Head(queue) \in Names /\ Tail(queue) \in Seq(Names)
      BY <2>2 DEF TypeOK
    <3>2. cur' \in Prepared /\ cur'.name \in Names
      BY Zenon, <1>1, <2>2, <3>1 DEF TakeFirst, TypeOK, Prepared
    <3> QED
      BY ZenonT(40), <1>1, <2>2, <3>1, <3>2
         DEF TakeFirst, TypeOK, NamesKnown, WorkerPCs,
         builderVars, hostVars, dirVars, mainVars
  <2> QED
    BY <2>1, <2>2
<1>2. CASE BootFirst
  <2>1. cur.name \in Names
    BY <1>2 DEF BootFirst, NamesKnown
  <2>2. guest_for /\ Submit(cur.name)
    BY <1>2 DEF BootFirst
  <2> QED
    BY <1>2, <2>1, <2>2, GuestForType, SubmitType
       DEF BootFirst, TypeOK, NamesKnown, WorkerPCs, BuilderPCs, mainVars
<1>3. CASE NextObject
  <2>1. CASE cancelled
    BY <1>3, <2>1 DEF NextObject, TypeOK, NamesKnown, WorkerPCs, BuilderPCs,
       hostVars, dirVars, mainVars
  <2>2. CASE ~cancelled /\ queue = <<>>
    BY <1>3, <2>2 DEF NextObject, TypeOK, NamesKnown, WorkerPCs, BuilderPCs,
       hostVars, dirVars, mainVars
  <2>3. CASE ~cancelled /\ queue # <<>>
    <3>1. Head(queue) \in Names /\ Tail(queue) \in Seq(Names)
      BY <2>3 DEF TypeOK
    <3>2. Submit(Head(queue))
      BY <1>3, <2>3 DEF NextObject
    <3> QED
      BY ZenonT(40), <1>3, <2>3, <3>1, <3>2, SubmitType
         DEF NextObject, TypeOK, NamesKnown,
         WorkerPCs, BuilderPCs, hostVars, dirVars, mainVars
  <2> QED
    BY <2>1, <2>2, <2>3
<1>4. CASE FinishStep1
  <2>1. res' \in Result
    BY <1>4 DEF FinishStep1, TypeOK, Prepared, Result, Verdict
  <2> QED
    BY <1>4, <2>1 DEF FinishStep1, TypeOK, NamesKnown, WorkerPCs, builderVars,
       hostVars, dirVars, mainVars
<1>5. CASE FinishInGuest
  <2>1. guest_for
    BY <1>5 DEF FinishInGuest
  <2> QED
    BY <1>5, <2>1, GuestForType DEF FinishInGuest, TypeOK, NamesKnown, WorkerPCs,
       builderVars, mainVars
<1>6. CASE PostUpper
  <2>1. mine \in Boots /\ nextJob[mine] \in Nat
    BY <1>6 DEF PostUpper, TypeOK, NamesKnown
  <2>2. [jobs[nextJob[mine]] EXCEPT !.upper = cur.slot] \in Job
    <3>1. jobs[nextJob[mine]] \in Job /\ cur.slot \in Slots
      BY <1>6 DEF PostUpper, TypeOK, Prepared
    <3> QED
      BY <3>1 DEF Job
  <2>3. jobs' \in [JobIds -> Job]
    BY <1>6, <2>2 DEF PostUpper, TypeOK
  <2>4. nextJob' \in [Boots -> Nat]
    BY <1>6, <2>1 DEF PostUpper, TypeOK
  <2> QED
    BY <1>6, <2>1, <2>3, <2>4 DEF PostUpper, TypeOK, NamesKnown, WorkerPCs,
       builderVars, mainVars
<1>7. CASE PostReady
  <2>1. jobs' \in [JobIds -> Job]
    BY ZenonT(40), <1>7 DEF PostReady, TypeOK, Job
  <2> QED
    BY <1>7, <2>1 DEF PostReady, TypeOK, NamesKnown, WorkerPCs, builderVars,
       hostVars, mainVars
<1>8. CASE WaitRc
  <2> DEFINE o == [rc |-> jobs[job].rc, noCons |-> FALSE,
                   summary |-> jobs[job].summary]
  <2>1. mine \in Boots /\ cur.name \in Names
    BY <1>8 DEF WaitRc, NamesKnown
  <2>2. runtime_result(o) \in Verdict
    BY VerdictType
  <2>3. jobs[job].obj \in Names \cup {NoName}
    BY DEF TypeOK, Job
  <2> HIDE DEF o
  <2>4. CASE runtime_result(o) = "FAIL"
    BY Zenon, <1>8, <2>1, <2>4
       DEF o, WaitRc, StopMine, TypeOK, NamesKnown, WorkerPCs,
       builderVars, mainVars
  <2>5. CASE runtime_result(o) # "FAIL"
    <3>1. res' = [verdict |-> runtime_result(o), c_verdict |-> "NOT-RUN",
                  by |-> "guest", obj |-> jobs[job].obj]
      BY <1>8, <2>5 DEF o, WaitRc
    <3>2. res' \in Result
      BY <2>2, <2>3, <3>1 DEF Result
    <3> QED
      BY ZenonT(40), <1>8, <2>1, <2>5, <3>2
         DEF o, WaitRc, TypeOK, NamesKnown, WorkerPCs,
         builderVars, mainVars
  <2> QED
    BY <2>4, <2>5
<1>9. CASE CheckRaises
  BY <1>9 DEF CheckRaises, TypeOK, NamesKnown, WorkerPCs, builderVars, hostVars,
     dirVars, mainVars
<1>10. CASE WaitGivesUp
  BY <1>10 DEF WaitGivesUp, StopMine, TypeOK, NamesKnown, WorkerPCs, builderVars,
     mainVars
<1>11. CASE Joined
  <2>1. Gone \in Loop
    BY DEF Gone, FreshLoop, Loop, NoSlot, Statuses
  <2> QED
    BY <1>11, <2>1 DEF Joined, TypeOK, NamesKnown, WorkerPCs, builderVars,
       dirVars, mainVars
<1>12. CASE ClassicStart
  <2>1. CASE cancelled
    BY <1>12, <2>1, JudgeType DEF ClassicStart, TypeOK, NamesKnown, WorkerPCs,
       builderVars, hostVars, dirVars, mainVars
  <2>2. CASE ~cancelled
    BY <1>12, <2>2 DEF ClassicStart, TypeOK, NamesKnown, WorkerPCs, builderVars,
       hostVars, dirVars, mainVars
  <2> QED
    BY <2>1, <2>2
<1>13. CASE ClassicEnd
  <2>1. res' \in Result /\ pc' \in {"oracle", "record"}
    BY <1>13, JudgeType DEF ClassicEnd
  <2> QED
    BY <1>13, <2>1 DEF ClassicEnd, TypeOK, NamesKnown, WorkerPCs, builderVars,
       hostVars, dirVars, mainVars
<1>14. CASE ClassicRaises
  BY <1>14 DEF ClassicRaises, TypeOK, NamesKnown, WorkerPCs, builderVars,
     hostVars, dirVars, mainVars
<1>15. CASE Record
  <2>1. NoResult \in Result
    BY DEF NoResult, Result, Verdict
  <2> QED
    BY <1>15, <2>1 DEF Record, TypeOK, NamesKnown, WorkerPCs, builderVars,
       hostVars, dirVars, mainVars
<1>16. CASE Unwind
  BY <1>16 DEF Unwind, TypeOK, NamesKnown, WorkerPCs, builderVars, hostVars,
     dirVars, mainVars
<1> QED
  BY <1>1, <1>2, <1>3, <1>4, <1>5, <1>6, <1>7, <1>8, <1>9, <1>10, <1>11,
     <1>12, <1>13, <1>14, <1>15, <1>16 DEF WorkerNext

\* The builder thread.
LEMMA BuilderType == TypeInv /\ BuilderNext => TypeInv'
<1> SUFFICES ASSUME TypeInv, BuilderNext PROVE TypeInv'
  OBVIOUS
<1> USE DEF TypeInv
<1>1. \A o : [pending EXCEPT !.step1 = Step1(o)] \in Prepared
  BY Zenon, Step1Type DEF TypeOK, Prepared
<1>2. \A o : [pending EXCEPT !.step1 = Step1(o), !.killed = TRUE] \in Prepared
  BY Zenon, Step1Type DEF TypeOK, Prepared
<1>3. pending.slot \in Slots
  BY DEF TypeOK, Prepared
<1>4. CASE PrepareStart
  <2>1. pending' \in Prepared /\ pending'.name = pending.name
    BY Zenon, <1>2, <1>4 DEF PrepareStart, TypeOK, Prepared
  <2>2. layer' \in [Slots -> Names \cup {NoName}]
    BY <1>3, <1>4 DEF PrepareStart, TypeOK
  <2> QED
    BY <1>4, <2>1, <2>2 DEF PrepareStart, TypeOK, NamesKnown, BuilderPCs,
       workerVars, hostVars, mainVars
<1>5. CASE PrepareEnd
  <2>1. pending' \in Prepared /\ pending'.name = pending.name
    BY <1>1, <1>5 DEF PrepareEnd, TypeOK, Prepared
  <2>2. layer' \in [Slots -> Names \cup {NoName}]
    BY <1>3, <1>5 DEF PrepareEnd, TypeOK, Prepared
  <2> QED
    BY <1>5, <2>1, <2>2 DEF PrepareEnd, TypeOK, NamesKnown, BuilderPCs,
       workerVars, hostVars, mainVars
<1> QED
  BY <1>4, <1>5 DEF BuilderNext

\* The guests.
LEMMA GuestType == TypeInv /\ GuestNext => TypeInv'
<1> SUFFICES ASSUME TypeInv, NEW b \in Boots,
                    \/ GuestTakes(b) \/ GuestRuns(b) \/ GuestReports(b)
                    \/ GuestLeaves(b) \/ GuestDies(b)
             PROVE  TypeInv'
  BY DEF GuestNext
<1> USE DEF TypeInv
<1>1. loop[b] \in Loop /\ Gone \in Loop
  BY DEF TypeOK, Gone, FreshLoop, Loop, NoSlot, Statuses
<1>2. CASE GuestTakes(b)
  <2>1. jobs[loop[b].n].upper \in Slots \cup {NoSlot}
    BY <1>2 DEF GuestTakes, TypeOK, Job
  <2>2. [loop[b] EXCEPT !.pc = "mounted", !.dir = boots,
                        !.slot = jobs[loop[b].n].upper] \in Loop
    BY Zenon, <1>1, <2>1 DEF TypeOK, Loop
  <2>3. loop' \in [Boots -> Loop]
    BY <1>2, <2>2 DEF GuestTakes, TypeOK
  <2> QED
    BY <1>2, <2>3 DEF GuestTakes, TypeOK, NamesKnown, workerVars, builderVars,
       hostVars, dirVars, mainVars
<1>3. CASE GuestRuns(b)
  <2>1. PICK o \in TestOutcomes :
          /\ loop' = [loop EXCEPT
                        ![b].pc = "unmounted", ![b].rc = o.rc,
                        ![b].obj = IF loop[b].slot = NoSlot
                                   THEN NoName ELSE layer[loop[b].slot]]
          /\ jobs' = IF loop[b].dir = boots
                     THEN [jobs EXCEPT ![loop[b].n].summary = o.summary] ELSE jobs
    BY Zenon, <1>3 DEF GuestRuns
  <2>2. o.rc \in Statuses /\ o.summary \in Summaries
    BY DEF TestOutcomes, Statuses, Summaries
  <2> DEFINE ran == IF loop[b].slot = NoSlot THEN NoName ELSE layer[loop[b].slot]
  <2>3. ran \in Names \cup {NoName}
    BY <1>1 DEF TypeOK, Loop
  <2> HIDE DEF ran
  <2>4. [loop[b] EXCEPT !.pc = "unmounted", !.rc = o.rc, !.obj = ran] \in Loop
    BY Zenon, <1>1, <2>2, <2>3 DEF Loop
  <2>5. loop' \in [Boots -> Loop]
    BY <2>1, <2>4 DEF TypeOK, ran
  <2>6. \A j \in Job : [j EXCEPT !.summary = o.summary] \in Job
    BY <2>2 DEF Job
  <2>7. jobs' \in [JobIds -> Job]
    BY Zenon, <2>1, <2>6 DEF TypeOK
  <2>8. UNCHANGED <<workerVars, builderVars, hostVars, layer, stop, mainVars>>
    BY Zenon, <1>3 DEF GuestRuns
  <2> QED
    BY <2>5, <2>7, <2>8 DEF TypeOK, NamesKnown, workerVars, builderVars,
       hostVars, mainVars
<1>4. CASE GuestReports(b)
  <2>1. \A j \in Job : [j EXCEPT !.rc = loop[b].rc, !.obj = loop[b].obj] \in Job
    BY Zenon, <1>1 DEF Job, Loop
  <2>2. jobs' \in [JobIds -> Job]
    BY Zenon, <1>4, <2>1 DEF GuestReports, TypeOK
  <2>3. [loop[b] EXCEPT !.pc = "poll", !.n = @ + 1, !.slot = NoSlot] \in Loop
    <3>1. loop[b].n + 1 \in Nat
      BY <1>1 DEF Loop
    <3> QED
      BY ZenonT(40), <1>1, <3>1 DEF Loop
  <2>4. loop' \in [Boots -> Loop]
    BY <1>4, <2>3 DEF GuestReports, TypeOK
  <2> QED
    BY <1>4, <2>2, <2>4 DEF GuestReports, TypeOK, NamesKnown, workerVars,
       builderVars, hostVars, mainVars
<1>5. CASE GuestLeaves(b) \/ GuestDies(b)
  BY SMTT(40), <1>1, <1>5 DEF GuestLeaves, GuestDies, TypeOK, NamesKnown,
     workerVars,
     builderVars, hostVars, dirVars, mainVars
<1> QED
  BY <1>2, <1>3, <1>4, <1>5

\* stop_children, from the driver's cleanup or from the signal handler.
LEMMA StopChildrenType ==
  ASSUME TypeInv, NEW o \in KilledOutcomes, StopChildren(o)
  PROVE  /\ loop' \in [Boots -> Loop]
         /\ bpc' \in BuilderPCs /\ pending' \in Prepared
         /\ pending'.name = pending.name /\ (bpc = "idle" <=> bpc' = "idle")
         /\ res' \in Result
         /\ pc' = pc \/ (pc \in {"classic_run", "oracle_run"} /\ pc' \in {"oracle", "record"})
<1> USE DEF TypeInv
<1>1. loop' \in [Boots -> Loop]
  <2>1. Gone \in Loop
    BY DEF Gone, FreshLoop, Loop, NoSlot, Statuses
  <2> QED
    BY <2>1 DEF StopChildren, TypeOK
<1>2. /\ bpc' \in BuilderPCs /\ pending' \in Prepared
      /\ pending'.name = pending.name /\ (bpc = "idle" <=> bpc' = "idle")
  <2>1. CASE bpc = "building"
    <3>1. bpc' = "built" /\ pending' = [pending EXCEPT !.step1 = Step1(o), !.killed = TRUE]
      BY <2>1 DEF StopChildren
    <3>2. pending' \in Prepared /\ pending'.name = pending.name
      BY Zenon, <3>1, Step1Type DEF TypeOK, Prepared
    <3> QED
      BY <2>1, <3>1, <3>2 DEF BuilderPCs
  <2>2. CASE bpc # "building"
    BY <2>2 DEF StopChildren, builderVars, TypeOK
  <2> QED
    BY <2>1, <2>2
<1>3. /\ res' \in Result
      /\ pc' = pc \/ (pc \in {"classic_run", "oracle_run"} /\ pc' \in {"oracle", "record"})
  <2>1. CASE pc = "classic_run"
    <3>1. Judge("classic", o, "cancelled")
      BY <2>1 DEF StopChildren
    <3> QED
      BY <2>1, <3>1, JudgeType
  <2>2. CASE pc = "oracle_run"
    <3>1. Judge("oracle", o, "cancelled")
      BY <2>2 DEF StopChildren
    <3> QED
      BY <2>2, <3>1, JudgeType
  <2>3. CASE pc \notin {"classic_run", "oracle_run"}
    BY <2>3 DEF StopChildren, TypeOK
  <2> QED
    BY <2>1, <2>2, <2>3
<1> QED
  BY <1>1, <1>2, <1>3

\* The main thread.
LEMMA MainType == TypeInv /\ MainNext => TypeInv'
<1> SUFFICES ASSUME TypeInv, MainNext PROVE TypeInv'
  OBVIOUS
<1> USE DEF TypeInv
<1>1. Gone \in Loop
  BY DEF Gone, FreshLoop, Loop, NoSlot, Statuses
<1>2. CASE WorkerReturns \/ SnapshotGuests \/ PoolExits
  BY <1>2 DEF WorkerReturns, SnapshotGuests, PoolExits, notMain, TypeOK,
     NamesKnown, MainPCs, workerVars, builderVars
<1>3. CASE ClearGuests \/ RequestStop
  BY ZenonT(40), <1>3 DEF ClearGuests, RequestStop, notMain, TypeOK, NamesKnown,
     MainPCs,
     workerVars, builderVars
<1>4. CASE JoinGuest
  BY <1>4 DEF JoinGuest, JoinTakesProc, notMain, TypeOK, NamesKnown, MainPCs,
     workerVars, builderVars
<1>5. CASE JoinRacesAlive
  BY <1>5 DEF JoinRacesAlive, JoinTakesProc, TypeOK, NamesKnown, MainPCs,
     WorkerPCs, builderVars
<1>6. CASE JoinedGuest
  <2>1. loop' \in [Boots -> Loop] /\ children' \subseteq Boots /\ mpc' \in MainPCs
    BY Zenon, <1>1, <1>6 DEF JoinedGuest, TypeOK, MainPCs
  <2>2. UNCHANGED <<workerVars, boots, nextJob, checked, layer, jobs, builderVars,
                    cancelled, interrupts, guests, held, stop, snapshot, early>>
    BY Zenon, <1>6 DEF JoinedGuest
  <2> QED
    BY SMTT(40), <2>1, <2>2 DEF TypeOK, NamesKnown, workerVars, builderVars
<1>7. CASE Cleanup
  <2>1. PICK o \in KilledOutcomes : StopChildren(o)
    BY <1>7 DEF Cleanup
  <2>2. /\ cancelled' \in BOOLEAN /\ mpc' \in MainPCs
        /\ UNCHANGED <<queue, cur, count, mine, job, raised, recorded, hostVars,
                       dirVars, snapshot, interrupts, early>>
    BY Zenon, <1>7 DEF Cleanup, MainPCs
  <2> QED
    BY <2>1, <2>2, StopChildrenType DEF TypeOK, NamesKnown, WorkerPCs,
       hostVars, dirVars
<1> QED
  BY <1>2, <1>3, <1>4, <1>5, <1>6, <1>7 DEF MainNext

\* The signal handler and the other workers.
LEMMA EnvironmentType == TypeInv /\ EnvironmentNext => TypeInv'
<1> SUFFICES ASSUME TypeInv, EnvironmentNext PROVE TypeInv'
  OBVIOUS
<1> USE DEF TypeInv
<1>1. CASE OtherWorkerRaises
  BY <1>1 DEF OtherWorkerRaises, notMain, TypeOK, NamesKnown, MainPCs,
     workerVars, builderVars
<1>2. CASE Interrupted
  <2>1. PICK o \in KilledOutcomes : StopChildren(o)
    BY <1>2 DEF Interrupted
  <2>2. mpc' \in MainPCs
    BY <1>2 DEF Interrupted, TypeOK, MainPCs
  <2>3. interrupts' \in 0 .. MaxInterrupts
    BY <1>2, PipelineAssumption DEF Interrupted, TypeOK
  <2>4. /\ cancelled' \in BOOLEAN /\ children' \subseteq Boots
        /\ UNCHANGED <<queue, cur, count, mine, job, raised, recorded, boots,
                       guests, held, nextJob, checked, dirVars, snapshot, early>>
    BY <1>2 DEF Interrupted, TypeOK
  <2> QED
    BY <2>1, <2>2, <2>3, <2>4, StopChildrenType DEF TypeOK, NamesKnown,
       WorkerPCs, dirVars
<1> QED
  BY <1>1, <1>2 DEF EnvironmentNext

LEMMA TypeStep == TypeInv /\ [Next]_vars => TypeInv'
<1> SUFFICES ASSUME TypeInv, [Next]_vars PROVE TypeInv'
  OBVIOUS
<1>1. CASE UNCHANGED vars \/ Finished
  BY <1>1 DEF Finished, vars, workerVars, builderVars, hostVars, dirVars,
     mainVars, TypeInv, TypeOK, NamesKnown
<1> QED
  BY <1>1, WorkerType, BuilderType, GuestType, MainType, EnvironmentType DEF Next

\* Type correctness: whatever the threads, the guests and the signals do,
\* the variables of pipelined_loop, Guest, gate-guest-loop and run_all hold
\* values of their kinds; in particular a slot is always s0 or s1, and the
\* rows that are recorded are rows of translations.
THEOREM TypeCorrect == Spec => []TypeOK
<1>1. TypeInv => TypeOK
  BY DEF TypeInv
<1> QED
  BY <1>1, InitType, TypeStep, PTL DEF Spec

-----------------------------------------------------------------------------
(***************************************************************************)
(* Interrupts reach the guests.                                            *)
(***************************************************************************)
\* A running guest is registered in CHILDREN, so the signal handler's
\* stop_children kills it; and none is started once CANCELLED is set.
Reach ==
  /\ \A b \in Boots : Live(b) => b \in children
  /\ InterruptReachesGuests

\* Every step but an interrupt keeps CANCELLED or clears it (the cleanup).
LEMMA ReachStep ==
  ASSUME TypeOK, Reach, [Next]_vars
  PROVE  Reach'
<1> USE DEF Reach, InterruptReachesGuests, TypeOK
<1>1. ASSUME UNCHANGED <<loop, children, cancelled>> PROVE Reach'
  BY <1>1 DEF Live
<1>2. ASSUME guest_for, UNCHANGED cancelled PROVE Reach'
  BY <1>2 DEF guest_for, Boot, Live
<1>3. ASSUME NEW b \in {0} \cup Boots, loop' = [loop EXCEPT ![b] = Gone],
             children' = children \ {b}, UNCHANGED cancelled
      PROVE Reach'
  BY <1>3 DEF Live, Gone, FreshLoop
<1>4. ASSUME NEW o, StopChildren(o), children' \in SUBSET children PROVE Reach'
  BY <1>4 DEF StopChildren, Live, Gone, FreshLoop
<1>5. CASE WorkerNext
  <2>1. CASE BootFirst \/ FinishInGuest
    BY <1>2, <2>1 DEF BootFirst, FinishInGuest, mainVars
  <2>2. CASE Joined
    BY Zenon, <1>3, <2>2 DEF Joined, mainVars
  <2>3. CASE TakeFirst \/ NextObject \/ FinishStep1 \/ PostUpper \/ PostReady
    BY SMTT(40), <1>1, <2>3 DEF TakeFirst, NextObject, FinishStep1, PostUpper,
       PostReady,
       hostVars, mainVars
  <2>4. CASE WaitRc \/ CheckRaises \/ WaitGivesUp
    BY SMTT(40), <1>1, <2>4 DEF WaitRc, CheckRaises, WaitGivesUp, hostVars, mainVars
  <2>5. CASE ClassicStart \/ ClassicEnd \/ ClassicRaises \/ Record \/ Unwind
    BY <1>1, <2>5 DEF ClassicStart, ClassicEnd, ClassicRaises, Record, Unwind,
       hostVars, mainVars
  <2> QED
    BY <1>5, <2>1, <2>2, <2>3, <2>4, <2>5 DEF WorkerNext
<1>6. CASE BuilderNext
  BY SMTT(40), <1>1, <1>6 DEF BuilderNext, PrepareStart, PrepareEnd, hostVars,
     mainVars
<1>7. CASE GuestNext
  <2> SUFFICES ASSUME NEW b \in Boots,
                      \/ GuestTakes(b) \/ GuestRuns(b) \/ GuestReports(b)
                      \/ GuestLeaves(b) \/ GuestDies(b)
               PROVE  Reach'
    BY <1>7 DEF GuestNext
  <2>1. Live(b) /\ UNCHANGED <<children, cancelled>>
    BY Zenon DEF GuestTakes, GuestRuns, GuestReports, GuestLeaves, GuestDies, Live,
       hostVars, mainVars
  <2>2. \A c \in Boots \ {b} : loop'[c] = loop[c]
    BY Zenon DEF GuestTakes, GuestRuns, GuestReports, GuestLeaves, GuestDies
  <2> QED
    BY SMTT(40), <2>1, <2>2 DEF Live
<1>8. CASE MainNext
  <2>1. CASE WorkerReturns \/ SnapshotGuests \/ ClearGuests \/ RequestStop \/ JoinGuest
    BY <1>1, <2>1 DEF WorkerReturns, SnapshotGuests, ClearGuests, RequestStop,
       JoinGuest, notMain
  <2>2. CASE JoinRacesAlive \/ PoolExits
    BY <1>1, <2>2 DEF JoinRacesAlive, PoolExits, notMain
  <2>3. CASE JoinedGuest
    BY Zenon, <1>3, <2>3 DEF JoinedGuest
  <2>4. CASE Cleanup
    BY <1>4, <2>4 DEF Cleanup, hostVars
  <2> QED
    BY <1>8, <2>1, <2>2, <2>3, <2>4 DEF MainNext
<1>9. CASE EnvironmentNext
  <2>1. CASE OtherWorkerRaises
    BY <1>1, <2>1 DEF OtherWorkerRaises, notMain
  <2>2. CASE Interrupted
    BY <1>4, <2>2 DEF Interrupted
  <2> QED
    BY <1>9, <2>1, <2>2 DEF EnvironmentNext
<1>10. CASE Finished \/ UNCHANGED vars
  BY <1>1, <1>10 DEF Finished, vars, hostVars, mainVars
<1> QED
  BY <1>5, <1>6, <1>7, <1>8, <1>9, <1>10 DEF Next

\* However spawn, join and the signal handler interleave, once an interrupt
\* has set CANCELLED no guest of the worker is running and none is booted,
\* until the driver's cleanup clears the event.
THEOREM Interrupts == Spec => []InterruptReachesGuests
<1>1. Init => Reach
  BY DEF Init, Reach, InterruptReachesGuests, Live, NoLoop, FreshLoop
<1>2. TypeOK /\ Reach /\ [Next]_vars => Reach'
  BY ReachStep
<1>3. Reach => InterruptReachesGuests
  BY DEF Reach
<1> QED
  BY <1>1, <1>2, <1>3, TypeCorrect, PTL DEF Spec

-----------------------------------------------------------------------------
(***************************************************************************)
(* How a run ends.                                                         *)
(***************************************************************************)
\* A worker step is a step of a worker that has not ended, and leaves main alone.
LEMMA WorkerGoing == WorkerNext => UNCHANGED mainVars /\ pc # "done"
BY DEF WorkerNext, TakeFirst, BootFirst, NextObject, FinishStep1,
   FinishInGuest, PostUpper, PostReady, WaitRc, CheckRaises, WaitGivesUp,
   Joined, ClassicStart, ClassicEnd, ClassicRaises, Record, Unwind

\* The exception of a first interrupt leaves the pool's exit to wait for the
\* worker; a second one, or a first after another worker's, does not.
Orderly == interrupts = 0 \/ (interrupts = 1 /\ ~early)

ExitInv ==
  /\ (mpc \notin {"results", "cleanup", "returned"} /\ interrupts = 0 /\ ~early)
       => pc = "done"
  /\ (mpc = "cleanup" /\ Orderly) => pc = "done"
  /\ CleanExit

LEMMA ExitStep ==
  ASSUME TypeInv, Reach, ExitInv, [Next]_vars
  PROVE  ExitInv'
<1>0. mpc \in MainPCs /\ interrupts \in Nat
  BY PipelineAssumption DEF TypeInv, TypeOK
<1>1. ASSUME UNCHANGED <<mpc, interrupts, early>>,
             pc = "done" => pc' = "done" /\ \A b \in Boots : Live(b)' => Live(b)
      PROVE  ExitInv'
  BY <1>1 DEF ExitInv, CleanExit, Orderly
<1>2. CASE WorkerNext
  <2>1. UNCHANGED <<mpc, interrupts, early>> /\ pc # "done"
    BY <1>2, WorkerGoing DEF mainVars
  <2> QED
    BY <1>1, <2>1
<1>3. CASE BuilderNext
  <2>1. UNCHANGED <<mpc, interrupts, early, pc, loop>>
    BY <1>3 DEF BuilderNext, PrepareStart, PrepareEnd, workerVars, mainVars
  <2> QED
    BY <1>1, <2>1 DEF Live
<1>4. CASE GuestNext
  <2> SUFFICES ASSUME NEW b \in Boots,
                      \/ GuestTakes(b) \/ GuestRuns(b) \/ GuestReports(b)
                      \/ GuestLeaves(b) \/ GuestDies(b)
               PROVE  ExitInv'
    BY <1>4 DEF GuestNext
  <2>1. Live(b) /\ UNCHANGED <<mpc, interrupts, early, pc>>
    BY Zenon DEF GuestTakes, GuestRuns, GuestReports, GuestLeaves, GuestDies, Live,
       workerVars, mainVars
  <2> QED
    BY <2>1 DEF ExitInv, CleanExit, Orderly
<1>5. CASE MainNext
  <2>1. CASE WorkerReturns \/ SnapshotGuests \/ ClearGuests \/ RequestStop \/ JoinGuest \/ PoolExits
    <3>1. UNCHANGED <<pc, interrupts, early>> /\ mpc' # "returned"
      BY <2>1 DEF WorkerReturns, SnapshotGuests, ClearGuests, RequestStop, JoinGuest,
         JoinTakesProc, PoolExits, notMain, workerVars
    <3>2. mpc = "results" \/ mpc' = "cleanup" => pc = "done"
      BY <2>1 DEF WorkerReturns, SnapshotGuests, ClearGuests, RequestStop, JoinGuest,
         JoinTakesProc, PoolExits
    <3>3. mpc \notin {"cleanup", "returned"}
      BY <2>1 DEF WorkerReturns, SnapshotGuests, ClearGuests, RequestStop, JoinGuest, PoolExits
    <3> QED
      BY <3>1, <3>2, <3>3 DEF ExitInv, CleanExit, Orderly
  <2>2. CASE JoinRacesAlive
    <3>1. /\ mpc = "join" /\ pc = "wait" /\ UNCHANGED <<interrupts, early>>
          /\ mpc' \in {"joinwait", "pool"}
      BY <2>2 DEF JoinRacesAlive, JoinTakesProc
    <3> QED
      BY <3>1 DEF ExitInv, CleanExit, Orderly
  <2>3. CASE JoinedGuest
    <3>1. mpc = "joinwait" /\ mpc' = "pool" /\ UNCHANGED <<pc, interrupts, early>>
      BY <2>3 DEF JoinedGuest, workerVars
    <3> QED
      BY <3>1 DEF ExitInv, CleanExit, Orderly
  <2>4. CASE Cleanup
    <3>1. PICK o \in KilledOutcomes : StopChildren(o)
      BY <2>4 DEF Cleanup
    <3>2. mpc = "cleanup" /\ mpc' = "returned" /\ UNCHANGED <<interrupts, early>>
      BY <2>4 DEF Cleanup
    <3>3. pc = "done" => pc' = "done"
      BY <3>1, StopChildrenType
    <3>4. \A b \in Boots : ~Live(b)'
      <4> TAKE b \in Boots
      <4>1. loop'[b] = IF b \in children THEN Gone ELSE loop[b]
        BY <3>1 DEF StopChildren
      <4>2. Gone.pc = "gone"
        BY DEF Gone, FreshLoop
      <4> QED
        BY <4>1, <4>2 DEF Live, Reach
    <3> QED
      BY <3>2, <3>3, <3>4 DEF ExitInv, CleanExit, Orderly
  <2> QED
    BY <1>5, <2>1, <2>2, <2>3, <2>4 DEF MainNext
<1>6. CASE OtherWorkerRaises
  <2>1. /\ mpc = "results" /\ mpc' = "snapshot" /\ early'
    BY <1>6 DEF OtherWorkerRaises
  <2> QED
    BY <2>1 DEF ExitInv, CleanExit, Orderly
<1>7. CASE Interrupted
  <2>1. PICK o \in KilledOutcomes : StopChildren(o)
    BY <1>7 DEF Interrupted
  <2>2. /\ interrupts' = interrupts + 1 /\ early' = early /\ mpc # "returned"
        /\ mpc' # "returned" /\ (mpc' = "cleanup" => mpc \in {"pool", "cleanup"})
    BY <1>0, <1>7 DEF Interrupted, MainPCs
  <2>3. pc = "done" => pc' = "done"
    BY <2>1, StopChildrenType
  <2>4. (mpc' = "cleanup" /\ Orderly') => pc = "done"
    BY <1>0, <2>2 DEF ExitInv, Orderly
  <2> QED
    BY <1>0, <2>2, <2>3, <2>4 DEF ExitInv, CleanExit
<1>8. CASE Finished \/ UNCHANGED vars
  <2>1. UNCHANGED <<mpc, interrupts, early, pc, loop>>
    BY <1>8 DEF Finished, vars, workerVars, mainVars
  <2> QED
    BY <1>1, <2>1 DEF Live
<1> QED
  BY <1>2, <1>3, <1>4, <1>5, <1>6, <1>7, <1>8 DEF Next, EnvironmentNext

\* main() returns with its worker ended and no guest running: always when
\* nobody interrupts it, and also after one interrupt when no other worker
\* had raised.  Reach is what makes the cleanup find every guest.
THEOREM ExitIsClean == Spec => []CleanExit
<1>1. Init => ExitInv
  BY DEF Init, ExitInv, CleanExit, Orderly
<1>2. Init => Reach
  BY DEF Init, Reach, InterruptReachesGuests, Live, NoLoop, FreshLoop
<1>3. TypeInv /\ Reach /\ ExitInv /\ [Next]_vars => Reach' /\ ExitInv'
  BY ReachStep, ExitStep DEF TypeInv
<1>4. ExitInv => CleanExit
  BY DEF ExitInv
<1> QED
  BY <1>1, <1>2, <1>3, <1>4, InitType, TypeStep, PTL DEF Spec

-----------------------------------------------------------------------------
(***************************************************************************)
(* The pipeline implements the contract of a worker.                       *)
(***************************************************************************)
\* The builder is idle before the first object and after the last, and only
\* an interrupt cancels the gate.
HandInv ==
  /\ pc \in {"take", "boot"} => bpc = "idle"
  /\ pc = "await" => bpc # "idle"
  /\ (pc \notin {"take", "boot", "unwind", "done"} /\ bpc = "idle") => queue = <<>>
  /\ cancelled => interrupts > 0

\* The worker is finishing an object that next_object handed it.
Finishing == WorkerPCs \ {"take", "boot", "await", "unwind", "done"}

\* What each party does to the worker's hand.
LEMMA WorkerFinishes ==
  ASSUME TypeInv, WorkerNext,
         ~(TakeFirst \/ BootFirst \/ NextObject \/ Record \/ Unwind)
  PROVE  /\ UNCHANGED <<queue, cur, recorded, bpc, pending>>
         /\ pc \in Finishing
         /\ \/ pc' \in Finishing /\ UNCHANGED raised
            \/ pc' = "unwind" /\ raised'
<1>1. UNCHANGED <<queue, cur, recorded, bpc, pending>>
  BY DEF WorkerNext, FinishStep1, FinishInGuest, PostUpper, PostReady, WaitRc,
     CheckRaises, WaitGivesUp, Joined, ClassicStart, ClassicEnd, ClassicRaises,
     builderVars
<1>2. /\ pc \in Finishing
      /\ \/ pc' \in Finishing /\ UNCHANGED raised
         \/ pc' = "unwind" /\ raised'
  BY DEF WorkerNext, FinishStep1, FinishInGuest, PostUpper, PostReady, WaitRc,
     CheckRaises, WaitGivesUp, StopMine, Joined, ClassicStart, ClassicEnd, Judge,
     ClassicRaises, Finishing, WorkerPCs
<1> QED
  BY <1>1, <1>2

\* Everybody else leaves the worker's hand alone, except that a join may fall
\* into its alive().
LEMMA OthersLeaveHand ==
  ASSUME TypeInv, BuilderNext \/ GuestNext \/ MainNext \/ EnvironmentNext \/ Finished
                  \/ UNCHANGED vars
  PROVE  /\ UNCHANGED <<queue, cur, recorded>>
         /\ pending'.name = pending.name /\ (bpc = "idle" <=> bpc' = "idle")
         /\ \/ UNCHANGED <<pc, raised, interrupts>>
            \/ /\ pc = "wait" /\ pc' = "unwind" /\ raised' /\ UNCHANGED interrupts
            \/ /\ UNCHANGED raised
               /\ pc' = pc \/ (pc \in Finishing /\ pc' \in Finishing)
               /\ interrupts' \in {interrupts, interrupts + 1}
         /\ cancelled' => cancelled \/ interrupts' = interrupts + 1
<1>1. CASE BuilderNext
  <2>1. /\ UNCHANGED <<queue, cur, recorded, pc, raised, interrupts, cancelled>>
        /\ bpc # "idle" /\ bpc' # "idle"
    BY <1>1 DEF BuilderNext, PrepareStart, PrepareEnd, workerVars, mainVars
  <2>2. pending'.name = pending.name
    BY Zenon, <1>1 DEF BuilderNext, PrepareStart, PrepareEnd, TypeInv, TypeOK, Prepared
  <2> QED
    BY <2>1, <2>2
<1>2. ASSUME UNCHANGED <<workerVars, builderVars, cancelled, interrupts>>
      PROVE  /\ UNCHANGED <<queue, cur, recorded, pc, raised, interrupts, cancelled>>
             /\ UNCHANGED <<bpc, pending>>
  BY <1>2 DEF workerVars, builderVars
<1>3. CASE GuestNext
  <2>1. UNCHANGED <<workerVars, builderVars, cancelled, interrupts>>
    BY <1>3 DEF GuestNext, GuestTakes, GuestRuns, GuestReports, GuestLeaves, GuestDies,
       mainVars
  <2> QED
    BY <1>2, <2>1
<1>4. ASSUME NEW o \in KilledOutcomes, StopChildren(o)
      PROVE  /\ pending'.name = pending.name /\ (bpc = "idle" <=> bpc' = "idle")
             /\ pc' = pc \/ (pc \in Finishing /\ pc' \in Finishing)
  BY <1>4, StopChildrenType DEF Finishing, WorkerPCs
<1>5. CASE MainNext
  <2>1. CASE Cleanup
    <3>1. /\ UNCHANGED <<queue, cur, recorded, raised, interrupts>> /\ cancelled' = FALSE
          /\ \E o \in KilledOutcomes : StopChildren(o)
      BY <2>1 DEF Cleanup
    <3> QED
      BY <1>4, <3>1
  <2>2. CASE JoinRacesAlive
    BY <2>2 DEF JoinRacesAlive, builderVars
  <2>3. CASE ~(Cleanup \/ JoinRacesAlive)
    <3>1. UNCHANGED <<workerVars, builderVars, cancelled, interrupts>>
      BY <1>5, <2>3 DEF MainNext, WorkerReturns, SnapshotGuests, ClearGuests,
         RequestStop, JoinGuest, JoinedGuest, PoolExits, notMain
    <3> QED
      BY <1>2, <3>1
  <2> QED
    BY <2>1, <2>2, <2>3
<1>6. CASE EnvironmentNext
  <2>1. CASE OtherWorkerRaises
    BY <1>2, <2>1 DEF OtherWorkerRaises, notMain
  <2>2. CASE Interrupted
    <3>1. /\ UNCHANGED <<queue, cur, recorded, raised>> /\ interrupts' = interrupts + 1
          /\ \E o \in KilledOutcomes : StopChildren(o)
      BY <2>2 DEF Interrupted
    <3> QED
      BY <1>4, <3>1
  <2> QED
    BY <1>6, <2>1, <2>2 DEF EnvironmentNext
<1>7. CASE Finished \/ UNCHANGED vars
  BY <1>2, <1>7 DEF Finished, vars, mainVars
<1> QED
  BY <1>1, <1>3, <1>5, <1>6, <1>7

LEMMA HandStep ==
  ASSUME TypeInv, HandInv, [Next]_vars
  PROVE  HandInv'
<1>1. interrupts \in Nat
  BY PipelineAssumption DEF TypeInv, TypeOK
<1>2. CASE WorkerNext
  <2>1. UNCHANGED <<cancelled, interrupts>>
    BY <1>2, WorkerGoing DEF mainVars
  <2>2. CASE TakeFirst
    BY <2>1, <2>2 DEF TakeFirst, builderVars, HandInv
  <2>3. CASE BootFirst
    BY <2>1, <2>3 DEF BootFirst, Submit, HandInv
  <2>4. CASE NextObject
    BY <2>1, <2>4 DEF NextObject, Submit, HandInv
  <2>5. CASE Record \/ Unwind
    BY <2>1, <2>5 DEF Record, Unwind, builderVars, HandInv
  <2>6. CASE ~(TakeFirst \/ BootFirst \/ NextObject \/ Record \/ Unwind)
    <3>1. /\ UNCHANGED <<queue, bpc>> /\ pc \in Finishing /\ pc' \in Finishing \cup {"unwind"}
      BY <1>2, <2>6, WorkerFinishes
    <3> QED
      BY <2>1, <3>1 DEF HandInv, Finishing, WorkerPCs
  <2> QED
    BY <2>2, <2>3, <2>4, <2>5, <2>6
<1>3. CASE BuilderNext \/ GuestNext \/ MainNext \/ EnvironmentNext \/ Finished
           \/ UNCHANGED vars
  <2>1. /\ queue' = queue /\ (bpc = "idle" <=> bpc' = "idle")
        /\ interrupts' \in {interrupts, interrupts + 1}
        /\ cancelled' => cancelled \/ interrupts' = interrupts + 1
        /\ \/ pc' = pc \/ (pc \in Finishing /\ pc' \in Finishing \cup {"unwind"})
    BY <1>3, OthersLeaveHand DEF Finishing, WorkerPCs
  <2> QED
    BY <1>1, <2>1 DEF HandInv, Finishing, WorkerPCs
<1> QED
  BY <1>2, <1>3 DEF Next

\* The worker's hand, by where its thread is.
LEMMA HandIs ==
  /\ pc \in {"take", "unwind", "done"} => hand = <<>>
  /\ pc = "await" => hand = <<pending.name>>
  /\ (pc \in Finishing \cup {"boot"} /\ bpc = "idle") => hand = <<cur.name>>
  /\ (pc \in Finishing \cup {"boot"} /\ bpc # "idle") => hand = <<cur.name, pending.name>>
BY DEF hand, Finishing, WorkerPCs

LEMMA HandIsNext ==
  /\ pc' \in {"take", "unwind", "done"} => hand' = <<>>
  /\ pc' = "await" => hand' = <<pending'.name>>
  /\ (pc' \in Finishing \cup {"boot"} /\ bpc' = "idle") => hand' = <<cur'.name>>
  /\ (pc' \in Finishing \cup {"boot"} /\ bpc' # "idle") => hand' = <<cur'.name, pending'.name>>
BY DEF hand, Finishing, WorkerPCs

\* A worker that is neither disturbed nor has taken or recorded anything.
LEMMA HandSame ==
  ASSUME UNCHANGED <<queue, hand, recorded, raised, interrupts>>,
         pc \in {"unwind", "done"} <=> pc' \in {"unwind", "done"}
  PROVE  UNCHANGED Contract!vars
BY DEF Contract!vars

\* The steps of the worker's own thread.
LEMMA WorkerKeepsContract ==
  ASSUME TypeInv, HandInv, WorkerNext
  PROVE  Contract!Next \/ UNCHANGED Contract!vars
<1>1. /\ queue \in Seq(Names) /\ raised \in BOOLEAN /\ interrupts \in Nat
      /\ pc \in WorkerPCs /\ bpc \in BuilderPCs /\ cur \in Prepared
  BY PipelineAssumption DEF TypeInv, TypeOK
<1>2. interrupts' = interrupts
  BY WorkerGoing DEF mainVars
<1>3. CASE TakeFirst
  <2>1. pc = "take" /\ hand = <<>> /\ UNCHANGED <<raised, recorded>>
    BY <1>3, HandIs DEF TakeFirst
  <2>2. CASE queue = <<>>
    <3>1. pc' = "unwind" /\ hand' = <<>> /\ queue' = queue
      BY <1>3, <2>2, HandIsNext DEF TakeFirst
    <3> QED
      BY <1>2, <2>1, <2>2, <3>1 DEF Contract!Next, Contract!Stop
  <2>3. CASE queue # <<>>
    <3>1. pc' = "boot" /\ queue' = Tail(queue) /\ cur'.name = Head(queue) /\ bpc' = "idle"
      BY <1>1, <1>3, <2>3 DEF TakeFirst, Prepared, builderVars, HandInv
    <3>2. hand' = <<Head(queue)>>
      BY <3>1, HandIsNext
    <3>3. hand' = Append(hand, Head(queue)) /\ Len(hand) < SLOTS
      BY <2>1, <3>2 DEF SLOTS
    <3> QED
      BY <1>2, <2>1, <2>3, <3>1, <3>3 DEF Contract!Next, Contract!Take
  <2> QED
    BY <2>2, <2>3
<1>4. CASE BootFirst
  <2>1. /\ pc = "boot" /\ pc' = "await" /\ bpc = "idle" /\ UNCHANGED <<queue, raised, recorded>>
        /\ pending'.name = cur.name
    BY <1>4 DEF BootFirst, Submit, HandInv
  <2>2. hand = <<cur.name>> /\ hand' = <<cur.name>>
    BY <2>1, HandIs, HandIsNext
  <2> QED
    BY <1>2, <2>1, <2>2, HandSame
<1>5. CASE NextObject
  <2>1. /\ pc = "await" /\ hand = <<pending.name>> /\ UNCHANGED <<raised, recorded>>
        /\ "finish" \in Finishing
    BY <1>5, HandIs DEF NextObject, Finishing, WorkerPCs
  <2>2. CASE cancelled
    <3>1. pc' = "unwind" /\ queue' = queue /\ hand' = <<>> /\ interrupts > 0
      BY <1>5, <2>2, HandIsNext DEF NextObject, HandInv
    <3> QED
      BY <1>2, <2>1, <3>1 DEF Contract!Next, Contract!GiveUp
  <2>3. CASE ~cancelled /\ queue = <<>>
    <3>1. pc' = "finish" /\ bpc' = "idle" /\ queue' = queue /\ cur' = pending
      BY <1>5, <2>3 DEF NextObject
    <3>2. hand' = hand
      BY <2>1, <3>1, HandIsNext
    <3> QED
      BY <1>2, <2>1, <3>1, <3>2, HandSame
  <2>4. CASE ~cancelled /\ queue # <<>>
    <3>1. /\ pc' = "finish" /\ bpc' = "submitted" /\ queue' = Tail(queue) /\ cur' = pending
          /\ pending'.name = Head(queue)
      BY <1>5, <2>4 DEF NextObject, Submit
    <3>2. hand' = <<pending.name, Head(queue)>>
      BY <2>1, <3>1, HandIsNext
    <3>3. hand' = Append(hand, Head(queue)) /\ Len(hand) < SLOTS
      BY <2>1, <3>2 DEF SLOTS
    <3> QED
      BY <1>2, <2>1, <2>4, <3>1, <3>3 DEF Contract!Next, Contract!Take
  <2> QED
    BY <2>2, <2>3, <2>4
<1>6. CASE Record
  <2>1. /\ pc = "record" /\ "record" \in Finishing /\ UNCHANGED <<queue, raised, bpc, pending>>
        /\ recorded' = recorded \cup {cur.name}
        /\ pc' = IF bpc = "idle" THEN "unwind" ELSE "await"
    BY <1>6 DEF Record, builderVars, Finishing, WorkerPCs
  <2>2. CASE bpc = "idle"
    <3>1. hand = <<cur.name>> /\ hand' = <<>> /\ queue = <<>> /\ pc' = "unwind"
      BY <2>1, <2>2, HandIs, HandIsNext DEF HandInv
    <3>2. hand # <<>> /\ Head(hand) = cur.name /\ Tail(hand) = <<>>
      BY <3>1
    <3> QED
      BY <1>2, <2>1, <3>1, <3>2 DEF Contract!Next, Contract!Record
  <2>3. CASE bpc # "idle"
    <3>1. hand = <<cur.name, pending.name>> /\ hand' = <<pending.name>> /\ pc' = "await"
      BY <2>1, <2>3, HandIs, HandIsNext
    <3>2. hand # <<>> /\ Head(hand) = cur.name /\ Tail(hand) = <<pending.name>>
      BY <3>1
    <3> QED
      BY <1>2, <2>1, <3>1, <3>2 DEF Contract!Next, Contract!Record
  <2> QED
    BY <2>2, <2>3
<1>7. CASE Unwind
  <2>1. pc = "unwind" /\ pc' = "done" /\ UNCHANGED <<queue, raised, recorded>>
    BY <1>7 DEF Unwind
  <2>2. hand' = hand
    BY <2>1, HandIs, HandIsNext
  <2> QED
    BY <1>2, <2>1, <2>2, HandSame
<1>8. CASE ~(TakeFirst \/ BootFirst \/ NextObject \/ Record \/ Unwind)
  <2>1. /\ UNCHANGED <<queue, cur, recorded, bpc, pending>> /\ pc \in Finishing
        /\ \/ pc' \in Finishing /\ UNCHANGED raised
           \/ pc' = "unwind" /\ raised'
    BY <1>8, WorkerFinishes
  <2>2. CASE pc' \in Finishing /\ UNCHANGED raised
    <3>1. hand' = hand
      BY <2>1, <2>2, HandIs, HandIsNext
    <3> QED
      BY <1>2, <2>1, <2>2, <3>1, HandSame DEF Finishing
  <2>3. CASE pc' = "unwind" /\ raised'
    <3>1. hand' = <<>>
      BY <2>3, HandIsNext
    <3> QED
      BY <2>1, <2>3, <3>1 DEF Contract!Next, Contract!GiveUp, Finishing
  <2> QED
    BY <2>1, <2>2, <2>3
<1> QED
  BY <1>3, <1>4, <1>5, <1>6, <1>7, <1>8

\* And everybody else's: an interrupt disturbs the worker, a join that falls
\* into its alive() makes it give up.
LEMMA ContractStep ==
  ASSUME TypeInv, HandInv, [Next]_vars
  PROVE  [Contract!Next]_(Contract!vars)
<1>1. raised \in BOOLEAN /\ interrupts \in Nat /\ pc \in WorkerPCs
  BY PipelineAssumption DEF TypeInv, TypeOK
<1>2. CASE BuilderNext \/ GuestNext \/ MainNext \/ EnvironmentNext \/ Finished
           \/ UNCHANGED vars
  <2>1. /\ UNCHANGED <<queue, cur, recorded>>
        /\ pending'.name = pending.name /\ (bpc = "idle" <=> bpc' = "idle")
        /\ \/ UNCHANGED <<pc, raised, interrupts>>
           \/ /\ pc = "wait" /\ pc' = "unwind" /\ raised' /\ UNCHANGED interrupts
           \/ /\ UNCHANGED raised
              /\ pc' = pc \/ (pc \in Finishing /\ pc' \in Finishing)
              /\ interrupts' \in {interrupts, interrupts + 1}
    BY <1>2, OthersLeaveHand
  <2>2. CASE pc' = pc \/ (pc \in Finishing /\ pc' \in Finishing)
    <3>1. hand' = hand
      BY <1>1, <2>1, <2>2, HandIs, HandIsNext DEF Finishing, WorkerPCs
    <3>2. pc \in {"unwind", "done"} <=> pc' \in {"unwind", "done"}
      BY <2>2 DEF Finishing
    <3>3. UNCHANGED raised /\ interrupts' \in {interrupts, interrupts + 1}
      BY <2>1, <2>2 DEF Finishing
    <3>4. CASE interrupts' = interrupts
      BY <2>1, <3>1, <3>2, <3>3, <3>4, HandSame
    <3>5. CASE interrupts' = interrupts + 1
      BY <1>1, <2>1, <3>1, <3>2, <3>5 DEF Contract!Next, Contract!Disturb
    <3> QED
      BY <3>3, <3>4, <3>5
  <2>3. CASE pc = "wait" /\ pc' = "unwind" /\ raised'
    <3>1. hand' = <<>>
      BY <2>3, HandIsNext
    <3> QED
      BY <2>1, <2>3, <3>1 DEF Contract!Next, Contract!GiveUp
  <2> QED
    BY <2>1, <2>2, <2>3
<1> QED
  BY <1>2, WorkerKeepsContract DEF Next

\* The pipelined loop, with its builder, its guests and main around it, does
\* nothing the contract of a worker does not allow, for every queue, any
\* number of interrupts and whether or not other workers raise.
THEOREM PipelineImplementsContract == Spec => ImplementsContract
<1>1. Init => HandInv /\ Contract!Init
  BY DEF Init, HandInv, Contract!Init, hand
<1>2. TypeInv /\ HandInv /\ [Next]_vars => HandInv'
  BY HandStep
<1>3. TypeInv /\ HandInv /\ [Next]_vars => [Contract!Next]_(Contract!vars)
  BY ContractStep
<1> QED
  BY <1>1, <1>2, <1>3, InitType, TypeStep, PTL
     DEF Spec, ImplementsContract, Contract!Spec

-----------------------------------------------------------------------------
(***************************************************************************)
(* What the contract says of the rows.  The argument is the contract's: it *)
(* looks at the queue, the hand and the rows only.                         *)
(***************************************************************************)
\* How many names the worker is done with while it is going.
Passed == Len(Queue) - Len(queue) - Len(hand)
FirstNames(k) == {Queue[i] : i \in 1 .. k}

Going == pc \notin {"unwind", "done"}
Disturbed == raised \/ interrupts > 0

\* The rows, the hand and the queue are the names in order.
InOrder ==
  /\ Len(queue) + Len(hand) <= Len(Queue)
  /\ \A j \in 1 .. Len(queue) : queue[j] = Queue[Len(Queue) - Len(queue) + j]
  /\ Going => /\ \A j \in 1 .. Len(hand) : hand[j] = Queue[Passed + j]
              /\ recorded = FirstNames(Passed)
  /\ ~Going => /\ \E k \in 0 .. Len(Queue) : recorded = FirstNames(k)
               /\ ~Disturbed => recorded = FirstNames(Len(Queue))

LEMMA HandType == TypeInv => hand \in Seq(Names \cup {NoName})
<1> SUFFICES ASSUME TypeInv PROVE hand \in Seq(Names \cup {NoName})
  OBVIOUS
<1>1. /\ cur.name \in Names \cup {NoName} /\ pending.name \in Names \cup {NoName}
      /\ pc \in WorkerPCs
  BY DEF TypeInv, TypeOK, Prepared
<1>2. \/ hand = <<>> \/ hand = <<cur.name>> \/ hand = <<pending.name>>
      \/ hand = <<cur.name, pending.name>>
  BY <1>1, HandIs DEF Finishing, WorkerPCs
<1> DEFINE N == Names \cup {NoName}
<1>3. \A x, y \in N : <<>> \in Seq(N) /\ <<x>> \in Seq(N) /\ <<x, y>> \in Seq(N)
  OBVIOUS
<1> QED
  BY <1>1, <1>2, <1>3

LEMMA OneMoreName ==
  ASSUME NEW k \in Nat
  PROVE  FirstNames(k + 1) = FirstNames(k) \cup {Queue[k + 1]}
<1>1. 1 .. k + 1 = (1 .. k) \cup {k + 1}
  OBVIOUS
<1> QED
  BY <1>1 DEF FirstNames

LEMMA InOrderStep ==
  ASSUME TypeInv, TypeInv', InOrder, [Contract!Next]_(Contract!vars)
  PROVE  InOrder'
<1>1. /\ queue \in Seq(Names) /\ Len(queue) \in Nat /\ Len(Queue) \in Nat
      /\ hand \in Seq(Names \cup {NoName}) /\ Len(hand) \in Nat
      /\ Passed \in Nat
  BY HandType, PipelineAssumption DEF TypeInv, TypeOK, InOrder, Passed
<1>2. CASE Contract!Take
  <2>1. /\ Going /\ Going' /\ queue # <<>> /\ hand' = Append(hand, Head(queue))
        /\ queue' = Tail(queue) /\ recorded' = recorded
    BY <1>2 DEF Contract!Take, Going
  <2>2. /\ Len(queue') = Len(queue) - 1 /\ Len(hand') = Len(hand) + 1
        /\ Head(queue) = queue[1] /\ Len(queue) >= 1
        /\ \A j \in 1 .. Len(queue') : queue'[j] = queue[j + 1]
        /\ \A j \in 1 .. Len(hand) : hand'[j] = hand[j]
        /\ hand'[Len(hand) + 1] = queue[1]
    BY <1>1, <2>1
  <2>3. Passed' = Passed
    BY <1>1, <2>2 DEF Passed
  <2>4. \A j \in 1 .. Len(queue') : queue'[j] = Queue[Len(Queue) - Len(queue') + j]
    <3> TAKE j \in 1 .. Len(queue')
    <3>1. j + 1 \in 1 .. Len(queue)
          /\ Len(Queue) - Len(queue') + j = Len(Queue) - Len(queue) + (j + 1)
      BY <1>1, <2>2
    <3> QED
      BY <2>2, <3>1 DEF InOrder
  <2>5. \A j \in 1 .. Len(hand') : hand'[j] = Queue[Passed' + j]
    <3> TAKE j \in 1 .. Len(hand')
    <3>1. CASE j \in 1 .. Len(hand)
      BY <2>1, <2>2, <2>3, <3>1 DEF InOrder
    <3>2. CASE j = Len(hand) + 1
      <4>1. Passed + j = Len(Queue) - Len(queue) + 1 /\ 1 \in 1 .. Len(queue)
        BY <1>1, <2>2, <3>2 DEF Passed
      <4> QED
        BY <2>2, <2>3, <3>2, <4>1 DEF InOrder
    <3> QED
      BY <1>1, <2>2, <3>1, <3>2
  <2>6. Len(queue') + Len(hand') <= Len(Queue)
    BY <1>1, <2>2 DEF InOrder
  <2> QED
    BY <2>1, <2>3, <2>4, <2>5, <2>6 DEF InOrder, FirstNames
<1>3. CASE Contract!Record
  <2>1. /\ Going /\ hand # <<>> /\ hand' = Tail(hand) /\ queue' = queue
        /\ recorded' = recorded \cup {Head(hand)}
        /\ ~Going' => queue = <<>> /\ hand' = <<>>
    BY <1>3 DEF Contract!Record, Going
  <2>2. /\ Len(hand') = Len(hand) - 1 /\ Len(hand) >= 1 /\ Head(hand) = hand[1]
        /\ \A j \in 1 .. Len(hand') : hand'[j] = hand[j + 1]
    BY <1>1, <2>1
  <2>3. Passed' = Passed + 1 /\ Passed + 1 <= Len(Queue)
    BY <1>1, <2>1, <2>2 DEF Passed
  <2>4. recorded' = FirstNames(Passed + 1)
    <3>1. Head(hand) = Queue[Passed + 1] /\ recorded = FirstNames(Passed)
      BY <1>1, <2>1, <2>2 DEF InOrder
    <3> QED
      BY <1>1, <2>1, <3>1, OneMoreName
  <2>5. \A j \in 1 .. Len(hand') : hand'[j] = Queue[Passed' + j]
    <3> TAKE j \in 1 .. Len(hand')
    <3>1. j + 1 \in 1 .. Len(hand) /\ Passed' + j = Passed + (j + 1)
      BY <1>1, <2>2, <2>3
    <3> QED
      BY <2>1, <2>2, <3>1 DEF InOrder
  <2>6. Len(queue') + Len(hand') <= Len(Queue)
    BY <1>1, <2>1, <2>2 DEF InOrder
  <2>7. ~Going' => Passed + 1 = Len(Queue)
    <3> SUFFICES ASSUME ~Going' PROVE Passed' = Len(Queue)
      BY <2>3
    <3>1. Len(queue') = 0 /\ Len(hand') = 0
      BY <2>1
    <3> QED
      BY <1>1, <3>1 DEF Passed
  <2>8. recorded' = FirstNames(Passed')
    BY <2>3, <2>4
  <2>9. (\A j \in 1 .. Len(queue) : queue[j] = Queue[Len(Queue) - Len(queue) + j])'
    BY <2>1 DEF InOrder
  <2>10. ~Going' => recorded' = FirstNames(Len(Queue)) /\ Len(Queue) \in 0 .. Len(Queue)
    BY <1>1, <2>4, <2>7
  <2> QED
    BY <2>5, <2>6, <2>8, <2>9, <2>10 DEF InOrder, FirstNames
<1>4. CASE Contract!Stop
  <2>1. /\ Going /\ ~Going' /\ queue = <<>> /\ hand = <<>>
        /\ UNCHANGED <<queue, hand, recorded>>
    BY <1>4 DEF Contract!Stop, Going
  <2>2. Passed = Len(Queue)
    BY <1>1, <2>1 DEF Passed
  <2>3. recorded' = FirstNames(Len(Queue)) /\ Len(Queue) \in 0 .. Len(Queue)
    BY <1>1, <2>1, <2>2 DEF InOrder
  <2> QED
    BY <2>1, <2>3 DEF InOrder, FirstNames
<1>5. CASE Contract!Disturb
  <2>1. UNCHANGED <<queue, hand, recorded, Going>> /\ Disturbed'
    BY <1>5 DEF Contract!Disturb, Going, Disturbed
  <2>2. Passed' = Passed
    BY <2>1 DEF Passed
  <2> QED
    BY <2>1, <2>2 DEF InOrder, FirstNames
<1>6. CASE Contract!GiveUp
  <2>1. Going /\ ~Going' /\ Disturbed' /\ hand' = <<>> /\ UNCHANGED <<queue, recorded>>
    BY <1>6 DEF Contract!GiveUp, Going, Disturbed
  <2>2. Passed \in 0 .. Len(Queue) /\ Len(hand') = 0
    BY <1>1, <2>1 DEF Passed
  <2>3. Len(queue') + Len(hand') <= Len(Queue)
    BY <1>1, <2>1, <2>2 DEF InOrder
  <2> QED
    BY <2>1, <2>2, <2>3 DEF InOrder, FirstNames
<1>7. CASE UNCHANGED Contract!vars
  <2>1. UNCHANGED <<queue, hand, recorded, Going>> /\ (Disturbed <=> Disturbed')
    BY <1>7 DEF Contract!vars, Going, Disturbed
  <2>2. Passed' = Passed
    BY <2>1 DEF Passed
  <2> QED
    BY <2>1, <2>2 DEF InOrder, FirstNames
<1> QED
  BY <1>2, <1>3, <1>4, <1>5, <1>6, <1>7 DEF Contract!Next

\* What a worker has recorded is at any moment the rows of the first names of
\* its queue, and all of them when it stopped undisturbed and main() returned:
\* the two slots, the guest that is shared and the guest that is stopped under
\* the worker drop no object and pass none over, not even the last prepared.
THEOREM RowsFollowQueue == Spec => []RowsInOrder /\ []EveryNameRecorded
<1>1. Init => ExitInv /\ Reach /\ HandInv /\ InOrder
  <2> SUFFICES ASSUME Init PROVE ExitInv /\ Reach /\ HandInv /\ InOrder
    OBVIOUS
  <2>1. ExitInv
    BY DEF Init, ExitInv, CleanExit, Orderly
  <2>2. Reach
    BY DEF Init, Reach, InterruptReachesGuests, Live, NoLoop, FreshLoop
  <2>3. HandInv
    BY DEF Init, HandInv
  <2>4. hand = <<>> /\ Going /\ queue = Queue /\ recorded = {} /\ Len(Queue) \in Nat
    BY PipelineAssumption DEF Init, hand, Going
  <2>5. Passed = 0 /\ Len(hand) = 0
    <3>1. Len(hand) = 0
      BY <2>4
    <3>2. Len(queue) = Len(Queue) /\ Len(Queue) \in Nat
      BY <2>4
    <3> QED
      BY <3>1, <3>2 DEF Passed
  <2>6. recorded = FirstNames(Passed)
    BY <2>4, <2>5 DEF FirstNames
  <2>7. InOrder
    BY <2>4, <2>5, <2>6 DEF InOrder
  <2> QED
    BY <2>1, <2>2, <2>3, <2>7
<1>2. TypeInv /\ TypeInv' /\ Reach /\ ExitInv /\ HandInv /\ InOrder /\ [Next]_vars
        => Reach' /\ ExitInv' /\ HandInv' /\ InOrder'
  BY ReachStep, ExitStep, HandStep, ContractStep, InOrderStep DEF TypeInv
<1>3. TypeInv /\ InOrder => RowsInOrder
  <2> SUFFICES ASSUME TypeInv, InOrder PROVE RowsInOrder
    OBVIOUS
  <2>1. Passed \in 0 .. Len(Queue)
    BY HandType, PipelineAssumption DEF TypeInv, TypeOK, InOrder, Passed
  <2> QED
    BY <2>1 DEF InOrder, FirstNames, RowsInOrder
<1>4. ExitInv /\ InOrder => EveryNameRecorded
  BY DEF ExitInv, CleanExit, InOrder, Going, Disturbed, FirstNames, EveryNameRecorded
<1> QED
  BY <1>1, <1>2, <1>3, <1>4, InitType, TypeStep, PTL DEF Spec

=============================================================================
