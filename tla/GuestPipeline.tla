---------------------------- MODULE GuestPipeline ----------------------------
(***************************************************************************)
(* One overlay worker of the runtime gate, as four concurrent parties:     *)
(*   - the worker thread (Gate.pipelined_loop and what it calls),          *)
(*   - its builder thread (Gate.prepare: gate-overlay.sh step 1),          *)
(*   - the guests booted in its directory (scripts/gate-guest-loop),       *)
(*   - the main thread (Gate.run_all waiting for the worker, stop_guests,  *)
(*     the driver's cleanup) with the signal handler that interrupts it.   *)
(* They share the worker's two slots (s0, s1), its jobs/ directory and its *)
(* stop file, the CANCELLED event and the set CHILDREN.                    *)
(*                                                                         *)
(* Other workers appear only through main: one of them may raise while     *)
(* this one runs, and then main stops every guest (OtherWorkerRaises).     *)
(*                                                                         *)
(* Time is abstracted: a deadline or a grace period may run out at any     *)
(* moment.  The k-th Guest object and its process are numbered k.          *)
(***************************************************************************)
EXTENDS Sequences, Verdicts

CONSTANTS
  Names,          \* the translations
  NoName,         \* no translation: an empty or half-built layer
  Queue,          \* the names this worker takes, in the order it takes them
  MaxInterrupts,  \* bound on the number of SIGINT/SIGTERM
  OthersRaise     \* another worker may raise while this one runs

ASSUME PipelineAssumption ==
  /\ NoName \notin Names
  /\ Queue \in Seq(Names)
  /\ MaxInterrupts \in Nat
  /\ OthersRaise \in BOOLEAN

SLOTS == 2
Slots == 0 .. SLOTS - 1
NoSlot == -1
NoRc == -1

\* A worker boots one guest before its first object and at most one for each
\* object, and posts each object at most once: these bounds never bind.
Boots == 1 .. Len(Queue) + 1
JobIds == 0 .. Len(Queue)

\* A directory jobs/<n>; upper = NoSlot means that it does not exist.
Job == [upper : Slots \cup {NoSlot}, ready : BOOLEAN,
        rc : Statuses \cup {NoRc}, summary : Summaries,
        obj : Names \cup {NoName}]
NoJob == [upper |-> NoSlot, ready |-> FALSE, rc |-> NoRc,
          summary |-> "none", obj |-> NoName]

\* What finish() returns, with what the verdict rests on: `by` is the kind
\* of run, `obj` the object whose layer was run.
Result == [verdict : Verdict, c_verdict : Verdict \cup {"NOT-RUN"},
           by : {"none", "step1", "guest", "classic", "cancelled"},
           obj : Names \cup {NoName}]
NoResult == [verdict |-> "FAIL", c_verdict |-> "NOT-RUN", by |-> "none",
             obj |-> NoName]

\* The state of a gate-guest-loop: its job number, the slot it mounted, the
\* jobs directory (numbered like the Guest that created it) its log is open
\* in, and the exit status and the object of the last run.
Loop == [pc : {"none", "poll", "mounted", "unmounted", "gone"}, n : Nat,
         slot : Slots \cup {NoSlot}, dir : {0} \cup Boots,
         rc : Statuses, obj : Names \cup {NoName}]
FreshLoop == [pc |-> "poll", n |-> 0, slot |-> NoSlot, dir |-> 0, rc |-> 0,
              obj |-> NoName]
NoLoop == [FreshLoop EXCEPT !.pc = "none"]
Gone == [FreshLoop EXCEPT !.pc = "gone"]

\* What prepare() returns: step1 is "ok" when rc = 0 and what
\* runtime_result makes of it otherwise.
Prepared == [name : Names \cup {NoName}, slot : Slots,
             step1 : {"ok", "NO-ORACLE", "FAIL"}, killed : BOOLEAN]
NothingPrepared ==
  [name |-> NoName, slot |-> 0, step1 |-> "ok", killed |-> FALSE]

Step1(o) == IF o.rc = 0 THEN "ok" ELSE runtime_result(o)

VARIABLES
  queue,      \* the list the workers pop
  pc,         \* the worker thread's control
  cur,        \* the prepared object being finished
  res,        \* its result so far
  bpc,        \* the builder thread's control
  pending,    \* its one future
  count,      \* step 1 runs submitted; its parity picks the slot
  layer,      \* slot -> the object whose finished build it holds
  boots,      \* Guest objects created (self.boots)
  guests,     \* self.guests[GATE_DIR]: a Guest, or 0
  mine,       \* gate_in_guest's local `guest`
  job,        \* and its local `n`
  held,       \* Guests whose self.proc is not None
  nextJob,    \* Guest -> next_job
  checked,    \* Guests whose boot log passed under_kvm
  children,   \* Guests whose process is in CHILDREN
  jobs,       \* the jobs directory
  stop,       \* the stop file exists
  loop,       \* guest process -> the state of its gate-guest-loop
  mpc,        \* the main thread's control
  snapshot,   \* stop_guests's local `guests`: a Guest, or 0
  cancelled,  \* the CANCELLED event
  interrupts, \* signals received
  raised,     \* the worker's future holds an exception
  early,      \* main ran stop_guests while this worker was still going
  recorded    \* the names passed to on_row

workerVars == <<queue, pc, cur, res, count, mine, job, raised, recorded>>
builderVars == <<bpc, pending>>
hostVars == <<boots, guests, held, nextJob, checked, children>>
dirVars == <<layer, jobs, stop>>
mainVars == <<mpc, snapshot, cancelled, interrupts, early>>
vars == <<workerVars, builderVars, hostVars, loop, dirVars, mainVars>>

WorkerPCs == {"take", "boot", "await", "finish", "post", "ready", "wait",
              "join_lost", "join_fail", "classic", "classic_run",
              "oracle", "oracle_run", "record", "unwind", "done"}
BuilderPCs == {"idle", "submitted", "building", "built"}
MainPCs == {"results", "snapshot", "clear", "ask", "join", "joinwait",
            "pool", "cleanup", "returned"}

Init ==
  /\ queue = Queue
  /\ pc = "take"
  /\ cur = NothingPrepared
  /\ res = NoResult
  /\ bpc = "idle" /\ pending = NothingPrepared
  /\ count = 0
  /\ layer = [s \in Slots |-> NoName]
  /\ boots = 0 /\ guests = 0 /\ mine = 0 /\ job = 0
  /\ held = {} /\ checked = {} /\ children = {}
  /\ nextJob = [b \in Boots |-> 0]
  /\ jobs = [n \in JobIds |-> NoJob]
  /\ stop = FALSE
  /\ loop = [b \in Boots |-> NoLoop]
  /\ mpc = "results" /\ snapshot = 0
  /\ cancelled = FALSE /\ interrupts = 0
  /\ raised = FALSE /\ early = FALSE
  /\ recorded = {}

-----------------------------------------------------------------------------
(***************************************************************************)
(* Guests, as the host sees them.                                          *)
(***************************************************************************)
Live(b) == loop[b].pc \in {"poll", "mounted", "unmounted"}

alive(g) == g \in held /\ Live(g)

\* Mutant: spawn does not look at CANCELLED.
Boot_AfterCancel ==
  LET b == boots + 1 IN
  /\ b \in Boots
  /\ boots' = b /\ guests' = b /\ mine' = b
  /\ jobs' = [n \in JobIds |-> NoJob]
  /\ stop' = FALSE
  /\ held' = held \cup {b}
  /\ children' = children \cup {b}
  /\ loop' = [loop EXCEPT ![b] = FreshLoop]

\* Guest.__init__ and guest_for's bookkeeping: jobs/ and stop are removed,
\* then the process is spawned, unless the gate is cancelled.
Boot ==
  LET b == boots + 1 IN
  /\ b \in Boots
  /\ boots' = b /\ guests' = b /\ mine' = b
  /\ jobs' = [n \in JobIds |-> NoJob]
  /\ stop' = FALSE
  /\ IF cancelled
     THEN UNCHANGED <<held, children, loop>>
     ELSE /\ held' = held \cup {b}
          /\ children' = children \cup {b}
          /\ loop' = [loop EXCEPT ![b] = FreshLoop]

guest_for ==
  /\ IF alive(guests)
     THEN mine' = guests /\ UNCHANGED <<boots, guests, held, children, jobs, stop, loop>>
     ELSE Boot
  /\ UNCHANGED <<nextJob, checked, layer>>

\* Mutant: the stop file is touched and the process not waited for.
StopMine_NoJoin(lost, free) ==
  /\ stop' = TRUE
  /\ held' = held \ {mine}
  /\ pc' = free

\* Guest.stop up to the wait in join: touch the stop file, take self.proc.
\* A Guest whose proc is None already is not waited for.
StopMine(lost, free) ==
  /\ stop' = TRUE
  /\ held' = held \ {mine}
  /\ pc' = IF mine \in held THEN lost ELSE free

\* What finish() makes of a classic run of the Rust object, and with_oracle
\* of the C object's: only a FAIL asks the oracle.
Judge(from, o, kind) ==
  LET v == runtime_result(o) IN
  IF from = "classic"
  THEN /\ res' = [verdict |-> v, c_verdict |-> "NOT-RUN", by |-> kind,
                  obj |-> cur.name]
       /\ pc' = IF v = "FAIL" THEN "oracle" ELSE "record"
  ELSE res' = [res EXCEPT !.c_verdict = v] /\ pc' = "record"

\* stop_children: SIGKILL to the process group of every child, the guests
\* in CHILDREN and the run()s of the worker and of its builder.
StopChildren(o) ==
  /\ loop' = [b \in Boots |-> IF b \in children THEN Gone ELSE loop[b]]
  /\ IF bpc = "building"
     THEN /\ bpc' = "built"
          /\ pending' = [pending EXCEPT !.step1 = Step1(o), !.killed = TRUE]
     ELSE UNCHANGED builderVars
  /\ CASE pc = "classic_run" -> Judge("classic", o, "cancelled")
       [] pc = "oracle_run" -> Judge("oracle", o, "cancelled")
       [] OTHER -> UNCHANGED <<pc, res>>

-----------------------------------------------------------------------------
(***************************************************************************)
(* The builder thread: Gate.prepare.  gate-overlay.sh first wipes the      *)
(* slot's upper; run() starts nothing once the gate is cancelled.          *)
(***************************************************************************)
\* Mutant: the slot number is not reduced modulo SLOTS.
Submit_NoModulo(name) ==
  /\ bpc' = "submitted"
  /\ pending' = [name |-> name, slot |-> count, step1 |-> "ok", killed |-> FALSE]
  /\ count' = count + 1

\* Mutant: one slot for every object.
Submit_OneSlot(name) ==
  /\ bpc' = "submitted"
  /\ pending' = [name |-> name, slot |-> 0, step1 |-> "ok", killed |-> FALSE]
  /\ count' = count + 1

Submit(name) ==
  /\ bpc' = "submitted"
  /\ pending' = [name |-> name, slot |-> count % SLOTS, step1 |-> "ok",
                 killed |-> FALSE]
  /\ count' = count + 1

PrepareStart ==
  /\ bpc = "submitted"
  /\ IF cancelled
     THEN /\ bpc' = "built"
          /\ pending' = [pending EXCEPT !.step1 = Step1(NotStarted), !.killed = TRUE]
          /\ UNCHANGED layer
     ELSE /\ bpc' = "building"
          /\ layer' = [layer EXCEPT ![pending.slot] = NoName]
          /\ UNCHANGED pending
  /\ UNCHANGED <<workerVars, hostVars, loop, jobs, stop, mainVars>>

PrepareEnd ==
  /\ bpc = "building"
  /\ bpc' = "built"
  /\ \E o \in Step1Outcomes :
        /\ pending' = [pending EXCEPT !.step1 = Step1(o)]
        /\ layer' = IF o.rc = 0
                    THEN [layer EXCEPT ![pending.slot] = pending.name] ELSE layer
  /\ UNCHANGED <<workerVars, hostVars, loop, jobs, stop, mainVars>>

-----------------------------------------------------------------------------
(***************************************************************************)
(* The worker thread: Gate.pipelined_loop, finish, gate_in_guest.          *)
(***************************************************************************)

\* The first take; with nothing to do no guest is booted.
TakeFirst ==
  /\ pc = "take"
  /\ IF queue = <<>>
     THEN pc' = "unwind" /\ UNCHANGED <<queue, cur>>
     ELSE /\ pc' = "boot"
          /\ queue' = Tail(queue)
          /\ cur' = [cur EXCEPT !.name = Head(queue)]
  /\ UNCHANGED <<res, count, mine, job, raised, recorded, hostVars, loop,
                 dirVars, mainVars, builderVars>>

\* Boot the guest now, it overlaps the first step 1.
BootFirst ==
  /\ pc = "boot"
  /\ guest_for
  /\ Submit(cur.name)
  /\ pc' = "await"
  /\ UNCHANGED <<queue, cur, res, job, raised, recorded, mainVars>>

\* pending.result(), then the next object's step 1 in the other slot.
NextObject ==
  /\ pc = "await" /\ bpc = "built"
  /\ IF cancelled
     THEN /\ pc' = "unwind" /\ bpc' = "idle"
          /\ UNCHANGED <<queue, cur, count, pending>>
     ELSE /\ pc' = "finish"
          /\ cur' = pending
          /\ IF queue = <<>>
             THEN bpc' = "idle" /\ UNCHANGED <<queue, count, pending>>
             ELSE queue' = Tail(queue) /\ Submit(Head(queue))
  /\ UNCHANGED <<res, mine, job, raised, recorded, hostVars, loop, dirVars,
                 mainVars>>

\* A failed step 1 is judged as it is.
FinishStep1 ==
  /\ pc = "finish" /\ cur.step1 # "ok"
  /\ res' = [verdict |-> cur.step1, c_verdict |-> "NOT-RUN", obj |-> cur.name,
             by |-> IF cur.killed THEN "cancelled" ELSE "step1"]
  /\ pc' = IF cur.step1 = "FAIL" THEN "oracle" ELSE "record"
  /\ UNCHANGED <<queue, cur, count, mine, job, raised, recorded, builderVars,
                 hostVars, loop, dirVars, mainVars>>

FinishInGuest ==
  /\ pc = "finish" /\ cur.step1 = "ok"
  /\ guest_for
  /\ pc' = "post"
  /\ UNCHANGED <<queue, cur, res, count, job, raised, recorded, builderVars, mainVars>>

\* Mutant: the job names the slot that is being built.
PostUpper_OtherSlot ==
  /\ pc = "post"
  /\ nextJob[mine] \in JobIds
  /\ job' = nextJob[mine]
  /\ nextJob' = [nextJob EXCEPT ![mine] = @ + 1]
  /\ jobs' = [jobs EXCEPT ![nextJob[mine]].upper = pending.slot]
  /\ pc' = "ready"
  /\ UNCHANGED <<queue, cur, res, count, mine, raised, recorded, boots, guests,
                 held, checked, children, loop, layer, stop, mainVars,
                 builderVars>>

\* Guest.post: the job's directory and its upper, then ready.
PostUpper ==
  /\ pc = "post"
  /\ nextJob[mine] \in JobIds
  /\ job' = nextJob[mine]
  /\ nextJob' = [nextJob EXCEPT ![mine] = @ + 1]
  /\ jobs' = [jobs EXCEPT ![nextJob[mine]].upper = cur.slot]
  /\ pc' = "ready"
  /\ UNCHANGED <<queue, cur, res, count, mine, raised, recorded, boots, guests,
                 held, checked, children, loop, layer, stop, mainVars,
                 builderVars>>

PostReady ==
  /\ pc = "ready"
  /\ jobs' = [jobs EXCEPT ![job].ready = TRUE]
  /\ pc' = "wait"
  /\ UNCHANGED <<queue, cur, res, count, mine, job, raised, recorded, hostVars,
                 loop, layer, stop, mainVars, builderVars>>

\* Mutant: a FAIL is rerun, but the guest is kept.
WaitRc_KeepGuest ==
  /\ pc = "wait" /\ jobs[job].rc # NoRc
  /\ checked' = checked \cup {mine}
  /\ LET v == runtime_result([rc |-> jobs[job].rc, noCons |-> FALSE,
                              summary |-> jobs[job].summary]) IN
     /\ res' = [verdict |-> v, c_verdict |-> "NOT-RUN", by |-> "guest",
                obj |-> jobs[job].obj]
     /\ pc' = IF v = "FAIL" THEN "classic" ELSE "record"
  /\ UNCHANGED <<queue, cur, count, mine, job, raised, recorded, boots, guests,
                 nextJob, children, loop, layer, jobs, mainVars, builderVars,
                 stop, held>>

\* wait found the rc file.  The first answer of a guest has its boot log
\* checked (CheckRaises is the failing check); a FAIL stops the guest and
\* is rerun, anything else is the result.
WaitRc ==
  /\ pc = "wait" /\ jobs[job].rc # NoRc
  /\ checked' = checked \cup {mine}
  /\ LET v == runtime_result([rc |-> jobs[job].rc, noCons |-> FALSE,
                              summary |-> jobs[job].summary]) IN
     IF v = "FAIL"
     THEN StopMine("join_fail", "classic") /\ UNCHANGED res
     ELSE /\ res' = [verdict |-> v, c_verdict |-> "NOT-RUN", by |-> "guest",
                     obj |-> jobs[job].obj]
          /\ pc' = "record"
          /\ UNCHANGED <<stop, held>>
  /\ UNCHANGED <<queue, cur, count, mine, job, raised, recorded, boots, guests,
                 nextJob, children, loop, layer, jobs, mainVars, builderVars>>

\* under_kvm raises: no kernel banner, or an emulated CPU.
CheckRaises ==
  /\ pc = "wait" /\ jobs[job].rc # NoRc /\ mine \notin checked
  /\ raised' = TRUE /\ pc' = "unwind"
  /\ UNCHANGED <<queue, cur, res, count, mine, job, recorded, hostVars, loop,
                 dirVars, mainVars, builderVars>>

\* Mutant: wait has no deadline.
WaitGivesUp_NoDeadline ==
  /\ pc = "wait"
  /\ ~alive(mine) \/ cancelled
  /\ StopMine("join_lost", "classic")
  /\ UNCHANGED <<queue, cur, res, count, mine, job, raised, recorded, boots, guests,
                 nextJob, checked, children, loop, layer, jobs, mainVars,
                 builderVars>>

\* wait gave up: the guest is gone, the deadline (late) passed or the gate
\* is cancelled.  The rc may arrive between the two tests of the loop, so
\* its absence is not a condition.
WaitGivesUp ==
  /\ pc = "wait"
  /\ \E late \in BOOLEAN : ~alive(mine) \/ late \/ cancelled
  /\ StopMine("join_lost", "classic")
  /\ UNCHANGED <<queue, cur, res, count, mine, job, raised, recorded, boots, guests,
                 nextJob, checked, children, loop, layer, jobs, mainVars,
                 builderVars>>

\* The end of Guest.join: the process left, or is killed after the grace.
\* After a FAIL the Guest is also dropped from self.guests.
Joined ==
  /\ pc \in {"join_lost", "join_fail"}
  /\ loop' = [loop EXCEPT ![mine] = Gone]
  /\ children' = children \ {mine}
  /\ guests' = IF pc = "join_fail" THEN 0 ELSE guests
  /\ pc' = "classic"
  /\ UNCHANGED <<queue, cur, res, count, mine, job, raised, recorded, boots, held,
                 nextJob, checked, dirVars, mainVars,
                 builderVars>>

\* Gate.classic: alone in a fresh guest over <worker>/upper, never a slot.
ClassicStart ==
  /\ pc \in {"classic", "oracle"}
  /\ IF cancelled
     THEN Judge(pc, NotStarted, "cancelled")
     ELSE /\ pc' = IF pc = "classic" THEN "classic_run" ELSE "oracle_run"
          /\ UNCHANGED res
  /\ UNCHANGED <<queue, cur, count, mine, job, raised, recorded, hostVars, loop,
                 dirVars, mainVars, builderVars>>

ClassicEnd ==
  /\ pc \in {"classic_run", "oracle_run"}
  /\ \E o \in ClassicOutcomes :
        Judge(IF pc = "classic_run" THEN "classic" ELSE "oracle", o, "classic")
  /\ UNCHANGED <<queue, cur, count, mine, job, raised, recorded, hostVars, loop,
                 dirVars, mainVars, builderVars>>

\* Mutant: the exception is lost, and the loop left as if it had ended.
ClassicRaises_Swallowed ==
  /\ pc \in {"classic_run", "oracle_run"}
  /\ pc' = "unwind"
  /\ UNCHANGED <<queue, cur, res, count, mine, job, raised, recorded, hostVars,
                 loop, dirVars, mainVars, builderVars>>

\* under_kvm on the classic run's log.
ClassicRaises ==
  /\ pc \in {"classic_run", "oracle_run"}
  /\ raised' = TRUE /\ pc' = "unwind"
  /\ UNCHANGED <<queue, cur, res, count, mine, job, recorded, hostVars, loop,
                 dirVars, mainVars, builderVars>>

\* Mutant: the loop ends with the queue, dropping the object being prepared.
Record_DropsPending ==
  /\ pc = "record"
  /\ recorded' = recorded \cup {cur.name}
  /\ res' = NoResult
  /\ pc' = IF queue = <<>> THEN "unwind" ELSE "await"
  /\ UNCHANGED <<queue, cur, count, mine, job, raised, builderVars, hostVars,
                 loop, dirVars, mainVars>>

\* on_row under the gate's lock; then the next prepared object, if any.
Record ==
  /\ pc = "record"
  /\ recorded' = recorded \cup {cur.name}
  /\ res' = NoResult
  /\ pc' = IF bpc = "idle" THEN "unwind" ELSE "await"
  /\ UNCHANGED <<queue, cur, count, mine, job, raised, builderVars, hostVars,
                 loop, dirVars, mainVars>>

\* Leaving `with ThreadPoolExecutor(...) as builder` waits for the builder.
Unwind ==
  /\ pc = "unwind" /\ bpc \in {"idle", "built"}
  /\ pc' = "done"
  /\ UNCHANGED <<queue, cur, res, count, mine, job, raised, recorded, hostVars,
                 loop, dirVars, mainVars, builderVars>>

-----------------------------------------------------------------------------
(***************************************************************************)
(* A guest: scripts/gate-guest-loop.  `stop` is looked at between jobs.    *)
(***************************************************************************)
GuestTakes(b) ==
  /\ loop[b].pc = "poll" /\ ~stop
  /\ loop[b].n \in JobIds /\ jobs[loop[b].n].ready
  /\ loop' = [loop EXCEPT ![b].pc = "mounted", ![b].dir = boots,
                          ![b].slot = jobs[loop[b].n].upper]
  /\ UNCHANGED <<workerVars, builderVars, hostVars, dirVars, mainVars>>

\* The tests run on what the slot holds; their summary goes to the log that
\* was opened when the job began (lost if jobs/ was removed since), then
\* the overlay is unmounted.  Without an upper the mount fails.
GuestRuns(b) ==
  /\ loop[b].pc = "mounted"
  /\ \E o \in TestOutcomes :
        /\ loop[b].slot = NoSlot => o.rc = MountFailed
        /\ loop' = [loop EXCEPT
                      ![b].pc = "unmounted", ![b].rc = o.rc,
                      ![b].obj = IF loop[b].slot = NoSlot
                                 THEN NoName ELSE layer[loop[b].slot]]
        /\ jobs' = IF loop[b].dir = boots
                   THEN [jobs EXCEPT ![loop[b].n].summary = o.summary] ELSE jobs
  /\ UNCHANGED <<workerVars, builderVars, hostVars, layer, stop, mainVars>>

\* rc.tmp renamed to jobs/<n>/rc, if that directory still exists.
GuestReports(b) ==
  /\ loop[b].pc = "unmounted"
  /\ jobs' = IF jobs[loop[b].n].upper # NoSlot
             THEN [jobs EXCEPT ![loop[b].n].rc = loop[b].rc,
                               ![loop[b].n].obj = loop[b].obj]
             ELSE jobs
  /\ loop' = [loop EXCEPT ![b].pc = "poll", ![b].n = @ + 1, ![b].slot = NoSlot]
  /\ UNCHANGED <<workerVars, builderVars, hostVars, layer, stop, mainVars>>

\* The loop ends at the stop file, or after its idle time without a job.
GuestLeaves(b) ==
  /\ loop[b].pc = "poll"
  /\ stop \/ loop[b].n \notin JobIds \/ ~jobs[loop[b].n].ready
  /\ loop' = [loop EXCEPT ![b] = Gone]
  /\ UNCHANGED <<workerVars, builderVars, hostVars, dirVars, mainVars>>

\* A test crashed the guest's kernel, or QEMU_TIMEOUT ran out.
GuestDies(b) ==
  /\ Live(b)
  /\ loop' = [loop EXCEPT ![b] = Gone]
  /\ UNCHANGED <<workerVars, builderVars, hostVars, dirVars, mainVars>>

-----------------------------------------------------------------------------
(***************************************************************************)
(* The main thread: run_all reading the futures in order, its `finally`    *)
(* (stop_guests), the pool's exit, and the driver's own `finally`.         *)
(***************************************************************************)
notMain == <<workerVars, loop, boots, nextJob, checked, layer, jobs,
              builderVars, cancelled, interrupts>>

WorkerReturns ==
  /\ mpc = "results" /\ pc = "done"
  /\ mpc' = "snapshot"
  /\ UNCHANGED <<notMain, guests, held, children, stop, snapshot, early>>

\* future.result() re-raises another worker's exception.
OtherWorkerRaises ==
  /\ OthersRaise /\ mpc = "results" /\ pc # "done"
  /\ mpc' = "snapshot" /\ early' = TRUE
  /\ UNCHANGED <<notMain, guests, held, children, stop, snapshot>>

\* stop_guests: list the guests, clear the dict, ask each one, join each.
SnapshotGuests ==
  /\ mpc = "snapshot"
  /\ snapshot' = guests /\ mpc' = "clear"
  /\ UNCHANGED <<notMain, guests, held, children, stop, early>>

ClearGuests ==
  /\ mpc = "clear"
  /\ guests' = 0
  /\ mpc' = IF snapshot = 0 THEN "pool" ELSE "ask"
  /\ UNCHANGED <<notMain, held, children, stop, snapshot, early>>

RequestStop ==
  /\ mpc = "ask"
  /\ stop' = TRUE /\ mpc' = "join"
  /\ UNCHANGED <<notMain, guests, held, children, snapshot, early>>

JoinTakesProc ==
  /\ held' = held \ {snapshot}
  /\ mpc' = IF snapshot \in held THEN "joinwait" ELSE "pool"

JoinGuest ==
  /\ mpc = "join"
  /\ JoinTakesProc
  /\ UNCHANGED <<notMain, guests, children, stop, snapshot, early>>

\* alive() reads self.proc twice.  When join's swap falls between the two
\* reads, the worker calls poll on None and its future gets the exception.
JoinRacesAlive ==
  /\ mpc = "join" /\ pc = "wait" /\ mine = snapshot /\ snapshot \in held
  /\ JoinTakesProc
  /\ raised' = TRUE /\ pc' = "unwind"
  /\ UNCHANGED <<queue, cur, res, count, mine, job, recorded, loop, boots,
                 nextJob, checked, layer, jobs, builderVars, cancelled, interrupts,
                 guests, children, stop, snapshot, early>>

JoinedGuest ==
  /\ mpc = "joinwait"
  /\ loop' = [loop EXCEPT ![snapshot] = Gone]
  /\ children' = children \ {snapshot}
  /\ mpc' = "pool"
  /\ UNCHANGED <<workerVars, boots, nextJob, checked,
                 layer, jobs, builderVars, cancelled, interrupts, guests, held,
                 stop, snapshot, early>>

\* Mutant: the pool is left without waiting for its workers.
PoolExits_NoWait ==
  /\ mpc = "pool"
  /\ mpc' = "cleanup"
  /\ UNCHANGED <<notMain, guests, held, children, stop, snapshot, early>>

PoolExits ==
  /\ mpc = "pool" /\ pc = "done"
  /\ mpc' = "cleanup"
  /\ UNCHANGED <<notMain, guests, held, children, stop, snapshot, early>>

\* The driver's finally: ignore signals, stop_children, CANCELLED.clear();
\* when main() returns its locks are closed.
Cleanup ==
  /\ mpc = "cleanup"
  /\ \E o \in KilledOutcomes : StopChildren(o)
  /\ cancelled' = FALSE
  /\ mpc' = "returned"
  /\ UNCHANGED <<queue, cur, count, mine, job, raised, recorded, hostVars, dirVars, snapshot, interrupts, early>>

\* interrupted(): set CANCELLED, stop_children, raise KeyboardInterrupt in
\* the main thread.  The exception leaves the futures for stop_guests,
\* stop_guests for the pool's exit, the pool's exit for the cleanup.  A
\* join it interrupts discards its child from CHILDREN.
Interrupted ==
  /\ interrupts < MaxInterrupts /\ mpc # "returned"
  /\ interrupts' = interrupts + 1
  /\ cancelled' = TRUE
  /\ \E o \in KilledOutcomes : StopChildren(o)
  /\ mpc' = CASE mpc = "results" -> "snapshot"
              [] mpc \in {"snapshot", "clear", "ask", "join", "joinwait"} -> "pool"
              [] mpc \in {"pool", "cleanup"} -> "cleanup"
  /\ children' = IF mpc = "joinwait" THEN children \ {snapshot} ELSE children
  /\ UNCHANGED <<queue, cur, count, mine, job, raised, recorded, boots, guests,
                 held, nextJob, checked, dirVars,
                 snapshot, early>>

-----------------------------------------------------------------------------
WorkerNext ==
  \/ TakeFirst \/ BootFirst \/ NextObject \/ FinishStep1 \/ FinishInGuest
  \/ PostUpper \/ PostReady \/ WaitRc \/ CheckRaises \/ WaitGivesUp
  \/ Joined \/ ClassicStart \/ ClassicEnd \/ ClassicRaises \/ Record \/ Unwind

BuilderNext == PrepareStart \/ PrepareEnd

GuestNext ==
  \E b \in Boots : \/ GuestTakes(b) \/ GuestRuns(b) \/ GuestReports(b)
                  \/ GuestLeaves(b) \/ GuestDies(b)

MainNext ==
  \/ WorkerReturns \/ SnapshotGuests \/ ClearGuests \/ RequestStop
  \/ JoinGuest \/ JoinRacesAlive \/ JoinedGuest \/ PoolExits \/ Cleanup

EnvironmentNext == OtherWorkerRaises \/ Interrupted

\* main() has returned and the worker thread is gone: the process exits.
Finished == mpc = "returned" /\ pc = "done" /\ UNCHANGED vars

Next == \/ WorkerNext \/ BuilderNext \/ GuestNext \/ MainNext
        \/ EnvironmentNext \/ Finished

Spec == Init /\ [][Next]_vars

\* Threads are scheduled, run() and wait() have deadlines and join a grace
\* period.  Nothing is assumed of a guest, which may hang forever.
FairSpec ==
  /\ Spec
  /\ WF_vars(WorkerNext) /\ WF_vars(BuilderNext) /\ WF_vars(MainNext)

-----------------------------------------------------------------------------
(***************************************************************************)
(* Properties.                                                             *)
(***************************************************************************)

\* Type invariant: the variables of pipelined_loop, Guest, gate-guest-loop
\* and run_all hold values of their kinds.
TypeOK ==
  /\ queue \in Seq(Names)
  /\ pc \in WorkerPCs
  /\ cur \in Prepared
  /\ res \in Result
  /\ bpc \in BuilderPCs /\ pending \in Prepared
  /\ count \in Nat
  /\ layer \in [Slots -> Names \cup {NoName}]
  /\ boots \in {0} \cup Boots
  /\ guests \in {0} \cup Boots
  /\ mine \in {0} \cup Boots
  /\ job \in JobIds
  /\ held \subseteq Boots /\ checked \subseteq Boots /\ children \subseteq Boots
  /\ nextJob \in [Boots -> Nat]
  /\ jobs \in [JobIds -> Job]
  /\ stop \in BOOLEAN
  /\ loop \in [Boots -> Loop]
  /\ mpc \in MainPCs
  /\ snapshot \in {0} \cup Boots
  /\ cancelled \in BOOLEAN /\ interrupts \in 0 .. MaxInterrupts
  /\ raised \in BOOLEAN /\ early \in BOOLEAN
  /\ recorded \subseteq Names

\* No slot is rebuilt under a guest: while gate-overlay.sh rebuilds a slot's
\* upper, no running guest has that upper mounted.  Holds as long as main
\* does not stop the guests of a worker that is still going.
SlotExclusive ==
  (~early /\ bpc = "building") =>
    \A b \in Boots : loop[b].pc = "mounted" => loop[b].slot # pending.slot

\* At most one guest serves a worker's jobs directory at a time.
OneGuest ==
  ~early => \A b, c \in Boots : Live(b) /\ Live(c) => b = c

\* A verdict taken from the shared guest is the verdict of the row's own
\* object: the guest ran the finished layer of exactly that translation.
OwnObject ==
  (~early /\ pc = "record" /\ res.by = "guest") => res.obj = cur.name

\* Nothing a failing test left behind reaches another object: a guest that
\* starts a job has not run an object that failed.
FailedGuestRetired ==
  ~early => \A b \in Boots : loop[b].pc = "mounted" => loop[b].rc \in {0, ExitNoTest}

\* An interrupt reaches every guest: once CANCELLED is set no guest of the
\* worker is running, however spawn and the signal handler interleave.
InterruptReachesGuests ==
  cancelled => \A b \in Boots : ~Live(b)

\* When the driver's main() has returned, its worker has ended and no guest
\* is left running, interrupted or not.
CleanExit ==
  (mpc = "returned" /\ (interrupts = 0 \/ (interrupts = 1 /\ ~early))) =>
    pc = "done" /\ \A b \in Boots : ~Live(b)

\* A worker that was not disturbed recorded a row for every name it took,
\* also when another worker raised and main stopped its guests under it.
EveryNameRecorded ==
  (mpc = "returned" /\ ~raised /\ interrupts = 0) =>
    \A i \in 1 .. Len(Queue) : Queue[i] \in recorded

\* The rows are those of the first names of the queue, at any moment and
\* whatever disturbs the worker: no name is passed over for a later one.
RowsInOrder ==
  \E k \in 0 .. Len(Queue) : recorded = {Queue[i] : i \in 1 .. k}

\* The names taken from the queue and not yet recorded: the object being
\* finished, then the one in the builder's hands.  A worker that is leaving
\* has dropped what it held.
hand ==
  CASE pc \in {"take", "unwind", "done"} -> <<>>
    [] pc = "await" -> <<pending.name>>
    [] pc \notin {"take", "await", "unwind", "done"} ->
         IF bpc = "idle" THEN <<cur.name>> ELSE <<cur.name, pending.name>>

\* The pipeline of two slots, a builder thread and shared guests implements
\* the worker the gate counts on.  Only its own exception or an interrupt
\* makes it drop a name.
Contract == INSTANCE WorkerContract WITH
  Depth <- SLOTS,
  disturbed <- raised \/ interrupts > 0,
  going <- pc \notin {"unwind", "done"}

ImplementsContract == Contract!Spec

\* The worker ends and main() returns, even if its guests hang.
Termination == <>(mpc = "returned" /\ pc = "done")

-----------------------------------------------------------------------------
(***************************************************************************)
(* What comments of the code promise and the code does not keep.           *)
(***************************************************************************)

\* scripts/gate-guest-loop:22-24: "The host rebuilds a slot only after the rc
\* of its last job is there: the overlay is unmounted by then".
RebuiltAfterRc ==
  bpc = "building" =>
    \A b \in Boots : loop[b].pc = "mounted" => loop[b].slot # pending.slot

\* scripts/gate.py:15-16, 204-205: a recorded FAIL means that the
\* translation's consumers fail and "keeps alarming until its objects change
\* (i.e. someone fixed the translation)".  So a run the gate itself killed
\* or never started records nothing.
CancelledUnrecorded ==
  pc = "record" => res.by # "cancelled"

=============================================================================
