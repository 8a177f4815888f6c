----------------------------- MODULE FairQueue -----------------------------
(***************************************************************************)
(* The fair-queueing packet scheduler of progs/bpf_qdisc_fq.rs.  The       *)
(* kernel calls its four operations under the qdisc lock, so an operation  *)
(* is atomic for everybody else; the loops of bpf_fq_dequeue and           *)
(* bpf_fq_reset are steps of their own here (pc says which loop runs) and  *)
(* no other operation starts before they end.                              *)
(*                                                                         *)
(* A flow is an object with a reference count: a stash in one of the two   *)
(* maps is one reference, its place in fq_new_flows, fq_old_flows or       *)
(* fq_delayed another, and it is freed, with the packets in its queue,     *)
(* when neither is left.  The packet queue of a flow is an rbtree ordered  *)
(* by time; a packet's number is its arrival order, which decides between  *)
(* equal times.  Flows delayed to the same time leave the tree in any      *)
(* order.  Counters nobody reads (drops, unthrottle_latency_ns, bstats)    *)
(* are left out.  ktime and jiffies are one clock, now.                    *)
(***************************************************************************)
EXTENDS Integers, FiniteSets, Sequences, Functions

CONSTANTS
    FlowId,            \* flow objects bpf_obj_new can hand out
    Hash,              \* the keys of fq_nonprio_flows; 0 is one of them
    PktLen,            \* the packet lengths that occur
    Prio,              \* the class of TC_PRIO_CONTROL packets
    Absent,            \* no element under a key
    Limit, FlowPlimit, Quantum, InitialQuantum, FlowRefillDelay, Horizon,
    HorizonDrop, GcAge, FQ_GC_MAX, NUM_QUEUE,
    U32,               \* the modulus of the backlog counter
    MaxPkts,           \* bound: packets that arrive in one behaviour
    LastArrival,       \* bound: the last time a packet arrives
    MaxResets,         \* bound: resets in one behaviour
    MaxAttach          \* bound: times the qdisc is attached

ASSUME FairQueueAssumption ==
    /\ 0 \in Hash /\ Prio \notin Hash /\ Absent \notin FlowId
    /\ PktLen \subseteq Nat \ {0} /\ PktLen # {} /\ IsFiniteSet(PktLen)
    /\ {Limit, FlowPlimit, Quantum, InitialQuantum, FlowRefillDelay, Horizon,
        GcAge, FQ_GC_MAX, NUM_QUEUE, MaxPkts, LastArrival, MaxResets, MaxAttach}
       \subseteq Nat
    /\ LastArrival # 0 /\ U32 \in Nat \ {0} /\ HorizonDrop \in BOOLEAN

VARIABLES
    pc,                 \* the loop an operation is in; "idle" between them
    fq_prio_flows,      \* the flow stashed under key 0, or Absent
    fq_nonprio_flows,   \* Hash -> stashed flow or Absent
    flow,               \* the flow objects
    fq_flows,           \* "new" and "old" -> the list of active flows
    flow_cnt,           \* "new" and "old" -> q.new_flow_cnt, q.old_flow_cnt
    fq_delayed,         \* the throttled flows
    time_next_delayed_flow, ktime_cache,
    qlen, backlog,      \* sch->q.qlen, sch->qstats.backlog
    i,                  \* the index of bpf_fq_dequeue's loop
    destroying,         \* the reset under way precedes a destroy
    now, timer, kick,   \* kernel: the clock, the watchdog, a pending qdisc_run
    arrived, sent,      \* history: arrivals, the packets handed out
    left,               \* history: packets that outlived the last reset
    exhausted,          \* history: the last dequeue ran out of rounds
    resets, attaches    \* history: resets and attachments so far

sch == <<qlen, backlog>>
kernel == <<now, timer, kick>>
history == <<arrived, sent, left, exhausted, resets, attaches>>
vars == <<pc, fq_prio_flows, fq_nonprio_flows, flow, fq_flows, flow_cnt,
          fq_delayed, time_next_delayed_flow, ktime_cache, sch, i, destroying,
          kernel, history>>

Never == LastArrival + Horizon + 1       \* ~0ULL as a time
Throttled == -1                          \* ~0ULL as a flow's age
MaxTime == LastArrival + Horizon

Packet == [id : 1..MaxPkts, tstamp : 0..MaxTime, len : PktLen]
Node == [credit : Int, qlen : Int, age : Nat \cup {Throttled},
         time_next_packet : 0..MaxTime, queue : SUBSET Packet]
NewNode == [credit |-> InitialQuantum, qlen |-> 0, age |-> 1,
            time_next_packet |-> 0, queue |-> {}]

\* The flows some map stashes, the flows that have a place, and the objects
\* that still have a reference.
Stashed == {fq_nonprio_flows[h] : h \in Hash} \cup {fq_prio_flows}
Placed == Range(fq_flows["new"]) \cup Range(fq_flows["old"]) \cup fq_delayed
Live == FlowId \cap (Stashed \cup Placed)

\* Mutant: a list holds no reference of its own.
ObjectsByStash(g) == [f \in FlowId |-> IF f \in Stashed' THEN g[f] ELSE NewNode]

\* The objects after a step: dropping the last reference frees a flow.
Objects(g) == [f \in FlowId |-> IF f \in Live' THEN g[f] ELSE NewNode]

\* The packets that the queues of f's in S hold.
Held(S) == UNION {flow[f].queue : f \in S}

\* Mutant: a flow counts as detached only when its refill is due.
DetachedLater(n) == n.age # 0 /\ n.age # Throttled /\ now > n.age + FlowRefillDelay
fq_flow_is_detached(n) == n.age # 0 /\ n.age # Throttled
fq_gc_candidate(n) == fq_flow_is_detached(n) /\ now > n.age + GcAge

\* rbtree_first under skbn_tstamp_less.
skbn_first(Q) == CHOOSE p \in Q : \A r \in Q :
    p.tstamp < r.tstamp \/ (p.tstamp = r.tstamp /\ p.id <= r.id)

Larger(a, b) == IF a > b THEN a ELSE b
Smaller(a, b) == IF a < b THEN a ELSE b

Init ==
    /\ pc = "down" /\ i = 0 /\ destroying = FALSE
    /\ fq_prio_flows = Absent
    /\ fq_nonprio_flows = [h \in Hash |-> Absent]
    /\ flow = [f \in FlowId |-> NewNode]
    /\ fq_flows = [l \in {"new", "old"} |-> <<>>]
    /\ flow_cnt = [l \in {"new", "old"} |-> 0]
    /\ fq_delayed = {}
    /\ time_next_delayed_flow = 0 /\ ktime_cache = 0
    /\ qlen = 0 /\ backlog = 0
    /\ now = 1 /\ timer = Never /\ kick = FALSE
    /\ arrived = 0 /\ sent = {} /\ left = 0 /\ exhausted = FALSE /\ resets = 0 /\ attaches = 0

-----------------------------------------------------------------------------
(* bpf_fq_init *)

\* The prio flow is made anew (the update replaces what the key held); a
\* failed allocation fails the attachment and changes nothing.
bpf_fq_init ==
    /\ pc = "down" /\ attaches < MaxAttach
    /\ \E f \in FlowId \ Live : fq_prio_flows' = f
    /\ UNCHANGED <<fq_nonprio_flows, fq_flows, fq_delayed>>
    /\ flow' = Objects([flow EXCEPT ![fq_prio_flows'] = NewNode])
    /\ time_next_delayed_flow' = Never
    /\ flow_cnt' = [l \in {"new", "old"} |-> 0]
    /\ qlen' = 0 /\ backlog' = 0
    /\ pc' = "idle" /\ attaches' = attaches + 1
    /\ UNCHANGED <<ktime_cache, i, destroying, kernel, arrived, sent, left, exhausted, resets>>

-----------------------------------------------------------------------------
(* bpf_fq_enqueue *)

\* The packet is freed and counted as dropped; m and g are the nonprio map and
\* the objects as the operation leaves them.
Drop(m, g) ==
    /\ fq_nonprio_flows' = m
    /\ flow' = Objects(g)
    /\ UNCHANGED sch

\* fq_flows_add_tail.
fq_flows_add_tail(fs, l, f) == [fs EXCEPT ![l] = Append(@, f)]

\* Mutant: the age is not reset.
RefilledAged(n) == [n EXCEPT !.credit = IF now > n.age + FlowRefillDelay THEN Larger(@, Quantum) ELSE @]

\* A detached flow gets its credit back when it was detached long enough.
Refilled(n) ==
    [n EXCEPT !.credit = IF now > n.age + FlowRefillDelay
                         THEN Larger(@, Quantum) ELSE @,
              !.age = 0]

\* What bpf_fq_enqueue does once fq_classify has found flow f of objects g in
\* map m: the per-flow limit, the return of a detached flow to fq_new_flows
\* and the packet's node, whose allocation may fail after that.
ToFlow(f, cls, m, g, p) ==
    LET back == cls # Prio /\ fq_flow_is_detached(g[f])
        node == IF back THEN Refilled(g[f]) ELSE g[f]
    IN IF cls # Prio /\ g[f].qlen >= FlowPlimit
       THEN UNCHANGED <<fq_flows, flow_cnt>> /\ Drop(m, g)
       ELSE /\ IF back
               THEN /\ fq_flows' = fq_flows_add_tail(fq_flows, "new", f)
                    /\ flow_cnt' = [flow_cnt EXCEPT !["new"] = @ + 1]
               ELSE UNCHANGED <<fq_flows, flow_cnt>>
            /\ \/ Drop(m, [g EXCEPT ![f] = node])
               \/ /\ fq_nonprio_flows' = m
                  /\ flow' = Objects([g EXCEPT ![f] =
                        [node EXCEPT !.queue = @ \cup {p}, !.qlen = @ + 1]])
                  /\ qlen' = qlen + 1
                  /\ backlog' = (backlog + p.len) % U32

\* fq_gc: the callback deletes detached flows in the order of the map, until
\* FQ_GC_MAX of them are gone; C is what it deleted.
fq_gc(m, C) ==
    LET old == {h \in Hash : m[h] # Absent /\ fq_gc_candidate(flow[m[h]])}
    IN /\ C \subseteq old
       /\ Cardinality(C) = Smaller(Cardinality(old), FQ_GC_MAX)

Room(m, h) == m[h] # Absent \/ Cardinality({k \in Hash : m[k] # Absent}) < NUM_QUEUE

\* fq_new_flow on the nonprio map.  The update replaces an element the key
\* has; a full map is collected once and the update tried again.
fq_new_flow(h, p) ==
    \/ UNCHANGED <<fq_flows, flow_cnt>> /\ Drop(fq_nonprio_flows, flow)
    \/ \E f \in FlowId \ Live, C \in SUBSET Hash :
         LET m == [k \in Hash |-> IF k \in C THEN Absent ELSE fq_nonprio_flows[k]]
         IN /\ IF Room(fq_nonprio_flows, h) THEN C = {} ELSE fq_gc(fq_nonprio_flows, C)
            /\ IF Room(m, h)
               THEN ToFlow(f, h, [m EXCEPT ![h] = f], [flow EXCEPT ![f] = NewNode], p)
               ELSE UNCHANGED <<fq_flows, flow_cnt>> /\ Drop(m, flow)

\* fq_classify and the rest of the operation: a control packet without a
\* prio flow goes, as any other packet, to a new flow under key 0.
Classified(c, p) ==
    CASE c = Prio /\ fq_prio_flows # Absent ->
           ToFlow(fq_prio_flows, Prio, fq_nonprio_flows, flow, p)
      [] c # Prio /\ fq_nonprio_flows[c] # Absent ->
           ToFlow(fq_nonprio_flows[c], c, fq_nonprio_flows, flow, p)
      [] OTHER -> fq_new_flow(IF c = Prio THEN 0 ELSE c, p)

\* One packet of class c, time stamp t (0: none) and length n arrives.
bpf_fq_enqueue(c, t, n) ==
    LET stale == t > ktime_cache + Horizon
        beyond == stale /\ t > now + Horizon
        time_to_send == IF t = 0 THEN now ELSE IF beyond THEN now + Horizon ELSE t
        p == [id |-> arrived + 1, tstamp |-> time_to_send, len |-> n]
    IN /\ pc = "idle" /\ arrived < MaxPkts /\ now <= LastArrival
       /\ UNCHANGED <<fq_prio_flows, fq_delayed>>
       /\ arrived' = arrived + 1 /\ kick' = TRUE
       /\ ktime_cache' = IF qlen < Limit /\ (t = 0 \/ stale) THEN now ELSE ktime_cache
       /\ IF qlen >= Limit \/ (beyond /\ HorizonDrop)
          THEN UNCHANGED <<fq_flows, flow_cnt>> /\ Drop(fq_nonprio_flows, flow)
          ELSE Classified(c, p)
       /\ UNCHANGED <<pc, time_next_delayed_flow, i, destroying, now, timer, sent, left,
                      exhausted, resets, attaches>>

-----------------------------------------------------------------------------
(* bpf_fq_dequeue *)

\* The operation returns packet p: the kernel sends it and asks again.
Return(p) ==
    /\ pc' = "idle"
    /\ sent' = sent \cup {p.id}
    /\ qlen' = qlen - 1
    /\ backlog' = (backlog - p.len) % U32
    /\ exhausted' = FALSE
    /\ UNCHANGED <<kernel, arrived, left, resets, attaches>>

\* Mutant: the watchdog is not set.
ReturnNullUnset(expire) ==
    /\ pc' = "idle" /\ kick' = FALSE
    /\ exhausted' = (pc = "loop" /\ i = Limit)
    /\ UNCHANGED <<sch, now, timer, arrived, sent, left, resets, attaches>>

\* It returns NULL, with the watchdog set unless expire is 0: the kernel asks
\* again when a packet arrives or the watchdog fires.
ReturnNull(expire) ==
    /\ pc' = "idle"
    /\ kick' = FALSE
    /\ timer' = IF expire # 0 THEN expire ELSE timer
    /\ exhausted' = (pc = "loop" /\ i = Limit)
    /\ UNCHANGED <<sch, now, arrived, sent, left, resets, attaches>>

\* Mutant: the packet stays in the tree.
PeekPrio ==
    /\ fq_prio_flows # Absent /\ flow[fq_prio_flows].queue # {}
    /\ Return(skbn_first(flow[fq_prio_flows].queue))
    /\ UNCHANGED <<flow, time_next_delayed_flow, ktime_cache, i>>

\* fq_dequeue_prio.  It leaves the flow's own qlen alone.
fq_dequeue_prio ==
    LET p == skbn_first(flow[fq_prio_flows].queue)
    IN /\ fq_prio_flows # Absent
       /\ flow[fq_prio_flows].queue # {}
       /\ flow' = [flow EXCEPT ![fq_prio_flows].queue = @ \ {p}]
       /\ Return(p)
       /\ UNCHANGED <<time_next_delayed_flow, ktime_cache, i>>

\* Mutant: a flow due now has to wait.
CheckLate ==
    /\ fq_prio_flows # Absent => flow[fq_prio_flows].queue = {}
    /\ ktime_cache' = now /\ i' = 0
    /\ IF time_next_delayed_flow >= now
       THEN pc' = "loop" /\ UNCHANGED time_next_delayed_flow
       ELSE pc' = "unset" /\ time_next_delayed_flow' = Never
    /\ UNCHANGED <<flow, sch, kernel, history>>

\* fq_check_throttled, up to its loop.
fq_check_throttled ==
    /\ fq_prio_flows # Absent => flow[fq_prio_flows].queue = {}
    /\ ktime_cache' = now
    /\ i' = 0
    /\ IF time_next_delayed_flow > now
       THEN pc' = "loop" /\ UNCHANGED time_next_delayed_flow
       ELSE pc' = "unset" /\ time_next_delayed_flow' = Never
    /\ UNCHANGED <<flow, sch, kernel, history>>

\* The start of the operation, up to its first loop.
bpf_fq_dequeue ==
    /\ pc = "idle" /\ kick
    /\ \/ qlen = 0 /\ ReturnNull(0) /\ UNCHANGED <<flow, time_next_delayed_flow, ktime_cache, i>>
       \/ qlen # 0 /\ (fq_dequeue_prio \/ fq_check_throttled)
    /\ UNCHANGED <<fq_prio_flows, fq_nonprio_flows, fq_flows, flow_cnt, fq_delayed,
                   destroying>>

\* Where the loop over the throttled flows leads.
Unset ==
    IF pc = "unset"
    THEN pc' = "loop" /\ UNCHANGED <<kick, timer, left>>
    ELSE /\ pc' = IF destroying THEN "down" ELSE "idle"
         /\ kick' = FALSE /\ timer' = Never
         /\ left' = Cardinality(Held(Live))

\* fq_unset_throttled_flows: one flow whose time has come (every flow, when
\* a reset runs the loop) goes to the end of the old list.
fq_unset_throttled_flows ==
    /\ pc \in {"unset", "unset_all"}
    /\ \/ /\ fq_delayed = {} /\ Unset
          /\ UNCHANGED <<flow, fq_flows, flow_cnt, fq_delayed, time_next_delayed_flow>>
       \/ \E f \in fq_delayed :
            /\ \A g \in fq_delayed : flow[f].time_next_packet <= flow[g].time_next_packet
            /\ IF pc = "unset" /\ flow[f].time_next_packet > ktime_cache
               THEN /\ time_next_delayed_flow' = flow[f].time_next_packet
                    /\ Unset
                    /\ UNCHANGED <<flow, fq_flows, flow_cnt, fq_delayed>>
               ELSE /\ fq_delayed' = fq_delayed \ {f}
                    /\ flow' = [flow EXCEPT ![f].age = 0]
                    /\ fq_flows' = fq_flows_add_tail(fq_flows, "old", f)
                    /\ flow_cnt' = [flow_cnt EXCEPT !["old"] = @ + 1]
                    /\ UNCHANGED <<pc, time_next_delayed_flow, kick, timer, left>>
    /\ UNCHANGED <<fq_prio_flows, fq_nonprio_flows, ktime_cache, sch, i, destroying,
                   now, arrived, sent, exhausted, resets, attaches>>

\* The next round of the loop.
Continue == pc' = "loop" /\ i' = i + 1 /\ UNCHANGED <<sch, kernel, history>>

\* A round that finds list l empty although its counter is not 0.
NoFront(l) ==
    /\ flow_cnt' = [flow_cnt EXCEPT ![l] = @ - 1]
    /\ ReturnNull(0)
    /\ UNCHANGED <<flow, fq_flows, fq_delayed, time_next_delayed_flow, i>>

\* Mutant: the flow goes back to a list, uncounted.
Uncounted(f, fs, n) ==
    /\ flow[f].credit <= 0
    /\ flow' = [flow EXCEPT ![f].credit = @ + Quantum]
    /\ fq_flows' = fq_flows_add_tail(fs, "old", f) /\ flow_cnt' = n
    /\ Continue
    /\ UNCHANGED <<fq_delayed, time_next_delayed_flow>>

\* A round on flow f, the front of list l, once fq_flows_remove_front has
\* removed it: fs and n are the lists and the counters without it.
OutOfCredit(f, fs, n) ==
    /\ flow[f].credit <= 0
    /\ flow' = [flow EXCEPT ![f].credit = @ + Quantum]
    /\ fq_flows' = fq_flows_add_tail(fs, "old", f)
    /\ flow_cnt' = [n EXCEPT !["old"] = @ + 1]
    /\ Continue
    /\ UNCHANGED <<fq_delayed, time_next_delayed_flow>>

\* Mutant: the counter is taken down a second time.
CountedTwice(l, f, fs, n) ==
    /\ flow[f].credit > 0 /\ flow[f].queue = {}
    /\ fq_flows' = fs /\ flow_cnt' = [n EXCEPT ![l] = @ - 1]
    /\ UNCHANGED <<fq_delayed, time_next_delayed_flow>>
    /\ flow' = Objects([flow EXCEPT ![f].age = now])
    /\ Continue

EmptyFlow(l, f, fs, n) ==
    /\ flow[f].credit > 0 /\ flow[f].queue = {}
    /\ UNCHANGED <<fq_delayed, time_next_delayed_flow>>
    /\ IF l = "new" /\ fs["old"] # <<>>
       THEN /\ fq_flows' = fq_flows_add_tail(fs, "old", f)
            /\ flow_cnt' = [n EXCEPT !["old"] = @ + 1]
            /\ UNCHANGED flow
       ELSE /\ fq_flows' = fs /\ flow_cnt' = n
            /\ flow' = Objects([flow EXCEPT ![f].age = now])
    /\ Continue

\* The time the flow may send next, given its first packet.
NextTime(f) == Larger(skbn_first(flow[f].queue).tstamp, flow[f].time_next_packet)

\* Mutants: the flow stays in its list; the later time wins.
ThrottledListed(f, fs, n) ==
    /\ flow[f].credit > 0 /\ flow[f].queue # {} /\ ktime_cache < NextTime(f)
    /\ flow' = [flow EXCEPT ![f].time_next_packet = NextTime(f), ![f].age = Throttled]
    /\ time_next_delayed_flow' = Smaller(time_next_delayed_flow, NextTime(f))
    /\ fq_delayed' = fq_delayed \cup {f}
    /\ UNCHANGED <<fq_flows, flow_cnt>>
    /\ Continue
ThrottledLater(f, fs, n) ==
    /\ flow[f].credit > 0 /\ flow[f].queue # {} /\ ktime_cache < NextTime(f)
    /\ flow' = [flow EXCEPT ![f].time_next_packet = NextTime(f), ![f].age = Throttled]
    /\ time_next_delayed_flow' = Larger(time_next_delayed_flow, NextTime(f))
    /\ fq_delayed' = fq_delayed \cup {f}
    /\ fq_flows' = fs /\ flow_cnt' = n
    /\ Continue

fq_flow_set_throttled(f, fs, n) ==
    /\ flow[f].credit > 0 /\ flow[f].queue # {} /\ ktime_cache < NextTime(f)
    /\ flow' = [flow EXCEPT ![f].time_next_packet = NextTime(f), ![f].age = Throttled]
    /\ time_next_delayed_flow' = Smaller(time_next_delayed_flow, NextTime(f))
    /\ fq_delayed' = fq_delayed \cup {f}
    /\ fq_flows' = fs /\ flow_cnt' = n
    /\ Continue

\* Mutants: a flow without credit sends; the flow's counter is forgotten.
SendOnCredit(f) ==
    LET p == skbn_first(flow[f].queue)
    IN /\ flow[f].credit >= 0 /\ flow[f].queue # {} /\ ktime_cache >= NextTime(f)
       /\ flow' = [flow EXCEPT ![f].queue = @ \ {p}, ![f].credit = @ - p.len, ![f].qlen = @ - 1]
       /\ Return(p)
       /\ UNCHANGED <<fq_flows, flow_cnt, fq_delayed, time_next_delayed_flow, i>>
SendUncounted(f) ==
    LET p == skbn_first(flow[f].queue)
    IN /\ flow[f].credit > 0 /\ flow[f].queue # {} /\ ktime_cache >= NextTime(f)
       /\ flow' = [flow EXCEPT ![f].queue = @ \ {p}, ![f].credit = @ - p.len]
       /\ Return(p)
       /\ UNCHANGED <<fq_flows, flow_cnt, fq_delayed, time_next_delayed_flow, i>>

SendFirst(f) ==
    LET p == skbn_first(flow[f].queue)
    IN /\ flow[f].credit > 0 /\ flow[f].queue # {} /\ ktime_cache >= NextTime(f)
       /\ flow' = [flow EXCEPT ![f].queue = @ \ {p}, ![f].credit = @ - p.len,
                               ![f].qlen = @ - 1]
       /\ Return(p)
       /\ UNCHANGED <<fq_flows, flow_cnt, fq_delayed, time_next_delayed_flow, i>>

\* fq_dequeue_nonprio_flows, one round of bpf_fq_dequeue's loop.
fq_dequeue_nonprio_flows ==
    /\ pc = "loop" /\ i < Limit
    /\ UNCHANGED <<fq_prio_flows, fq_nonprio_flows, ktime_cache, destroying>>
    /\ \/ /\ flow_cnt["new"] = 0 /\ flow_cnt["old"] = 0
          /\ ReturnNull(IF time_next_delayed_flow # Never THEN time_next_delayed_flow ELSE 0)
          /\ UNCHANGED <<flow, fq_flows, flow_cnt, fq_delayed, time_next_delayed_flow, i>>
       \/ \E l \in {"new", "old"} :
            /\ flow_cnt[l] # 0 /\ (l = "old" => flow_cnt["new"] = 0)
            /\ IF fq_flows[l] = <<>> THEN NoFront(l) ELSE
               LET f == Head(fq_flows[l])
                   fs == [fq_flows EXCEPT ![l] = Tail(@)]
                   n == [flow_cnt EXCEPT ![l] = @ - 1]
               IN \/ OutOfCredit(f, fs, n)
                  \/ EmptyFlow(l, f, fs, n)
                  \/ fq_flow_set_throttled(f, fs, n)
                  \/ SendFirst(f)

\* The loop has run Limit rounds: NULL, and no watchdog.
RoundsOver ==
    /\ pc = "loop" /\ i = Limit
    /\ ReturnNull(0)
    /\ UNCHANGED <<fq_prio_flows, fq_nonprio_flows, flow, fq_flows, flow_cnt, fq_delayed,
                   time_next_delayed_flow, ktime_cache, i, destroying>>

-----------------------------------------------------------------------------
(* bpf_fq_reset, alone or (d) before bpf_fq_destroy, which does nothing. *)

\* Mutant: the qdisc's counters stay.
ResetCounted(d) ==
    /\ pc = "idle" /\ resets < MaxResets
    /\ fq_nonprio_flows' = [h \in Hash |-> Absent]
    /\ fq_prio_flows' \in {Absent} \cup (FlowId \ Placed)
    /\ UNCHANGED <<fq_flows, fq_delayed>>
    /\ flow' = Objects([f \in FlowId |-> IF f = fq_prio_flows' THEN NewNode ELSE flow[f]])
    /\ pc' = "drain" /\ destroying' = d /\ resets' = resets + 1
    /\ UNCHANGED <<flow_cnt, time_next_delayed_flow, ktime_cache, sch, i, kernel, arrived, sent,
                   left, exhausted, attaches>>

\* Both maps are emptied and the prio flow made anew, if memory allows.
bpf_fq_reset(d) ==
    /\ pc = "idle" /\ resets < MaxResets
    /\ qlen' = 0 /\ backlog' = 0
    /\ fq_nonprio_flows' = [h \in Hash |-> Absent]
    /\ fq_prio_flows' \in {Absent} \cup (FlowId \ Placed)
    /\ UNCHANGED <<fq_flows, fq_delayed>>
    /\ flow' = Objects([f \in FlowId |-> IF f = fq_prio_flows' THEN NewNode ELSE flow[f]])
    /\ pc' = "drain" /\ destroying' = d
    /\ resets' = resets + 1
    /\ UNCHANGED <<flow_cnt, time_next_delayed_flow, ktime_cache, i, kernel, arrived, sent,
                   left, exhausted, attaches>>

\* fq_remove_flows_in_list and, when both lists are empty, what follows.
fq_remove_flows_in_list ==
    /\ pc = "drain"
    /\ UNCHANGED <<fq_prio_flows, fq_nonprio_flows, fq_delayed, time_next_delayed_flow,
                   ktime_cache, sch, i, destroying, kernel, history>>
    /\ IF fq_flows["new"] = <<>> /\ fq_flows["old"] = <<>>
       THEN /\ flow_cnt' = [l \in {"new", "old"} |-> 0]
            /\ pc' = "unset_all"
            /\ UNCHANGED <<fq_flows, flow>>
       ELSE LET l == IF fq_flows["new"] # <<>> THEN "new" ELSE "old"
            IN /\ fq_flows' = [fq_flows EXCEPT ![l] = Tail(@)]
               /\ flow' = Objects(flow)
               /\ UNCHANGED <<flow_cnt, pc>>

-----------------------------------------------------------------------------
(* The kernel *)

\* Time passes between operations.
Tick ==
    /\ pc \in {"idle", "down"} /\ now < MaxTime
    /\ now' = now + 1
    /\ UNCHANGED <<pc, fq_prio_flows, fq_nonprio_flows, flow, fq_flows, flow_cnt, fq_delayed,
                   time_next_delayed_flow, ktime_cache, sch, i, destroying, timer, kick, history>>

\* The watchdog fires and has the qdisc run.
Watchdog ==
    /\ pc = "idle" /\ timer <= now
    /\ timer' = Never /\ kick' = TRUE
    /\ UNCHANGED <<pc, fq_prio_flows, fq_nonprio_flows, flow, fq_flows, flow_cnt, fq_delayed,
                   time_next_delayed_flow, ktime_cache, sch, i, destroying, now, history>>

Dequeue == bpf_fq_dequeue \/ fq_unset_throttled_flows \/ fq_dequeue_nonprio_flows \/ RoundsOver

Next ==
    \/ bpf_fq_init
    \/ \E c \in Hash \cup {Prio}, t \in 0..(now + Horizon + 1), n \in PktLen : bpf_fq_enqueue(c, t, n)
    \/ Dequeue
    \/ \E d \in BOOLEAN : bpf_fq_reset(d)
    \/ fq_remove_flows_in_list
    \/ Tick
    \/ Watchdog

Spec == Init /\ [][Next]_vars

\* The kernel runs a qdisc it was asked to run, finishes an operation it has
\* started, and time and timers go on.  Arrivals and resets are up to others.
FairSpec ==
    /\ Spec
    /\ WF_vars(Dequeue) /\ WF_vars(fq_remove_flows_in_list)
    /\ WF_vars(Tick) /\ WF_vars(Watchdog)

-----------------------------------------------------------------------------
(* Properties *)

\* Type invariant: counters never go below zero, times stay within the horizon,
\* the dequeue's loop within the limit.
TypeOK ==
    /\ pc \in {"down", "idle", "unset", "loop", "drain", "unset_all"}
    /\ fq_prio_flows \in FlowId \cup {Absent}
    /\ fq_nonprio_flows \in [Hash -> FlowId \cup {Absent}]
    /\ flow \in [FlowId -> Node]
    /\ fq_flows \in [{"new", "old"} -> Seq(FlowId)]
    /\ flow_cnt \in [{"new", "old"} -> Nat]
    /\ fq_delayed \subseteq FlowId
    /\ time_next_delayed_flow \in 0..Never /\ ktime_cache \in 0..now
    /\ qlen \in Nat /\ backlog \in 0..(U32 - 1)
    /\ i \in 0..Limit /\ destroying \in BOOLEAN
    /\ now \in 1..MaxTime /\ timer \in 0..Never /\ kick \in BOOLEAN
    /\ arrived \in 0..MaxPkts /\ sent \subseteq 1..MaxPkts /\ left \in Nat
    /\ exhausted \in BOOLEAN /\ resets \in 0..MaxResets /\ attaches \in 0..MaxAttach

\* No flow is queued twice: the two lists hold different flows, each once, and
\* the throttled ones are in neither (a second push of a linked node fails and
\* would lose the caller's reference).
OnePlace ==
    /\ \A l \in {"new", "old"} : IsInjective(fq_flows[l])
    /\ Range(fq_flows["new"]) \cap Range(fq_flows["old"]) = {}
    /\ fq_delayed \cap (Range(fq_flows["new"]) \cup Range(fq_flows["old"])) = {}

\* flow->age tells the state of the flow, as the comment above
\* fq_flow_set_detached has it: 0 exactly in the lists, ~0 exactly in the tree
\* of throttled flows, a time (detached) exactly in neither.
AgeTellsPlace ==
    \A f \in Live :
        /\ flow[f].age = 0 <=> f \in Range(fq_flows["new"]) \cup Range(fq_flows["old"])
        /\ flow[f].age = Throttled <=> f \in fq_delayed

\* A packet waits only where a dequeue can find it: in the prio flow or in a
\* flow with a place; and a flow is throttled only for a packet.
NoStrandedPacket ==
    /\ \A f \in Live \ Placed : f # fq_prio_flows => flow[f].queue = {}
    /\ \A f \in fq_delayed : flow[f].queue # {}

\* The qdisc's counter counts the packets held, apart from those a reset left
\* in throttled flows: every dequeue that hands one of these out takes it off
\* a counter it was never on, so their number stays until the next reset.
QlenCountsPackets ==
    pc \notin {"drain", "unset_all"} => Cardinality(Held(Live)) = qlen + left

\* A flow's own counter, which the per-flow limit reads, counts its packets
\* (but for the prio flow, whose counter no dequeue takes down).
FlowQlenCountsPackets ==
    \A f \in Live \ {fq_prio_flows} : flow[f].qlen = Cardinality(flow[f].queue)

\* The list counters, by which a dequeue decides where to look, are the
\* lengths of the lists, as long as no packet outlived a reset.
CountersCountFlows ==
    left = 0 /\ pc # "drain" =>
        \A l \in {"new", "old"} : flow_cnt[l] = Len(fq_flows[l])

\* No throttled flow is due before the time the scheduler looks at the tree.
LooksInTime ==
    pc # "unset" => \A f \in fq_delayed : time_next_delayed_flow <= flow[f].time_next_packet

\* The scheduler never goes to sleep on work: when a dequeue has returned NULL
\* and nobody has asked since, every packet held waits for its time in a
\* throttled flow and the watchdog is set no later than that, unless the
\* dequeue ran out of rounds or a reset left packets behind.
NeverSleepsOnWork ==
    pc = "idle" /\ ~kick /\ left = 0 /\ ~exhausted =>
        \A f \in Live : flow[f].queue # {} =>
            f \in fq_delayed /\ timer <= flow[f].time_next_packet

\* A flow's credit stays within a packet below 0 and a quantum above it.
CreditBounded ==
    \A f \in FlowId :
        /\ flow[f].credit <= Larger(Quantum, InitialQuantum)
        /\ \E n \in PktLen : flow[f].credit > -n

\* No packet is handed out twice.
HandedOutOnce == \A p \in Held(Live) : p.id \notin sent

\* A packet that was accepted is never lost silently: a step that no longer
\* holds it hands it out or belongs to a reset.  Collecting flows, replacing
\* a map's element and detaching a flow free no packet.
NoSilentLoss ==
    [][\A p \in Held(Live) \ Held(Live)' : p.id \in sent' \/ "drain" \in {pc, pc'}]_vars

\* Once packets stop arriving the queue drains, whatever order and times they
\* had, with the exceptions of NeverSleepsOnWork.
Drains == <>[](qlen = 0 \/ left > 0 \/ exhausted)
=============================================================================
