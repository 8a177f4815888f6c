------------------------ MODULE FairQueuePacketProofs ------------------------
(***************************************************************************)
(* Where the packets of the packet scheduler go, and what its counters and *)
(* its watchdog say of them: proofs of HandedOutOnce, NoSilentLoss,        *)
(* QlenCountsPackets, FlowQlenCountsPackets, CountersCountFlows and        *)
(* NeverSleepsOnWork for every value of the constants.                     *)
(*                                                                         *)
(* PacketInv is the inductive invariant.  IdsOK says, with FlowInv, that a *)
(* packet is in one queue of one flow until it is handed out.  A step      *)
(* moves one packet at most (Moves) or belongs to a reset that frees flows *)
(* (Frees), and the counters follow from that.                             *)
(* The last section proves what Drains rests on.                           *)
(***************************************************************************)
EXTENDS FairQueueFlowProofs

-----------------------------------------------------------------------------
(* The packets *)

\* No two packets anywhere have the same number, none has been handed out, and
\* the numbers in use are those of packets that have arrived.
IdsOK ==
    /\ \A f \in FlowId : \A p \in flow[f].queue : p.id <= arrived /\ p.id \notin sent
    /\ \A x \in sent : x <= arrived
    /\ \A f, g \in FlowId : \A p \in flow[f].queue, q \in flow[g].queue :
         p.id = q.id => f = g /\ p = q

\* Every packet is in a flow that has a reference.
LEMMA HeldEverywhere ==
    ASSUME TypeOK, FlowInv
    PROVE  Held(Live) = UNION {flow[f].queue : f \in FlowId}
<1>1. ASSUME NEW f \in FlowId, flow[f].queue # {} PROVE f \in Live
  <2>1. FlowOK(f)
    BY DEF FlowInv
  <2> QED BY <1>1, <2>1 DEF FlowOK, Live, Placed, Stashed, In
<1>2. Live \subseteq FlowId
  BY DEF Live
<1> QED BY <1>1, <1>2, ZenonT(30) DEF Held

\* A queue that only loses packets keeps what IdsOK says.
LEMMA IdsShrink ==
    ASSUME TypeOK, IdsOK, \A f \in FlowId : flow'[f].queue \subseteq flow[f].queue,
           sent' = sent, arrived' = arrived \/ arrived' = arrived + 1
    PROVE  IdsOK'
<1>1. arrived \in Nat /\ (\A f \in FlowId : \A p \in flow[f].queue : p.id \in Nat) /\ sent \subseteq Nat
  <2>1. \A f \in FlowId : flow[f].queue \subseteq Packet
    BY DEF TypeOK, Node
  <2>2. \A p \in Packet : p.id \in Nat
    BY SMTT(30), Constants DEF Packet
  <2>3. arrived \in Nat /\ sent \subseteq Nat
    BY Constants DEF TypeOK
  <2> QED BY SMTT(30), <2>1, <2>2, <2>3
<1>2. /\ \A f \in FlowId : \A p \in flow[f].queue : p.id <= arrived'
      /\ \A x \in sent : x <= arrived'
  BY <1>1 DEF IdsOK
<1>3. \A f \in FlowId : \A p \in flow'[f].queue : p.id <= arrived' /\ p.id \notin sent'
  BY <1>2, Zenon DEF IdsOK
<1>4. ASSUME NEW f \in FlowId, NEW g \in FlowId, NEW p \in flow'[f].queue, NEW q \in flow'[g].queue,
             p.id = q.id
      PROVE  f = g /\ p = q
  <2>1. p \in flow[f].queue /\ q \in flow[g].queue
    OBVIOUS
  <2> QED BY <1>4, <2>1, Zenon DEF IdsOK
<1> QED BY <1>2, <1>3, <1>4, Zenon DEF IdsOK

\* Handing out packet p of flow f, which leaves its queue.
LEMMA IdsReturn ==
    ASSUME TypeOK, IdsOK, NEW f \in FlowId, NEW p \in flow[f].queue,
           flow'[f].queue = flow[f].queue \ {p},
           \A g \in FlowId : g # f => flow'[g].queue = flow[g].queue,
           sent' = sent \cup {p.id}, arrived' = arrived
    PROVE  IdsOK'
<1>1. \A g \in FlowId : flow'[g].queue \subseteq flow[g].queue
  OBVIOUS
<1>2. ASSUME NEW g \in FlowId, NEW q \in flow'[g].queue PROVE q.id # p.id
  <2>1. q \in flow[g].queue /\ (g = f => q # p)
    BY <1>1, <1>2
  <2> QED BY <2>1 DEF IdsOK
<1>3. \A g \in FlowId : \A q \in flow'[g].queue : q.id <= arrived' /\ q.id \notin sent'
  BY <1>1, <1>2, Zenon DEF IdsOK
<1>4. \A x \in sent' : x <= arrived'
  <2>1. p.id <= arrived /\ \A x \in sent : x <= arrived
    BY Zenon DEF IdsOK
  <2> QED BY <2>1, Zenon
<1>5. ASSUME NEW g \in FlowId, NEW h \in FlowId, NEW q \in flow'[g].queue, NEW r \in flow'[h].queue,
             q.id = r.id
      PROVE  g = h /\ q = r
  <2>1. q \in flow[g].queue /\ r \in flow[h].queue
    BY <1>1
  <2> QED BY <1>5, <2>1, ZenonT(30) DEF IdsOK
<1> QED BY <1>3, <1>4, <1>5, ZenonT(30) DEF IdsOK

\* A packet that arrives has a number of its own.
LEMMA IdsArrive ==
    ASSUME TypeOK, IdsOK, NEW f \in FlowId, NEW p, p.id = arrived + 1,
           flow'[f].queue \subseteq flow[f].queue \cup {p},
           \A g \in FlowId : g # f => flow'[g].queue \subseteq flow[g].queue,
           sent' = sent, arrived' = arrived + 1
    PROVE  IdsOK'
<1>1. arrived \in Nat /\ (\A g \in FlowId : \A q \in flow[g].queue : q.id \in Nat) /\ sent \subseteq Nat
  <2>1. \A g \in FlowId : flow[g].queue \subseteq Packet
    BY DEF TypeOK, Node
  <2>2. \A q \in Packet : q.id \in Nat
    BY SMTT(30), Constants DEF Packet
  <2>3. arrived \in Nat /\ sent \subseteq Nat
    BY Constants DEF TypeOK
  <2> QED BY SMTT(30), <2>1, <2>2, <2>3
<1>2. \A g \in FlowId : \A q \in flow'[g].queue : q \in flow[g].queue \/ (g = f /\ q = p)
  OBVIOUS
<1>3. /\ \A g \in FlowId : \A q \in flow[g].queue : q.id # p.id /\ q.id <= arrived + 1
      /\ p.id \notin sent /\ p.id <= arrived + 1 /\ \A x \in sent : x <= arrived + 1
  <2>1. ASSUME NEW g \in FlowId, NEW q \in flow[g].queue PROVE q.id # p.id /\ q.id <= arrived + 1
    <3>1. q.id <= arrived /\ q.id \in Nat /\ arrived \in Nat
      BY <1>1, Zenon DEF IdsOK
    <3> QED BY <3>1
  <2>2. ASSUME NEW x \in sent PROVE x # p.id /\ x <= arrived + 1
    <3>1. x <= arrived /\ x \in Nat /\ arrived \in Nat
      BY <1>1, Zenon DEF IdsOK
    <3> QED BY <3>1
  <2>3. p.id <= arrived + 1
    BY <1>1
  <2> QED BY <2>1, <2>2, <2>3, Zenon
<1>4. \A g \in FlowId : \A q \in flow'[g].queue : q.id <= arrived' /\ q.id \notin sent'
  BY <1>2, <1>3, ZenonT(30) DEF IdsOK
<1>5. ASSUME NEW g \in FlowId, NEW h \in FlowId, NEW q \in flow'[g].queue,
             NEW r \in flow'[h].queue, q.id = r.id
      PROVE  g = h /\ q = r
  <2>0. \A a, b \in FlowId : \A s \in flow[a].queue, u \in flow[b].queue :
          s.id = u.id => a = b /\ s = u
    BY Zenon DEF IdsOK
  <2>1. CASE q \in flow[g].queue /\ r \in flow[h].queue
    BY <1>5, <2>0, <2>1
  <2>2. CASE (g = f /\ q = p) /\ (h = f /\ r = p)
    BY <2>2
  <2> QED BY <1>2, <1>3, <1>5, <2>1, <2>2
<1> QED BY <1>3, <1>4, <1>5, ZenonT(30) DEF IdsOK

-----------------------------------------------------------------------------
(* What a step does to the queues *)

\* Flow f keeps its packets, and its own counter unless it is a new flow.
Same(f) ==
    /\ flow'[f].queue = flow[f].queue
    /\ flow'[f].qlen = flow[f].qlen \/ (flow'[f].queue = {} /\ flow'[f].qlen = 0)

\* No packet moves; p arrives in f; p of f is handed out; a reset frees flows.
Quiet ==
    /\ \A f \in FlowId : Same(f)
    /\ UNCHANGED <<sent, qlen>> /\ (arrived' = arrived \/ arrived' = arrived + 1)
Arrives(f, p) ==
    /\ p.id = arrived + 1 /\ flow'[f].queue = flow[f].queue \cup {p}
    /\ flow'[f].qlen = flow[f].qlen + 1 \/ (flow[f].queue = {} /\ flow'[f].qlen = 1)
    /\ \A g \in FlowId : g # f => Same(g)
    /\ qlen' = qlen + 1 /\ sent' = sent /\ arrived' = arrived + 1
Sends(f, p) ==
    /\ p \in flow[f].queue /\ flow'[f].queue = flow[f].queue \ {p}
    /\ f # fq_prio_flows => flow'[f].qlen = flow[f].qlen - 1
    /\ \A g \in FlowId : g # f => Same(g)
    /\ qlen' = qlen - 1 /\ sent' = sent \cup {p.id} /\ arrived' = arrived
Frees ==
    /\ "drain" \in {pc, pc'} /\ UNCHANGED <<sent, arrived>>
    /\ \A f \in FlowId : flow'[f] = NewNode \/ Same(f)

Moves == Quiet \/ \E f \in FlowId, p \in Packet : Arrives(f, p) \/ Sends(f, p)

\* The flow that stops being the prio flow is free.
PrioFreed == \A f \in FlowId : f = fq_prio_flows /\ f # fq_prio_flows' => flow'[f] = NewNode

\* A node that is as it was, but for its credit, age and times, or is new.
LEMMA SameNode ==
    ASSUME NEW f, \/ flow'[f].queue = flow[f].queue /\ flow'[f].qlen = flow[f].qlen
                  \/ flow[f].queue = {} /\ flow'[f] = NewNode
    PROVE  Same(f)
BY DEF Same, NewNode

\* An enqueue brings its packet to one flow, or drops it.
LEMMA EnqueueMoves ==
    ASSUME TypeOK, FlowInv, NEW c \in Hash \cup {Prio},
           NEW t \in 0..(now + Horizon + 1), NEW n \in PktLen, bpf_fq_enqueue(c, t, n)
    PROVE  Moves
<1>1. /\ arrived' = arrived + 1 /\ sent' = sent /\ pc = "idle"
      /\ UNCHANGED <<fq_prio_flows, fq_delayed>>
  BY DEF bpf_fq_enqueue
<1>2. Dropped \/ Brought
  BY EnqueueCases, ZenonT(30)
<1>3. ASSUME NEW h \in FlowId, NEW g, flow' = Objects(g), g[h] = flow[h],
             h \in In(fq_flows) => h \in In(fq_flows')
      PROVE  Same(h)
  <2>1. /\ h \in In(fq_flows') \cup fq_delayed' => flow'[h] = g[h]
        /\ h = fq_prio_flows' => flow'[h] = g[h]
        /\ flow'[h] = g[h] \/ flow'[h] = NewNode
    BY Zenon, <1>3, ObjectsFacts
  <2>2. FlowOK(h)
    BY Zenon DEF FlowInv
  <2>3. flow'[h] = flow[h] \/ (flow[h].queue = {} /\ flow'[h] = NewNode)
    BY Zenon, <1>1, <1>3, <2>1, <2>2 DEF FlowOK
  <2> QED BY Zenon, <2>3, SameNode
<1>4. CASE Dropped
  <2>1. flow' = Objects(flow) /\ fq_flows' = fq_flows /\ qlen' = qlen
    BY <1>4 DEF Dropped, Drop, sch
  <2>2. \A f \in FlowId : Same(f)
    BY Zenon, <1>3, <2>1
  <2> QED BY Zenon, <1>1, <2>1, <2>2 DEF Moves, Quiet
<1>5. CASE Brought
  <2>1. PICK f \in FlowId, m \in Maps, g \in [FlowId -> Node], p \in Packet,
             cls \in Hash \cup {Prio} :
          /\ ToFlow(f, cls, m, g, p) /\ p.id = arrived + 1
          /\ StashedFlow(f, cls, m, g) \/ FreshFlow(f, cls, m, g)
    BY <1>5, Zenon DEF Brought
  <2>2. PICK node \in Node : /\ flow' = Objects([g EXCEPT ![f] = node])
                             /\ Queued(f, g, p, node) /\ Listed(f, cls, g, node)
    BY <2>1, ToFlowCases, Zenon
  <2>3. /\ f = fq_prio_flows <=> cls = Prio
        /\ CreditOK(g[f])
        /\ \A h \in FlowId : h # f => g[h] = flow[h]
        /\ f \in In(fq_flows) => g[f].age = 0
        /\ f \in fq_delayed => /\ g[f].age = Throttled /\ g[f].queue # {}
                               /\ time_next_delayed_flow <= g[f].time_next_packet
        /\ f \notin In(fq_flows) \cup fq_delayed =>
             fq_flow_is_detached(g[f]) /\ (cls # Prio => g[f].queue = {})
        /\ \A h \in Hash : m[h] # Absent => m[h] # fq_prio_flows
    BY <1>1, <2>1, Chosen, ZenonT(30)
  <2>4. /\ g[f].queue = flow[f].queue
        /\ g[f].qlen = flow[f].qlen \/ (flow[f].queue = {} /\ g[f].qlen = 0)
    <3>1. CASE StashedFlow(f, cls, m, g)
      BY Zenon, <3>1 DEF StashedFlow
    <3>2. CASE FreshFlow(f, cls, m, g)
      <4>1. f \notin In(fq_flows) \cup fq_delayed /\ f # fq_prio_flows
        BY SMTT(30), <3>2 DEF FreshFlow, Live, Placed, Stashed, In
      <4>2. FlowOK(f)
        BY Zenon DEF FlowInv
      <4>3. flow[f].queue = {}
        BY Zenon, <4>1, <4>2 DEF FlowOK
      <4>4. g[f] = NewNode
        BY <3>2 DEF FreshFlow, TypeOK
      <4> QED BY <4>3, <4>4 DEF NewNode
    <3> QED BY Zenon, <2>1, <3>1, <3>2
  <2>5. \A h \in FlowId : h \in In(fq_flows) => h \in In(fq_flows')
    <3>1. CASE fq_flows' = fq_flows
      BY <3>1
    <3>2. CASE fq_flow_is_detached(g[f]) /\ fq_flows' = fq_flows_add_tail(fq_flows, "new", f)
      <4>1. fq_flows \in [{"new", "old"} -> Seq(FlowId)] /\ "new" \in {"new", "old"}
        BY DEF TypeOK
      <4>2. f \notin In(fq_flows)
        BY Zenon, <2>3, <3>2 DEF fq_flow_is_detached
      <4>3. In(fq_flows') = In(fq_flows) \cup {f}
        BY Zenon, <3>2, <4>1, <4>2, AddFacts DEF FlowInv
      <4> QED BY SMTT(30), <4>3
    <3> QED BY Zenon, <2>2, <3>1, <3>2 DEF Listed, fq_flows_add_tail
  <2> DEFINE gg == [g EXCEPT ![f] = node]
  <2>6. gg[f] = node /\ \A h \in FlowId : h # f => gg[h] = flow[h]
    BY Zenon, <2>3
  <2>7. flow' = Objects(gg)
    BY Zenon, <2>2
  <2> HIDE DEF gg
  <2>8. \A h \in FlowId : h # f => Same(h)
    BY Zenon, <1>3, <2>5, <2>6, <2>7
  <2>9. flow'[f] = node
    <3>1. fq_nonprio_flows' = m
      BY <2>1, ToFlowCases, Zenon
    <3>2. f = fq_prio_flows' \/ \E h \in Hash : fq_nonprio_flows'[h] = f
      BY Zenon, <1>1, <2>1, <3>1 DEF StashedFlow, FreshFlow
    <3>3. f \in Live'
      BY <3>2 DEF Live, Stashed
    <3> QED BY <2>6, <2>7, <3>3 DEF Objects
  <2>10. CASE node.queue = g[f].queue /\ node.qlen = g[f].qlen /\ UNCHANGED sch
    <3>1. qlen' = qlen /\ Same(f)
      BY <2>4, <2>9, <2>10 DEF sch, Same
    <3> QED BY Zenon, <1>1, <2>8, <3>1 DEF Moves, Quiet
  <2>11. CASE /\ node.queue = g[f].queue \cup {p} /\ node.qlen = g[f].qlen + 1
              /\ qlen' = qlen + 1
    <3>1. /\ flow'[f].queue = flow[f].queue \cup {p}
          /\ flow'[f].qlen = flow[f].qlen + 1 \/ (flow[f].queue = {} /\ flow'[f].qlen = 1)
      BY <2>4, <2>9, <2>11
    <3>2. Arrives(f, p)
      BY Zenon, <1>1, <2>1, <2>8, <2>11, <3>1 DEF Arrives
    <3> QED BY Zenon, <3>2 DEF Moves
  <2> QED BY Zenon, <2>2, <2>10, <2>11 DEF Queued
<1> QED BY <1>2, <1>4, <1>5

\* A dequeue that hands out the first packet of f.
LEMMA HandOut ==
    ASSUME TypeOK, NEW f \in FlowId, flow[f].queue # {},
           Return(skbn_first(flow[f].queue)),
           flow'[f].queue = flow[f].queue \ {skbn_first(flow[f].queue)},
           f # fq_prio_flows => flow'[f].qlen = flow[f].qlen - 1,
           \A g \in FlowId : g # f => flow'[g] = flow[g]
    PROVE  Moves
<1> DEFINE p == skbn_first(flow[f].queue)
<1>1. p \in flow[f].queue /\ p \in Packet
  BY TakeTypes, ZenonT(30)
<1>2. sent' = sent \cup {p.id} /\ arrived' = arrived /\ qlen' = qlen - 1
  BY Zenon DEF Return
<1>3. \A g \in FlowId : g # f => Same(g)
  BY Zenon, SameNode
<1>4. Sends(f, p)
  BY Zenon, <1>1, <1>2, <1>3 DEF Sends
<1> QED BY Zenon, <1>1, <1>4 DEF Moves

\* The only flow a change of one node concerns.
LEMMA OneNode ==
    ASSUME TypeOK, NEW f \in FlowId, UNCHANGED <<sent, arrived, qlen>>,
           \A h \in FlowId : h # f => flow'[h] = flow[h],
           flow'[f].queue = flow[f].queue, flow'[f].qlen = flow[f].qlen
    PROVE  Moves
<1>1. \A h \in FlowId : Same(h)
  BY Zenon, SameNode
<1> QED BY Zenon, <1>1 DEF Moves, Quiet

LEMMA NothingMoves ==
    ASSUME UNCHANGED <<flow, sent, arrived, qlen>>
    PROVE  Moves
<1>1. \A h \in FlowId : Same(h)
  BY Zenon, SameNode
<1> QED BY Zenon, <1>1 DEF Moves, Quiet

\* Every step moves packets in one of these ways.
LEMMA MovesStep ==
    ASSUME TypeOK, FlowInv, pc = "down" => qlen = 0, [Next]_vars
    PROVE  (Moves \/ Frees) /\ PrioFreed
<1>0. fq_prio_flows' = fq_prio_flows => PrioFreed
  BY DEF PrioFreed
<1>1. ASSUME NEW c \in Hash \cup {Prio}, NEW t \in 0..(now + Horizon + 1), NEW n \in PktLen,
             bpf_fq_enqueue(c, t, n)
      PROVE  Moves /\ PrioFreed
  <2>1. Moves
    BY Zenon, <1>1, EnqueueMoves
  <2>2. fq_prio_flows' = fq_prio_flows
    BY <1>1 DEF bpf_fq_enqueue
  <2> QED BY <1>0, <2>1, <2>2
<1>2. ASSUME bpf_fq_init PROVE Moves /\ PrioFreed
  <2>1. /\ fq_prio_flows' \in FlowId /\ fq_prio_flows' \notin Live /\ pc = "down" /\ qlen' = 0
        /\ UNCHANGED <<fq_nonprio_flows, fq_flows, fq_delayed, sent, arrived>>
        /\ flow' = Objects([flow EXCEPT ![fq_prio_flows'] = NewNode])
    BY <1>2 DEF bpf_fq_init
  <2> DEFINE x == fq_prio_flows'
             g == [flow EXCEPT ![x] = NewNode]
  <2>2. ASSUME NEW f \in FlowId PROVE Same(f)
    <3>1. g[f] = IF f = x THEN NewNode ELSE flow[f]
      BY DEF TypeOK
    <3>2. /\ f \in In(fq_flows') \cup fq_delayed' => flow'[f] = g[f]
          /\ flow'[f] = g[f] \/ flow'[f] = NewNode
      BY Zenon, <2>1, ObjectsFacts
    <3>3. FlowOK(f) /\ (f = fq_prio_flows => flow[f].queue = {})
      BY Zenon, <2>1, Constants DEF FlowInv
    <3>4. x \notin In(fq_flows) \cup fq_delayed /\ x # fq_prio_flows
      BY <2>1 DEF Live, Placed, Stashed, In
    <3> HIDE DEF g, x
    <3>5. f \notin In(fq_flows) \cup fq_delayed => flow[f].queue = {}
      BY Zenon, <3>3 DEF FlowOK
    <3>6. flow'[f] = flow[f] \/ (flow[f].queue = {} /\ flow'[f] = NewNode)
      BY <2>1, <3>1, <3>2, <3>4, <3>5
    <3> QED BY Zenon, <3>6, SameNode
  <2>3. Moves
    BY Zenon, <2>1, <2>2 DEF Moves, Quiet
  <2>4. ASSUME NEW f \in FlowId, f = fq_prio_flows, f # x PROVE flow'[f] = NewNode
    <3>1. f \notin In(fq_flows) \cup fq_delayed /\ \A h \in Hash : fq_nonprio_flows[h] # f
      BY <2>4, Constants DEF FlowInv, PrioApart
    <3>2. f \notin Live'
      BY <2>1, <2>4, <3>1 DEF Live, Placed, Stashed, In
    <3> QED BY Zenon, <2>1, <3>2, ObjectsFacts
  <2> QED BY Zenon, <2>3, <2>4 DEF PrioFreed
<1>3. ASSUME bpf_fq_dequeue PROVE Moves /\ PrioFreed
  <2>1. fq_prio_flows' = fq_prio_flows
    BY <1>3 DEF bpf_fq_dequeue
  <2>2. CASE fq_dequeue_prio
    <3> DEFINE x == fq_prio_flows
               p == skbn_first(flow[x].queue)
    <3>1. /\ x \in FlowId /\ flow[x].queue # {} /\ Return(p)
          /\ flow' = [flow EXCEPT ![x].queue = @ \ {p}]
      BY <2>2 DEF fq_dequeue_prio, TypeOK
    <3>2. flow \in [FlowId -> Node]
      BY DEF TypeOK
    <3>3. flow'[x].queue = flow[x].queue \ {p} /\ \A g \in FlowId : g # x => flow'[g] = flow[g]
      <4> HIDE DEF p
      <4> QED BY <3>1, <3>2 DEF Node
    <3> QED BY Zenon, <1>0, <2>1, <3>1, <3>3, HandOut
  <2>3. CASE UNCHANGED <<flow, sent, arrived, qlen>>
    BY <1>0, <2>1, <2>3, NothingMoves
  <2> QED BY <1>3, <2>2, <2>3, Zenon DEF bpf_fq_dequeue, ReturnNull, fq_check_throttled, history, sch
<1>4. ASSUME fq_unset_throttled_flows PROVE Moves /\ PrioFreed
  <2>1. UNCHANGED <<sent, arrived, qlen, fq_prio_flows>>
    BY <1>4 DEF fq_unset_throttled_flows, sch
  <2>2. CASE flow' = flow
    BY <1>0, <2>1, <2>2, NothingMoves
  <2>3. ASSUME NEW f \in fq_delayed, flow' = [flow EXCEPT ![f].age = 0] PROVE Moves
    <3>1. flow \in [FlowId -> Node] /\ f \in FlowId
      BY DEF TypeOK
    <3>2. /\ flow'[f].queue = flow[f].queue /\ flow'[f].qlen = flow[f].qlen
          /\ \A h \in FlowId : h # f => flow'[h] = flow[h]
      BY <2>3, <3>1 DEF Node
    <3> QED BY Zenon, <2>1, <3>1, <3>2, OneNode
  <2>4. flow' = flow \/ \E f \in fq_delayed : flow' = [flow EXCEPT ![f].age = 0]
    BY <1>4, Zenon DEF fq_unset_throttled_flows
  <2> QED BY Zenon, <1>0, <2>1, <2>2, <2>3, <2>4
<1>5. ASSUME NEW l, NEW f, NEW fs, NEW n, Front(l, f, fs),
             OutOfCredit(f, fs, n) \/ fq_flow_set_throttled(f, fs, n)
      PROVE  Moves
  <2>1. f \in FlowId /\ flow[f] \in Node /\ flow \in [FlowId -> Node]
    BY <1>5, FrontFacts, Zenon
  <2>2. UNCHANGED <<sent, arrived, qlen>>
    BY <1>5 DEF OutOfCredit, fq_flow_set_throttled, Continue, history, sch
  <2>3. /\ flow'[f].queue = flow[f].queue /\ flow'[f].qlen = flow[f].qlen
        /\ \A h \in FlowId : h # f => flow'[h] = flow[h]
    <3>1. CASE flow' = [flow EXCEPT ![f].credit = @ + Quantum]
      BY <2>1, <3>1 DEF Node
    <3>2. ASSUME NEW x, flow' = [flow EXCEPT ![f].time_next_packet = x, ![f].age = Throttled]
          PROVE  /\ flow'[f].queue = flow[f].queue /\ flow'[f].qlen = flow[f].qlen
                 /\ \A h \in FlowId : h # f => flow'[h] = flow[h]
      BY <2>1, <3>2 DEF Node
    <3> QED BY Zenon, <1>5, <3>1, <3>2 DEF OutOfCredit, fq_flow_set_throttled
  <2> QED BY Zenon, <2>1, <2>2, <2>3, OneNode
<1>6. ASSUME NEW l, NEW f, NEW fs, NEW n, Front(l, f, fs), EmptyFlow(l, f, fs, n),
             fq_prio_flows' = fq_prio_flows
      PROVE  Moves
  <2>1. /\ f \in FlowId /\ flow[f] \in Node /\ flow \in [FlowId -> Node]
        /\ In(fs) = In(fq_flows) \ {f}
    BY <1>6, FrontFacts, Zenon
  <2>2. UNCHANGED <<sent, arrived, qlen, fq_delayed>> /\ flow[f].queue = {}
    BY <1>6 DEF EmptyFlow, Continue, history, sch
  <2>3. CASE flow' = flow
    BY <2>2, <2>3, NothingMoves
  <2>4. CASE fq_flows' = fs /\ flow' = Objects([flow EXCEPT ![f].age = now])
    <3> DEFINE g == [flow EXCEPT ![f].age = now]
    <3>1. ASSUME NEW h \in FlowId PROVE Same(h)
      <4>1. g[h].queue = flow[h].queue /\ g[h].qlen = flow[h].qlen
        BY <2>1 DEF Node
      <4>2. /\ h \in In(fq_flows') \cup fq_delayed' => flow'[h] = g[h]
            /\ h = fq_prio_flows' => flow'[h] = g[h]
            /\ flow'[h] = g[h] \/ flow'[h] = NewNode
        BY Zenon, <2>4, ObjectsFacts
      <4> HIDE DEF g
      <4>3. FlowOK(h)
        BY DEF FlowInv
      <4>4. flow'[h] = g[h] \/ (flow[h].queue = {} /\ flow'[h] = NewNode)
        <5>1. CASE h = f
          BY Zenon, <2>2, <4>2, <5>1
        <5>2. CASE h # f
          <6>1. h \in In(fq_flows) \cup fq_delayed => h \in In(fq_flows') \cup fq_delayed'
            BY <2>1, <2>2, <2>4, <5>2
          <6> QED BY Zenon, <1>6, <4>2, <4>3, <6>1 DEF FlowOK
        <5> QED BY <5>1, <5>2
      <4> QED BY Zenon, <4>1, <4>4, SameNode
    <3> QED BY Zenon, <2>2, <3>1 DEF Moves, Quiet
  <2> QED BY <1>6, <2>3, <2>4 DEF EmptyFlow
<1>7. ASSUME NEW l, NEW f, NEW fs, Front(l, f, fs), SendFirst(f)
      PROVE  Moves
  <2>1. f \in FlowId /\ flow[f] \in Node /\ flow \in [FlowId -> Node]
    BY <1>7, FrontFacts, Zenon
  <2> DEFINE p == skbn_first(flow[f].queue)
  <2>2. flow[f].queue # {} /\ Return(p)
    BY <1>7 DEF SendFirst
  <2>3. /\ flow'[f].queue = flow[f].queue \ {p} /\ flow'[f].qlen = flow[f].qlen - 1
        /\ \A g \in FlowId : g # f => flow'[g] = flow[g]
    BY <1>7, <2>1 DEF SendFirst, Node
  <2> QED BY Zenon, <2>1, <2>2, <2>3, HandOut
<1>8. ASSUME fq_dequeue_nonprio_flows PROVE Moves /\ PrioFreed
  <2>1. fq_prio_flows' = fq_prio_flows
    BY <1>8 DEF fq_dequeue_nonprio_flows
  <2>2. ASSUME NEW x, ReturnNull(x), flow' = flow PROVE Moves
    <3>1. UNCHANGED <<sent, arrived, qlen>>
      BY <2>2 DEF ReturnNull, sch
    <3> QED BY <2>2, <3>1, NothingMoves
  <2>3. ASSUME NEW l \in {"new", "old"}, fq_flows[l] # <<>>,
               LET f == Head(fq_flows[l])
                   fs == [fq_flows EXCEPT ![l] = Tail(@)]
                   n == [flow_cnt EXCEPT ![l] = @ - 1]
               IN \/ OutOfCredit(f, fs, n) \/ EmptyFlow(l, f, fs, n)
                  \/ fq_flow_set_throttled(f, fs, n) \/ SendFirst(f)
        PROVE  Moves
    <3> DEFINE f == Head(fq_flows[l])
               fs == [fq_flows EXCEPT ![l] = Tail(@)]
    <3>1. Front(l, f, fs)
      BY <2>3 DEF Front
    <3> HIDE DEF f, fs
    <3> QED BY <1>5, <1>6, <1>7, <2>1, <2>3, <3>1, ZenonT(30) DEF f, fs
  <2>4. ASSUME NEW l \in {"new", "old"}, NoFront(l) PROVE Moves
    BY <2>2, <2>4, Zenon DEF NoFront
  <2>5. Moves
    BY <1>8, <2>2, <2>3, <2>4, ZenonT(30) DEF fq_dequeue_nonprio_flows
  <2> QED BY <1>0, <2>1, <2>5
<1>9. ASSUME NEW d, bpf_fq_reset(d) PROVE Frees /\ PrioFreed
  <2> DEFINE g == [f \in FlowId |-> IF f = fq_prio_flows' THEN NewNode ELSE flow[f]]
  <2>1. /\ UNCHANGED <<sent, arrived, fq_flows, fq_delayed>> /\ pc' = "drain" /\ flow' = Objects(g)
        /\ \A h \in Hash : fq_nonprio_flows'[h] = Absent
    BY SMTT(30), <1>9 DEF bpf_fq_reset
  <2>2. ASSUME NEW f \in FlowId PROVE flow'[f] = NewNode \/ Same(f)
    <3>1. flow'[f] = g[f] \/ flow'[f] = NewNode
      BY Zenon, <2>1, ObjectsFacts
    <3>2. g[f] = NewNode \/ g[f] = flow[f]
      OBVIOUS
    <3> HIDE DEF g
    <3> QED BY Zenon, <3>1, <3>2, SameNode
  <2>3. ASSUME NEW f \in FlowId, f = fq_prio_flows, f # fq_prio_flows' PROVE flow'[f] = NewNode
    <3>1. f \notin In(fq_flows) \cup fq_delayed
      BY <2>3 DEF FlowInv
    <3>2. f \notin Live'
      BY <2>1, <2>3, <3>1, Constants DEF Live, Placed, Stashed, In
    <3> QED BY Zenon, <2>1, <3>2, ObjectsFacts
  <2> QED BY Zenon, <2>1, <2>2, <2>3 DEF Frees, PrioFreed
<1>10. ASSUME fq_remove_flows_in_list PROVE Frees /\ PrioFreed
  <2>1. /\ UNCHANGED <<sent, arrived, fq_prio_flows>> /\ pc = "drain"
        /\ flow' = flow \/ flow' = Objects(flow)
    BY <1>10 DEF fq_remove_flows_in_list, history
  <2>2. ASSUME NEW f \in FlowId PROVE flow'[f] = NewNode \/ Same(f)
    <3>1. flow'[f] = flow[f] \/ flow'[f] = NewNode
      BY Zenon, <2>1, ObjectsFacts
    <3> QED BY Zenon, <3>1, SameNode
  <2> QED BY Zenon, <1>0, <2>1, <2>2 DEF Frees
<1>11. ASSUME RoundsOver \/ Tick \/ Watchdog \/ UNCHANGED vars PROVE Moves /\ PrioFreed
  <2>1. UNCHANGED <<flow, sent, arrived, qlen, fq_prio_flows>>
    BY <1>11 DEF RoundsOver, ReturnNull, Tick, Watchdog, vars, history, sch
  <2> QED BY <1>0, <2>1, NothingMoves
<1> QED BY <1>1, <1>2, <1>3, <1>4, <1>8, <1>9, <1>10, <1>11, Zenon DEF Next, Dequeue

\* Packets stay in their flow, are handed out, or a reset frees them.
Kept ==
    \A f \in FlowId : \A p \in flow[f].queue :
        p \in flow'[f].queue \/ p.id \in sent' \/ "drain" \in {pc, pc'}

\* However packets move, their numbers stay apart.
LEMMA IdsStep ==
    ASSUME TypeOK, IdsOK, Moves \/ Frees
    PROVE  IdsOK' /\ Kept
<1>1. CASE Quiet
  <2>1. \A f \in FlowId : flow'[f].queue = flow[f].queue
    BY Zenon, <1>1 DEF Quiet, Same
  <2>2. Kept
    BY Zenon, <2>1 DEF Kept
  <2>3. sent' = sent /\ (arrived' = arrived \/ arrived' = arrived + 1)
    BY <1>1 DEF Quiet
  <2> QED BY Zenon, <2>1, <2>2, <2>3, IdsShrink
<1>2. ASSUME NEW f \in FlowId, NEW p \in Packet, Arrives(f, p) PROVE IdsOK' /\ Kept
  <2>1. /\ \A g \in FlowId : g # f => flow'[g].queue = flow[g].queue
        /\ flow'[f].queue = flow[f].queue \cup {p}
        /\ p.id = arrived + 1 /\ sent' = sent /\ arrived' = arrived + 1
    BY Zenon, <1>2 DEF Arrives, Same
  <2>2. Kept
    <3> SUFFICES ASSUME NEW g \in FlowId, NEW q \in flow[g].queue PROVE q \in flow'[g].queue
      BY Zenon DEF Kept
    <3> QED BY <2>1
  <2> QED BY Zenon, <2>1, <2>2, IdsArrive
<1>3. ASSUME NEW f \in FlowId, NEW p \in Packet, Sends(f, p) PROVE IdsOK' /\ Kept
  <2>1. /\ \A g \in FlowId : g # f => flow'[g].queue = flow[g].queue
        /\ p \in flow[f].queue /\ flow'[f].queue = flow[f].queue \ {p}
        /\ sent' = sent \cup {p.id} /\ arrived' = arrived
    BY Zenon, <1>3 DEF Sends, Same
  <2>2. Kept
    <3> SUFFICES ASSUME NEW g \in FlowId, NEW q \in flow[g].queue
                 PROVE  q \in flow'[g].queue \/ q.id \in sent'
      BY Zenon DEF Kept
    <3> QED BY <2>1
  <2> QED BY Zenon, <2>1, <2>2, IdsReturn
<1>4. CASE Frees
  <2>1. ASSUME NEW f \in FlowId PROVE flow'[f].queue \subseteq flow[f].queue
    <3>1. flow'[f] = NewNode \/ flow'[f].queue = flow[f].queue
      BY Zenon, <1>4 DEF Frees, Same
    <3> QED BY <3>1, NewNodeFacts
  <2>2. sent' = sent /\ arrived' = arrived
    BY <1>4 DEF Frees
  <2>3. Kept
    BY Zenon, <1>4 DEF Frees, Kept
  <2> QED BY Zenon, <2>1, <2>2, <2>3, IdsShrink
<1> QED BY Zenon, <1>1, <1>2, <1>3, <1>4 DEF Moves

-----------------------------------------------------------------------------
(* The counters of packets *)

\* A finite set that gains or loses an element.
LEMMA OneMore ==
    ASSUME NEW S, S \subseteq Packet, NEW x \in Packet
    PROVE  /\ IsFiniteSet(S) /\ Cardinality(S) \in Nat
           /\ Cardinality(S) = 0 <=> S = {}
           /\ x \notin S => Cardinality(S \cup {x}) = Cardinality(S) + 1
           /\ x \in S => Cardinality(S \ {x}) = Cardinality(S) - 1
<1>1. IsFiniteSet(S)
  BY Zenon, PacketFinite, FS_Subset
<1>2. Cardinality(S) \in Nat
  BY Zenon, <1>1, FS_CardinalityType
<1>3. Cardinality(S) = 0 <=> S = {}
  BY Zenon, <1>1, FS_EmptySet
<1>4. x \notin S => Cardinality(S \cup {x}) = Cardinality(S) + 1
  BY <1>1, FS_AddElement
<1>5. x \in S => Cardinality(S \ {x}) = Cardinality(S) - 1
  BY <1>1, FS_RemoveElement
<1> QED BY <1>1, <1>2, <1>3, <1>4, <1>5

\* A flow's own counter is right, but for the prio flow's.
FlowCounts == \A f \in FlowId : f # fq_prio_flows => flow[f].qlen = Cardinality(flow[f].queue)

LEMMA FlowCountsStep ==
    ASSUME TypeOK, IdsOK, FlowCounts, Moves \/ Frees, PrioFreed
    PROVE  FlowCounts'
<1>0. \A f \in FlowId : flow[f].queue \subseteq Packet /\ flow[f].qlen \in Int
  BY DEF TypeOK, Node
<1>1. Cardinality({}) = 0
  BY FS_EmptySet
<1>2. ASSUME NEW f \in FlowId, flow'[f] = NewNode PROVE flow'[f].qlen = Cardinality(flow'[f].queue)
  BY <1>1, <1>2 DEF NewNode
<1>3. ASSUME NEW f \in FlowId, Same(f), f # fq_prio_flows'
      PROVE  flow'[f].qlen = Cardinality(flow'[f].queue)
  <2>1. CASE f = fq_prio_flows
    BY Zenon, <1>2, <1>3, <2>1 DEF PrioFreed
  <2>2. CASE f # fq_prio_flows
    <3>1. flow[f].qlen = Cardinality(flow[f].queue)
      BY Zenon, <2>2 DEF FlowCounts
    <3> QED BY <1>1, <1>3, <3>1 DEF Same
  <2> QED BY <2>1, <2>2
<1>4. CASE Quiet
  BY Zenon, <1>3, <1>4 DEF Quiet, FlowCounts
<1>5. CASE Frees
  BY Zenon, <1>2, <1>3, <1>5 DEF Frees, FlowCounts
<1>6. ASSUME NEW f \in FlowId, NEW p \in Packet, Arrives(f, p) PROVE FlowCounts'
  <2>1. /\ p.id = arrived + 1 /\ flow'[f].queue = flow[f].queue \cup {p}
        /\ flow'[f].qlen = flow[f].qlen + 1 \/ (flow[f].queue = {} /\ flow'[f].qlen = 1)
        /\ \A g \in FlowId : g # f => Same(g)
    BY Zenon, <1>6 DEF Arrives
  <2>2. p \notin flow[f].queue
    <3> SUFFICES ASSUME p \in flow[f].queue PROVE FALSE
      OBVIOUS
    <3>1. p.id <= arrived /\ arrived \in Nat
      BY Constants DEF IdsOK, TypeOK
    <3> QED BY <2>1, <3>1
  <2>3. ASSUME f # fq_prio_flows' PROVE flow'[f].qlen = Cardinality(flow'[f].queue)
    <3>1. Cardinality(flow'[f].queue) = Cardinality(flow[f].queue) + 1
      BY <1>0, <2>1, <2>2, OneMore
    <3>2. CASE f = fq_prio_flows
      BY Zenon, <1>2, <2>3, <3>2 DEF PrioFreed
    <3>3. CASE f # fq_prio_flows
      <4>1. flow[f].qlen = Cardinality(flow[f].queue)
        BY Zenon, <3>3 DEF FlowCounts
      <4> QED BY <1>1, <2>1, <3>1, <4>1
    <3> QED BY <3>2, <3>3
  <2> QED BY Zenon, <1>3, <2>1, <2>3 DEF FlowCounts
<1>7. ASSUME NEW f \in FlowId, NEW p \in Packet, Sends(f, p) PROVE FlowCounts'
  <2>1. /\ p \in flow[f].queue /\ flow'[f].queue = flow[f].queue \ {p}
        /\ f # fq_prio_flows => flow'[f].qlen = flow[f].qlen - 1
        /\ \A g \in FlowId : g # f => Same(g)
    BY Zenon, <1>7 DEF Sends
  <2>2. ASSUME f # fq_prio_flows' PROVE flow'[f].qlen = Cardinality(flow'[f].queue)
    <3>1. Cardinality(flow'[f].queue) = Cardinality(flow[f].queue) - 1
      BY <1>0, <2>1, OneMore
    <3>2. CASE f = fq_prio_flows
      BY Zenon, <1>2, <2>2, <3>2 DEF PrioFreed
    <3>3. CASE f # fq_prio_flows
      <4>1. flow[f].qlen = Cardinality(flow[f].queue)
        BY Zenon, <3>3 DEF FlowCounts
      <4> QED BY <2>1, <3>1, <3>3, <4>1
    <3> QED BY <3>2, <3>3
  <2> QED BY Zenon, <1>3, <2>1, <2>2 DEF FlowCounts
<1> QED BY Zenon, <1>4, <1>5, <1>6, <1>7 DEF Moves

\* The packets of all flows, and what a move does to their number.
AllPackets == UNION {flow[f].queue : f \in FlowId}

LEMMA AllMoves ==
    ASSUME TypeOK, IdsOK, Moves
    PROVE  Cardinality(AllPackets') = Cardinality(AllPackets) + (qlen' - qlen)
<1>0. AllPackets \subseteq Packet /\ qlen \in Nat
  BY DEF TypeOK, Node, AllPackets
<1>1. CASE Quiet
  <2>1. AllPackets' = AllPackets
    BY Zenon, <1>1 DEF Quiet, Same, AllPackets
  <2>2. qlen' = qlen
    BY <1>1 DEF Quiet
  <2>3. Cardinality(AllPackets) \in Nat
    BY Zenon, <1>0, PacketFinite, FS_Subset, FS_CardinalityType
  <2> QED BY <1>0, <2>1, <2>2, <2>3
<1>2. ASSUME NEW f \in FlowId, NEW p \in Packet, Arrives(f, p)
      PROVE  Cardinality(AllPackets') = Cardinality(AllPackets) + (qlen' - qlen)
  <2>1. /\ p.id = arrived + 1 /\ flow'[f].queue = flow[f].queue \cup {p}
        /\ \A g \in FlowId : g # f => flow'[g].queue = flow[g].queue
        /\ qlen' = qlen + 1
    BY Zenon, <1>2 DEF Arrives, Same
  <2>2. AllPackets' = AllPackets \cup {p}
    <3>1. ASSUME NEW q \in AllPackets' PROVE q \in AllPackets \cup {p}
      <4>1. PICK g \in FlowId : q \in flow'[g].queue
        BY Zenon DEF AllPackets
      <4> QED BY Zenon, <2>1, <4>1 DEF AllPackets
    <3>2. ASSUME NEW q \in AllPackets \cup {p} PROVE q \in AllPackets'
      <4>1. CASE q = p
        BY Zenon, <2>1, <4>1 DEF AllPackets
      <4>2. ASSUME NEW g \in FlowId, q \in flow[g].queue PROVE q \in AllPackets'
        BY Zenon, <2>1, <4>2 DEF AllPackets
      <4> QED BY Zenon, <4>1, <4>2 DEF AllPackets
    <3> QED BY <3>1, <3>2
  <2>3. p \notin AllPackets
    <3> SUFFICES ASSUME NEW g \in FlowId, p \in flow[g].queue PROVE FALSE
      BY Zenon DEF AllPackets
    <3>1. p.id <= arrived /\ arrived \in Nat
      BY Constants DEF IdsOK, TypeOK
    <3> QED BY <2>1, <3>1
  <2>4. Cardinality(AllPackets \cup {p}) = Cardinality(AllPackets) + 1
    BY Zenon, <1>0, <2>3, OneMore
  <2> QED BY <1>0, <2>1, <2>2, <2>4
<1>3. ASSUME NEW f \in FlowId, NEW p \in Packet, Sends(f, p)
      PROVE  Cardinality(AllPackets') = Cardinality(AllPackets) + (qlen' - qlen)
  <2>1. /\ p \in flow[f].queue /\ flow'[f].queue = flow[f].queue \ {p}
        /\ \A g \in FlowId : g # f => flow'[g].queue = flow[g].queue
        /\ qlen' = qlen - 1
    BY Zenon, <1>3 DEF Sends, Same
  <2>2. \A g \in FlowId : g # f => p \notin flow[g].queue
    BY Zenon, <2>1 DEF IdsOK
  <2>3. AllPackets' = AllPackets \ {p}
    <3>1. ASSUME NEW q \in AllPackets' PROVE q \in AllPackets \ {p}
      <4>1. PICK g \in FlowId : q \in flow'[g].queue
        BY Zenon DEF AllPackets
      <4>2. q \in flow[g].queue /\ q # p
        BY <2>1, <2>2, <4>1
      <4> QED BY Zenon, <4>2 DEF AllPackets
    <3>2. ASSUME NEW q \in AllPackets \ {p} PROVE q \in AllPackets'
      <4>1. PICK g \in FlowId : q \in flow[g].queue
        BY Zenon DEF AllPackets
      <4>2. q \in flow'[g].queue
        BY <2>1, <4>1
      <4> QED BY Zenon, <4>2 DEF AllPackets
    <3> QED BY <3>1, <3>2
  <2>4. p \in AllPackets
    BY Zenon, <2>1 DEF AllPackets
  <2>5. Cardinality(AllPackets \ {p}) = Cardinality(AllPackets) - 1 /\ Cardinality(AllPackets) \in Nat
    BY Zenon, <1>0, <2>4, OneMore
  <2> QED BY <1>0, <2>1, <2>3, <2>5
<1> QED BY Zenon, <1>1, <1>2, <1>3 DEF Moves

\* Between two operations and in a dequeue, left stays; a reset counts it anew.
Resetting == {"drain", "unset_all"}
LEMMA LeftStep ==
    ASSUME TypeOK, [Next]_vars
    PROVE  /\ pc' \in Resetting \cup {"down"} =>
                qlen' = 0 \/ (pc \in Resetting \cup {"down"} /\ qlen' = qlen)
           /\ pc = "drain" => pc' \in Resetting
           /\ pc = "loop" => pc' \in {"idle", "loop"}
           /\ \/ left' = left /\ (pc = "unset_all" => pc' = "unset_all")
              \/ /\ pc = "unset_all" /\ left' = Cardinality(Held(Live))
                 /\ qlen' = qlen
                 /\ UNCHANGED <<fq_prio_flows, fq_nonprio_flows, flow, fq_flows, flow_cnt, fq_delayed>>
<1> DEFINE Goal ==
             /\ pc' \in Resetting \cup {"down"} =>
                  qlen' = 0 \/ (pc \in Resetting \cup {"down"} /\ qlen' = qlen)
             /\ pc = "drain" => pc' \in Resetting
             /\ pc = "loop" => pc' \in {"idle", "loop"}
             /\ \/ left' = left /\ (pc = "unset_all" => pc' = "unset_all")
                \/ /\ pc = "unset_all" /\ left' = Cardinality(Held(Live))
                   /\ qlen' = qlen
                   /\ UNCHANGED <<fq_prio_flows, fq_nonprio_flows, flow, fq_flows, flow_cnt, fq_delayed>>
<1>1. ASSUME pc \in {"down", "idle", "unset", "loop"},
             pc' \in {"idle", "unset", "loop"}, left' = left,
             pc = "loop" => pc' # "unset"
      PROVE  Goal
  BY <1>1 DEF Resetting
<1>2. ASSUME NEW c \in Hash \cup {Prio}, NEW t \in 0..(now + Horizon + 1), NEW n \in PktLen,
             bpf_fq_enqueue(c, t, n)
      PROVE  Goal
  <2>1. pc = "idle" /\ pc' = pc /\ left' = left
    BY <1>2 DEF bpf_fq_enqueue
  <2> QED BY <1>1, <2>1
<1>3. bpf_fq_init => Goal
  BY <1>1 DEF bpf_fq_init
<1>4. bpf_fq_dequeue => Goal
  <2> SUFFICES ASSUME bpf_fq_dequeue
               PROVE  pc = "idle" /\ pc' \in {"idle", "unset", "loop"} /\ left' = left
    BY <1>1
  <2> QED BY DEF bpf_fq_dequeue, ReturnNull, fq_dequeue_prio, Return, fq_check_throttled, history
<1>5. ASSUME fq_unset_throttled_flows PROVE Goal
  <2>1. /\ pc \in {"unset", "unset_all"} /\ qlen' = qlen
        /\ UNCHANGED <<fq_prio_flows, fq_nonprio_flows>>
    BY <1>5 DEF fq_unset_throttled_flows, sch
  <2>2. CASE UNCHANGED <<pc, left>>
    BY <2>1, <2>2 DEF Resetting
  <2>3. CASE Unset /\ UNCHANGED <<flow, fq_flows, flow_cnt, fq_delayed>>
    <3>1. CASE pc = "unset"
      BY <1>1, <2>3, <3>1 DEF Unset
    <3>2. CASE pc = "unset_all"
      BY <2>1, <2>3, <3>2 DEF Unset, Resetting
    <3> QED BY <2>1, <3>1, <3>2
  <2> QED BY <1>5, <2>2, <2>3 DEF fq_unset_throttled_flows
<1>6. ASSUME fq_dequeue_nonprio_flows PROVE Goal
  <2>1. pc = "loop"
    BY <1>6 DEF fq_dequeue_nonprio_flows
  <2>2. pc' \in {"idle", "loop"} /\ left' = left
    <3>1. ASSUME NEW x, ReturnNull(x) PROVE pc' \in {"idle", "loop"} /\ left' = left
      BY <3>1 DEF ReturnNull
    <3>2. ASSUME NEW l, NoFront(l) PROVE pc' \in {"idle", "loop"} /\ left' = left
      BY <3>1, <3>2 DEF NoFront
    <3>3. ASSUME NEW p, Return(p) PROVE pc' \in {"idle", "loop"} /\ left' = left
      BY <3>3 DEF Return
    <3>4. CASE Continue
      BY <3>4 DEF Continue, history
    <3>5. ASSUME NEW l, NEW f, NEW fs, NEW n,
                 \/ OutOfCredit(f, fs, n) \/ EmptyFlow(l, f, fs, n)
                 \/ fq_flow_set_throttled(f, fs, n) \/ SendFirst(f)
          PROVE  pc' \in {"idle", "loop"} /\ left' = left
      BY Zenon, <3>3, <3>4, <3>5 DEF OutOfCredit, EmptyFlow, fq_flow_set_throttled, SendFirst
    <3> QED BY <1>6, <3>1, <3>2, <3>5, ZenonT(30) DEF fq_dequeue_nonprio_flows
  <2> QED BY <1>1, <2>1, <2>2
<1>7. ASSUME NEW d, bpf_fq_reset(d) PROVE Goal
  BY <1>7 DEF bpf_fq_reset, Resetting
<1>8. fq_remove_flows_in_list => Goal
  BY DEF fq_remove_flows_in_list, Resetting, history, sch
<1>9. RoundsOver => Goal
  BY <1>1 DEF RoundsOver, ReturnNull
<1>10. Tick \/ Watchdog \/ UNCHANGED vars => Goal
  BY DEF Tick, Watchdog, vars, history, sch, Resetting
<1> HIDE DEF Goal
<1>11. Goal
  BY <1>2, <1>3, <1>4, <1>5, <1>6, <1>7, <1>8, <1>9, <1>10, Zenon DEF Next, Dequeue
<1> QED BY <1>11 DEF Goal

\* The qdisc's counter: right but while a reset runs, which has cleared it.
QlenInv == (pc \in Resetting \cup {"down"} => qlen = 0) /\ QlenCountsPackets

LEMMA AllHeld == TypeOK /\ FlowInv => AllPackets = Held(Live)
BY HeldEverywhere DEF AllPackets

LEMMA AllHeldNext == (TypeOK /\ FlowInv)' => (AllPackets = Held(Live))'
BY AllHeld, PTL

LEMMA QlenStep ==
    ASSUME TypeOK, TypeOK', FlowInv, FlowInv', IdsOK, QlenInv, [Next]_vars
    PROVE  QlenInv'
<1>0. pc = "down" => qlen = 0
  BY DEF QlenInv
<1>1. (Moves \/ Frees) /\ PrioFreed
  BY Zenon, <1>0, MovesStep
<1>2. pc' \in Resetting \cup {"down"} => qlen' = 0
  BY LeftStep DEF QlenInv
<1>3. ASSUME pc' \notin Resetting PROVE Cardinality(Held(Live)') = qlen' + left'
  <2>1. pc # "drain"
    BY <1>3, LeftStep
  <2>2. CASE pc = "unset_all"
    <3>1. /\ left' = Cardinality(Held(Live)) /\ qlen' = qlen
          /\ UNCHANGED <<fq_prio_flows, fq_nonprio_flows, flow, fq_flows, fq_delayed>>
      BY <1>3, <2>2, LeftStep DEF Resetting
    <3>2. Held(Live)' = Held(Live)
      BY <3>1 DEF Held, Live, Placed, Stashed
    <3>3. qlen' = 0 /\ left' \in Nat
      BY <2>2, <3>1 DEF QlenInv, Resetting, TypeOK
    <3> QED BY <3>1, <3>2, <3>3
  <2>3. CASE pc # "unset_all"
    <3>1. left' = left
      BY <2>3, LeftStep
    <3>2. Moves
      <4>1. pc' # "drain"
        BY <1>3 DEF Resetting
      <4> QED BY <1>1, <2>1, <4>1 DEF Frees
    <3>3. Cardinality(AllPackets') = Cardinality(AllPackets) + (qlen' - qlen)
      BY <3>2, AllMoves
    <3>4. AllPackets = Held(Live) /\ AllPackets' = Held(Live)'
      BY AllHeld, AllHeldNext
    <3>5. Cardinality(Held(Live)) = qlen + left
      BY <2>1, <2>3 DEF QlenInv, QlenCountsPackets
    <3>6. qlen \in Nat /\ left \in Nat /\ qlen' \in Nat
      BY DEF TypeOK
    <3> QED BY <3>1, <3>3, <3>4, <3>5, <3>6
  <2> QED BY <2>2, <2>3
<1> QED BY <1>2, <1>3 DEF QlenInv, QlenCountsPackets, Resetting

\* Where the counter and left are 0, nothing is held.
LEMMA NothingHeld ==
    ASSUME TypeOK, QlenCountsPackets, pc \notin Resetting, qlen = 0, left = 0
    PROVE  \A f \in Live : flow[f].queue = {}
<1>1. Cardinality(Held(Live)) = 0
  BY DEF QlenCountsPackets, Resetting
<1>2. Held(Live) = {}
  BY Zenon, <1>1, HeldFinite, FS_EmptySet
<1> QED BY Zenon, <1>2 DEF Held

LEMMA NothingHeldNext ==
    (TypeOK /\ QlenCountsPackets /\ pc \notin Resetting /\ qlen = 0 /\ left = 0)' =>
        (\A f \in Live : flow[f].queue = {})'
<1>1. TypeOK /\ QlenCountsPackets /\ pc \notin Resetting /\ qlen = 0 /\ left = 0 =>
        \A f \in Live : flow[f].queue = {}
  BY NothingHeld
<1> QED BY <1>1, PTL

-----------------------------------------------------------------------------
(* The counters of flows *)

Exactly(fs, n) == \A l \in {"new", "old"} : n[l] = Len(fs[l])

\* A flow that joins a list or leaves its front, and its counter.
LEMMA ExactLists ==
    ASSUME NEW fs \in [{"new", "old"} -> Seq(FlowId)], NEW n \in [{"new", "old"} -> Nat],
           NEW l \in {"new", "old"}, NEW f \in FlowId, Exactly(fs, n)
    PROVE  /\ Exactly(fq_flows_add_tail(fs, l, f), [n EXCEPT ![l] = @ + 1])
           /\ fs[l] # <<>> => /\ Exactly([fs EXCEPT ![l] = Tail(@)], [n EXCEPT ![l] = @ - 1])
                              /\ [n EXCEPT ![l] = @ - 1] \in [{"new", "old"} -> Nat]
<1>1. fs[l] \in Seq(FlowId) /\ n[l] = Len(fs[l]) /\ n[l] \in Nat
  BY DEF Exactly
<1>2. Len(Append(fs[l], f)) = Len(fs[l]) + 1
  BY <1>1, AppendFacts
<1>3. fs[l] # <<>> => Len(Tail(fs[l])) = Len(fs[l]) - 1 /\ Len(fs[l]) > 0
  BY <1>1, TailFacts
<1>4. Exactly(fq_flows_add_tail(fs, l, f), [n EXCEPT ![l] = @ + 1])
  BY <1>1, <1>2 DEF Exactly, fq_flows_add_tail
<1>5. ASSUME fs[l] # <<>>
      PROVE  /\ Exactly([fs EXCEPT ![l] = Tail(@)], [n EXCEPT ![l] = @ - 1])
             /\ [n EXCEPT ![l] = @ - 1] \in [{"new", "old"} -> Nat]
  BY <1>1, <1>3, <1>5 DEF Exactly
<1> QED BY <1>4, <1>5

\* The counters of a detached qdisc are set anew at the next attachment, those
\* of a reset at the end of its first loop; the flows its second one lists
\* have packets, which is what left counts.
ListInv ==
    /\ left = 0 /\ pc # "drain" => Exactly(fq_flows, flow_cnt)
    /\ pc = "unset_all" => /\ Exactly(fq_flows, flow_cnt)
                           /\ \A f \in In(fq_flows) : flow[f].queue # {}
    /\ pc = "down" /\ left = 0 => \A l \in {"new", "old"} : fq_flows[l] = <<>>

\* A round of the dequeue's loop keeps exact counters exact.
LEMMA ExactRound ==
    ASSUME TypeOK, FlowInv, fq_dequeue_nonprio_flows, Exactly(fq_flows, flow_cnt)
    PROVE  Exactly(fq_flows', flow_cnt')
<1>0. fq_flows \in [{"new", "old"} -> Seq(FlowId)] /\ flow_cnt \in [{"new", "old"} -> Nat]
  BY DEF TypeOK
<1>1. CASE UNCHANGED <<fq_flows, flow_cnt>>
  BY <1>1
<1>2. ASSUME NEW l \in {"new", "old"}, flow_cnt[l] # 0, fq_flows[l] = <<>> PROVE FALSE
  BY <1>2, EmptyFacts DEF Exactly
<1>3. ASSUME NEW l \in {"new", "old"}, NEW f, NEW fs, NEW n, Front(l, f, fs),
             n = [flow_cnt EXCEPT ![l] = @ - 1],
             \/ OutOfCredit(f, fs, n) \/ EmptyFlow(l, f, fs, n)
             \/ fq_flow_set_throttled(f, fs, n) \/ SendFirst(f)
      PROVE  Exactly(fq_flows', flow_cnt')
  <2>1. f \in FlowId /\ fs \in [{"new", "old"} -> Seq(FlowId)]
    BY Zenon, <1>3, FrontFacts
  <2>2. Exactly(fs, n) /\ n \in [{"new", "old"} -> Nat]
    BY Zenon, <1>0, <1>3, <2>1, ExactLists DEF Front
  <2>3. Exactly(fq_flows_add_tail(fs, "old", f), [n EXCEPT !["old"] = @ + 1])
    BY Zenon, <2>1, <2>2, ExactLists
  <2>4. \/ UNCHANGED <<fq_flows, flow_cnt>>
        \/ fq_flows' = fs /\ flow_cnt' = n
        \/ /\ fq_flows' = fq_flows_add_tail(fs, "old", f)
           /\ flow_cnt' = [n EXCEPT !["old"] = @ + 1]
    BY Zenon, <1>3 DEF OutOfCredit, EmptyFlow, fq_flow_set_throttled, SendFirst
  <2> QED BY Zenon, <1>1, <2>2, <2>3, <2>4
<1>4. ASSUME NEW l \in {"new", "old"}, fq_flows[l] # <<>>,
             LET f == Head(fq_flows[l])
                 fs == [fq_flows EXCEPT ![l] = Tail(@)]
                 n == [flow_cnt EXCEPT ![l] = @ - 1]
             IN \/ OutOfCredit(f, fs, n) \/ EmptyFlow(l, f, fs, n)
                \/ fq_flow_set_throttled(f, fs, n) \/ SendFirst(f)
      PROVE  Exactly(fq_flows', flow_cnt')
  <2> DEFINE f == Head(fq_flows[l])
             fs == [fq_flows EXCEPT ![l] = Tail(@)]
             n == [flow_cnt EXCEPT ![l] = @ - 1]
  <2>1. Front(l, f, fs)
    BY <1>4 DEF Front
  <2> HIDE DEF f, fs, n
  <2>2. \/ OutOfCredit(f, fs, n) \/ EmptyFlow(l, f, fs, n)
        \/ fq_flow_set_throttled(f, fs, n) \/ SendFirst(f)
    BY Zenon, <1>4 DEF f, fs, n
  <2>3. n = [flow_cnt EXCEPT ![l] = @ - 1]
    BY DEF n
  <2> QED BY Zenon, <1>3, <2>1, <2>2, <2>3
<1> QED BY <1>1, <1>2, <1>4, ZenonT(30) DEF fq_dequeue_nonprio_flows

LEMMA ListStep ==
    ASSUME TypeOK, TypeOK', FlowInv, FlowInv', ListInv, [Next]_vars
    PROVE  ListInv'
<1>0. /\ fq_flows \in [{"new", "old"} -> Seq(FlowId)] /\ flow_cnt \in [{"new", "old"} -> Nat]
      /\ fq_delayed \subseteq FlowId
  BY DEF TypeOK
<1>1. ASSUME pc \notin Resetting, pc' \notin Resetting, left' = left,
             Exactly(fq_flows, flow_cnt) => Exactly(fq_flows', flow_cnt'),
             pc' = "down" => pc = "down" /\ fq_flows' = fq_flows
      PROVE  ListInv'
  BY <1>1 DEF ListInv, Resetting
<1>2. ASSUME NEW c \in Hash \cup {Prio}, NEW t \in 0..(now + Horizon + 1), NEW n \in PktLen,
             bpf_fq_enqueue(c, t, n)
      PROVE  ListInv'
  <2>1. pc = "idle" /\ pc' = pc /\ left' = left
    BY <1>2 DEF bpf_fq_enqueue
  <2>2. Dropped \/ Brought
    BY <1>2, EnqueueCases, ZenonT(30)
  <2>3. CASE Dropped
    BY <1>1, <2>1, <2>3 DEF Dropped, Resetting
  <2>4. CASE Brought
    <3>1. PICK f \in FlowId, m \in Maps, g \in [FlowId -> Node], p \in Packet,
               cls \in Hash \cup {Prio} : ToFlow(f, cls, m, g, p)
      BY <2>4, Zenon DEF Brought
    <3>2. PICK node \in Node : Listed(f, cls, g, node)
      BY <3>1, ToFlowCases, Zenon
    <3>3. CASE UNCHANGED <<fq_flows, flow_cnt>>
      BY <1>1, <2>1, <3>3 DEF Resetting
    <3>4. CASE /\ fq_flows' = fq_flows_add_tail(fq_flows, "new", f)
               /\ flow_cnt' = [flow_cnt EXCEPT !["new"] = @ + 1]
      <4>1. Exactly(fq_flows, flow_cnt) => Exactly(fq_flows', flow_cnt')
        BY Zenon, <1>0, <3>4, ExactLists
      <4> QED BY <1>1, <2>1, <4>1 DEF Resetting
    <3> QED BY <3>2, <3>3, <3>4 DEF Listed, fq_flows_add_tail
  <2> QED BY <2>2, <2>3, <2>4
<1>3. ASSUME bpf_fq_init PROVE ListInv'
  <2>1. /\ pc = "down" /\ pc' = "idle" /\ left' = left /\ fq_flows' = fq_flows
        /\ flow_cnt' = [l \in {"new", "old"} |-> 0]
    BY <1>3 DEF bpf_fq_init
  <2>2. left = 0 => Exactly(fq_flows', flow_cnt')
    BY <2>1, EmptyFacts DEF ListInv, Exactly
  <2> QED BY <2>1, <2>2 DEF ListInv
<1>4. ASSUME bpf_fq_dequeue PROVE ListInv'
  <2>1. pc = "idle" /\ UNCHANGED <<fq_flows, flow_cnt>>
    BY <1>4 DEF bpf_fq_dequeue
  <2>2. pc' \in {"idle", "unset", "loop"} /\ left' = left
    BY <1>4 DEF bpf_fq_dequeue, ReturnNull, fq_dequeue_prio, Return, fq_check_throttled, history
  <2> QED BY <1>1, <2>1, <2>2 DEF Resetting
<1>5. ASSUME fq_unset_throttled_flows PROVE ListInv'
  <2>1. pc \in {"unset", "unset_all"}
    BY <1>5 DEF fq_unset_throttled_flows
  <2>2. CASE Unset /\ UNCHANGED <<flow, fq_flows, flow_cnt, fq_delayed>>
    <3>1. CASE pc = "unset"
      BY <1>1, <2>2, <3>1 DEF Unset, Resetting
    <3>2. CASE pc = "unset_all"
      <4>1. pc' \in {"down", "idle"} /\ left' = Cardinality(Held(Live))
        BY <2>2, <3>2 DEF Unset
      <4>2. ASSUME left' = 0 PROVE \A l \in {"new", "old"} : fq_flows[l] = <<>>
        <5>1. Held(Live) = {}
          BY Zenon, <4>1, <4>2, HeldFinite, FS_EmptySet
        <5>2. In(fq_flows) = {}
          <6> SUFFICES ASSUME NEW f \in In(fq_flows) PROVE FALSE
            OBVIOUS
          <6>1. flow[f].queue # {}
            BY <3>2 DEF ListInv
          <6>2. f \in Live
            <7>1. f \in FlowId
              BY <1>0 DEF In, Range
            <7> QED BY <7>1 DEF Live, Placed, In
          <6> QED BY <5>1, <6>1, <6>2 DEF Held
        <5> SUFFICES ASSUME NEW l \in {"new", "old"}, fq_flows[l] # <<>> PROVE FALSE
          OBVIOUS
        <5>3. Head(fq_flows[l]) \in Range(fq_flows[l])
          BY <1>0, TailFacts
        <5> QED BY <5>2, <5>3 DEF In
      <4>3. Exactly(fq_flows', flow_cnt')
        BY <2>2, <3>2 DEF ListInv
      <4> QED BY <2>2, <4>1, <4>2, <4>3 DEF ListInv
    <3> QED BY <2>1, <3>1, <3>2
  <2>3. ASSUME NEW f \in fq_delayed, flow' = [flow EXCEPT ![f].age = 0],
               fq_flows' = fq_flows_add_tail(fq_flows, "old", f),
               flow_cnt' = [flow_cnt EXCEPT !["old"] = @ + 1], UNCHANGED <<pc, left>>
        PROVE  ListInv'
    <3>1. Exactly(fq_flows, flow_cnt) => Exactly(fq_flows', flow_cnt')
      BY Zenon, <1>0, <2>3, ExactLists
    <3>2. CASE pc = "unset"
      BY <1>1, <2>3, <3>1, <3>2 DEF Resetting
    <3>3. CASE pc = "unset_all"
      <4>1. f \in FlowId /\ flow[f].queue # {} /\ f \notin In(fq_flows) /\ ListsOK(fq_flows)
        BY <1>0 DEF FlowInv, FlowOK
      <4>2. In(fq_flows') = In(fq_flows) \cup {f}
        BY Zenon, <1>0, <2>3, <4>1, AddFacts
      <4>3. \A g \in FlowId : flow'[g].queue = flow[g].queue
        BY <2>3, <4>1 DEF TypeOK, Node
      <4>4. In(fq_flows) \subseteq FlowId
        BY <1>0 DEF In, Range
      <4>5. \A g \in In(fq_flows') : flow'[g].queue # {}
        BY <3>3, <4>1, <4>2, <4>3, <4>4 DEF ListInv
      <4> QED BY <2>3, <3>1, <3>3, <4>5 DEF ListInv
    <3> QED BY <2>1, <3>2, <3>3
  <2> QED BY <1>5, <2>2, <2>3, Zenon DEF fq_unset_throttled_flows
<1>6. ASSUME fq_dequeue_nonprio_flows PROVE ListInv'
  <2>1. pc = "loop" /\ fq_prio_flows' = fq_prio_flows
    BY <1>6 DEF fq_dequeue_nonprio_flows
  <2>2. pc' \in {"idle", "loop"} /\ left' = left
    BY <2>1, LeftStep
  <2>3. Exactly(fq_flows, flow_cnt) => Exactly(fq_flows', flow_cnt')
    BY Zenon, <1>6, ExactRound
  <2> QED BY <1>1, <2>1, <2>2, <2>3 DEF Resetting
<1>7. ASSUME NEW d, bpf_fq_reset(d) PROVE ListInv'
  BY <1>7 DEF bpf_fq_reset, ListInv
<1>8. ASSUME fq_remove_flows_in_list PROVE ListInv'
  <2>1. CASE fq_flows["new"] = <<>> /\ fq_flows["old"] = <<>>
    <3>1. /\ flow_cnt' = [l \in {"new", "old"} |-> 0] /\ pc' = "unset_all" /\ fq_flows' = fq_flows
      BY <1>8, <2>1 DEF fq_remove_flows_in_list
    <3>2. Exactly(fq_flows', flow_cnt') /\ In(fq_flows') = {}
      BY <2>1, <3>1, EmptyFacts DEF Exactly, In
    <3> QED BY <3>1, <3>2 DEF ListInv
  <2>2. CASE ~(fq_flows["new"] = <<>> /\ fq_flows["old"] = <<>>)
    <3>1. pc' = "drain"
      BY <1>8, <2>2 DEF fq_remove_flows_in_list
    <3> QED BY <3>1 DEF ListInv
  <2> QED BY <2>1, <2>2
<1>9. ASSUME RoundsOver PROVE ListInv'
  BY <1>1, <1>9 DEF RoundsOver, ReturnNull, Resetting
<1>10. ASSUME Tick \/ Watchdog \/ UNCHANGED vars PROVE ListInv'
  <2>1. UNCHANGED <<pc, left, fq_flows, flow_cnt, flow>>
    BY <1>10 DEF Tick, Watchdog, vars, history
  <2> QED BY <2>1 DEF ListInv
<1> QED BY <1>2, <1>3, <1>4, <1>5, <1>6, <1>7, <1>8, <1>9, <1>10, Zenon DEF Next, Dequeue

-----------------------------------------------------------------------------
(* The watchdog *)

\* A dequeue runs because it was asked to, and has looked at every throttled
\* flow that is due.
Awake == pc \in {"unset", "loop"} => kick /\ time_next_delayed_flow > ktime_cache

LEMMA AwakeStep ==
    ASSUME TypeOK, Awake, [Next]_vars
    PROVE  Awake'
<1>0. /\ now \in 1..MaxTime /\ ktime_cache \in Nat /\ time_next_delayed_flow \in Nat
      /\ Never \in Nat /\ MaxTime < Never /\ MaxTime \in Nat
  BY Constants DEF TypeOK
<1>1. CASE pc' \in {"idle", "down", "drain", "unset_all"}
  BY <1>1 DEF Awake
<1>2. ASSUME bpf_fq_dequeue PROVE Awake'
  <2>1. kick
    BY <1>2 DEF bpf_fq_dequeue
  <2>2. CASE pc' = "idle"
    BY <1>1, <2>2
  <2>3. CASE fq_check_throttled
    <3>1. kick' = kick /\ ktime_cache' = now
      BY <2>3 DEF fq_check_throttled, kernel
    <3>2. time_next_delayed_flow' > now
      BY <1>0, <2>3 DEF fq_check_throttled
    <3> QED BY <2>1, <3>1, <3>2 DEF Awake
  <2> QED BY <1>2, <2>2, <2>3 DEF bpf_fq_dequeue, ReturnNull, fq_dequeue_prio, Return
<1>3. ASSUME fq_unset_throttled_flows PROVE Awake'
  <2>1. pc \in {"unset", "unset_all"} /\ ktime_cache' = ktime_cache
    BY <1>3 DEF fq_unset_throttled_flows
  <2>2. CASE UNCHANGED <<pc, time_next_delayed_flow, kick>>
    BY <2>1, <2>2 DEF Awake
  <2>3. ASSUME Unset, \/ time_next_delayed_flow' = time_next_delayed_flow
                      \/ time_next_delayed_flow' > ktime_cache
        PROVE  Awake'
    <3>1. CASE pc = "unset"
      <4>1. kick' = kick
        BY <2>3, <3>1 DEF Unset
      <4> QED BY <2>1, <2>3, <3>1, <4>1 DEF Awake
    <3>2. CASE pc = "unset_all"
      <4>1. pc' \in {"idle", "down"}
        BY <2>3, <3>2 DEF Unset
      <4> QED BY <1>1, <4>1
    <3> QED BY <2>1, <3>1, <3>2
  <2> QED BY <1>3, <2>2, <2>3 DEF fq_unset_throttled_flows
<1>4. ASSUME fq_dequeue_nonprio_flows PROVE Awake'
  <2>1. pc = "loop" /\ ktime_cache' = ktime_cache
    BY <1>4 DEF fq_dequeue_nonprio_flows
  <2>2. kick /\ time_next_delayed_flow > ktime_cache
    BY <2>1 DEF Awake
  <2>3. ASSUME Continue, \/ time_next_delayed_flow' = time_next_delayed_flow
                         \/ time_next_delayed_flow' > ktime_cache
        PROVE  Awake'
    <3>1. kick' = kick
      BY <2>3 DEF Continue, kernel
    <3> QED BY <2>1, <2>2, <2>3, <3>1 DEF Awake
  <2>4. ASSUME NEW x, ReturnNull(x) \/ Return(x) PROVE Awake'
    BY <1>1, <2>4 DEF ReturnNull, Return
  <2>5. ASSUME NEW l, NoFront(l) PROVE Awake'
    BY Zenon, <2>4, <2>5 DEF NoFront
  <2>6. ASSUME NEW l, NEW f, NEW fs, NEW n,
               \/ OutOfCredit(f, fs, n) \/ EmptyFlow(l, f, fs, n) \/ SendFirst(f)
        PROVE  Awake'
    BY Zenon, <2>3, <2>4, <2>6 DEF OutOfCredit, EmptyFlow, SendFirst
  <2>7. ASSUME NEW f, NEW fs, NEW n, fq_flow_set_throttled(f, fs, n) PROVE Awake'
    <3>1. /\ ktime_cache < NextTime(f) /\ Continue
          /\ time_next_delayed_flow' = Smaller(time_next_delayed_flow, NextTime(f))
      BY <2>7 DEF fq_flow_set_throttled
    <3>2. \/ time_next_delayed_flow' = time_next_delayed_flow
          \/ time_next_delayed_flow' > ktime_cache
      BY <3>1 DEF Smaller
    <3> QED BY <2>3, <3>1, <3>2
  <2> QED BY <1>4, <2>4, <2>5, <2>6, <2>7, ZenonT(30) DEF fq_dequeue_nonprio_flows
<1>5. ASSUME NEW c \in Hash \cup {Prio}, NEW t \in 0..(now + Horizon + 1), NEW n \in PktLen,
             bpf_fq_enqueue(c, t, n)
      PROVE  Awake'
  <2>1. pc = "idle" /\ pc' = pc
    BY <1>5 DEF bpf_fq_enqueue
  <2> QED BY <1>1, <2>1
<1>6. bpf_fq_init \/ fq_remove_flows_in_list \/ RoundsOver => Awake'
  BY <1>1 DEF bpf_fq_init, fq_remove_flows_in_list, RoundsOver, ReturnNull
<1>7. ASSUME NEW d, bpf_fq_reset(d) PROVE Awake'
  BY <1>1, <1>7 DEF bpf_fq_reset
<1>8. Tick \/ Watchdog => Awake'
  BY <1>1 DEF Tick, Watchdog
<1>9. UNCHANGED vars => Awake'
  BY DEF vars, kernel, Awake
<1> QED BY <1>2, <1>3, <1>4, <1>5, <1>6, <1>7, <1>8, <1>9, Zenon DEF Next, Dequeue

\* A dequeue that finds nothing in the lists sets the watchdog to the time of
\* the first throttled flow.
LEMMA SetsWatchdog ==
    ASSUME TypeOK, FlowInv, Awake, Exactly(fq_flows, flow_cnt), pc = "loop",
           flow_cnt["new"] = 0, flow_cnt["old"] = 0,
           ReturnNull(IF time_next_delayed_flow # Never THEN time_next_delayed_flow ELSE 0),
           UNCHANGED <<flow, fq_delayed, fq_flows, fq_prio_flows, fq_nonprio_flows>>,
           NEW f \in Live', flow'[f].queue # {}
    PROVE  f \in fq_delayed' /\ timer' <= flow'[f].time_next_packet
<1>1. In(fq_flows) = {}
  <2>1. ASSUME NEW l \in {"new", "old"} PROVE fq_flows[l] = <<>>
    <3>1. fq_flows[l] \in Seq(FlowId)
      BY DEF TypeOK
    <3>2. Len(fq_flows[l]) = 0
      BY DEF Exactly
    <3> QED BY <3>1, <3>2
  <2> QED BY <2>1, EmptyFacts DEF In
<1>2. f \in FlowId /\ flow[f].queue # {}
  BY DEF Live
<1>3. f # fq_prio_flows
  BY <1>2, Constants DEF FlowInv
<1>4. f \in fq_delayed
  BY <1>1, <1>2, <1>3 DEF FlowInv, FlowOK
<1>5. time_next_delayed_flow <= flow[f].time_next_packet
  BY <1>2, <1>4 DEF FlowInv, LooksOK
<1>6. flow[f].time_next_packet \in 0..MaxTime /\ ktime_cache \in Nat
      /\ time_next_delayed_flow \in Nat
  BY <1>2, Constants DEF TypeOK, Node
<1>7. time_next_delayed_flow # Never /\ time_next_delayed_flow # 0
  <2>1. time_next_delayed_flow > ktime_cache
    BY Zenon DEF Awake
  <2>2. time_next_delayed_flow # 0
    BY <1>6, <2>1
  <2>3. MaxTime \in Nat /\ Never \in Nat /\ MaxTime < Never
    BY Constants
  <2>4. time_next_delayed_flow # Never
    BY <1>5, <1>6, <2>3
  <2> QED BY <2>2, <2>4
<1>8. timer' = time_next_delayed_flow
  BY <1>7 DEF ReturnNull
<1> QED BY <1>4, <1>5, <1>8

LEMMA SleepStep ==
    ASSUME TypeOK, TypeOK', FlowInv, FlowInv', QlenInv, QlenInv', ListInv, Awake,
           NeverSleepsOnWork, [Next]_vars
    PROVE  NeverSleepsOnWork'
<1> SUFFICES ASSUME pc' = "idle", ~kick', left' = 0, ~exhausted',
                    NEW f \in Live', flow'[f].queue # {}
             PROVE  f \in fq_delayed' /\ timer' <= flow'[f].time_next_packet
  BY DEF NeverSleepsOnWork
<1>1. qlen' # 0
  <2> SUFFICES ASSUME qlen' = 0 PROVE FALSE
    OBVIOUS
  <2>1. \A g \in Live' : flow'[g].queue = {}
    BY NothingHeldNext DEF QlenInv, Resetting
  <2> QED BY <2>1
<1>2. ~ bpf_fq_init
  BY <1>1 DEF bpf_fq_init
<1>3. ASSUME NEW c \in Hash \cup {Prio}, NEW t \in 0..(now + Horizon + 1), NEW n \in PktLen,
             bpf_fq_enqueue(c, t, n)
      PROVE  FALSE
  BY <1>3 DEF bpf_fq_enqueue
<1>4. ASSUME bpf_fq_dequeue PROVE FALSE
  <2>1. kick
    BY <1>4 DEF bpf_fq_dequeue
  <2>2. ASSUME qlen = 0, ReturnNull(0) PROVE FALSE
    BY <1>1, <2>2 DEF ReturnNull, sch
  <2>3. ~ fq_dequeue_prio
    BY <2>1 DEF fq_dequeue_prio, Return, kernel
  <2>4. ~ fq_check_throttled
    BY DEF fq_check_throttled
  <2> QED BY <1>4, <2>2, <2>3, <2>4 DEF bpf_fq_dequeue
<1>5. ASSUME fq_unset_throttled_flows PROVE FALSE
  <2>1. pc = "unset_all" /\ qlen' = qlen
    BY <1>5 DEF fq_unset_throttled_flows, Unset, sch
  <2> QED BY <1>1, <2>1 DEF QlenInv, Resetting
<1>6. ASSUME fq_dequeue_nonprio_flows
      PROVE  f \in fq_delayed' /\ timer' <= flow'[f].time_next_packet
  <2>1. pc = "loop" /\ UNCHANGED <<fq_prio_flows, fq_nonprio_flows>>
    BY <1>6 DEF fq_dequeue_nonprio_flows
  <2>2. kick /\ left = 0
    BY <2>1, LeftStep DEF Awake
  <2>3. Exactly(fq_flows, flow_cnt)
    BY <2>1, <2>2 DEF ListInv
  <2>4. ASSUME NEW l \in {"new", "old"}, flow_cnt[l] # 0, fq_flows[l] = <<>> PROVE FALSE
    BY <2>3, <2>4, EmptyFacts DEF Exactly
  <2>5. ~ Continue
    BY DEF Continue
  <2>6. ASSUME NEW p, Return(p) PROVE FALSE
    BY <2>2, <2>6 DEF Return, kernel
  <2>7. ASSUME NEW l, NEW g, NEW fs, NEW n,
               \/ OutOfCredit(g, fs, n) \/ EmptyFlow(l, g, fs, n)
               \/ fq_flow_set_throttled(g, fs, n) \/ SendFirst(g)
        PROVE  FALSE
    BY Zenon, <2>5, <2>6, <2>7 DEF OutOfCredit, EmptyFlow, fq_flow_set_throttled, SendFirst
  <2>8. /\ flow_cnt["new"] = 0 /\ flow_cnt["old"] = 0
        /\ ReturnNull(IF time_next_delayed_flow # Never THEN time_next_delayed_flow ELSE 0)
        /\ UNCHANGED <<flow, fq_flows, fq_delayed>>
    BY <1>6, <2>4, <2>7, ZenonT(30) DEF fq_dequeue_nonprio_flows
  <2> QED BY <2>1, <2>3, <2>8, SetsWatchdog
<1>7. ASSUME RoundsOver PROVE FALSE
  BY <1>7 DEF RoundsOver, ReturnNull
<1>8. ASSUME NEW d, bpf_fq_reset(d) PROVE FALSE
  BY <1>8 DEF bpf_fq_reset
<1>9. ~ fq_remove_flows_in_list
  BY DEF fq_remove_flows_in_list
<1>10. ~ Watchdog
  BY DEF Watchdog
<1>11. ASSUME Tick \/ UNCHANGED vars
       PROVE  f \in fq_delayed' /\ timer' <= flow'[f].time_next_packet
  <2>1. UNCHANGED <<pc, kick, left, exhausted, flow, fq_delayed, timer, fq_flows,
                    fq_prio_flows, fq_nonprio_flows>>
    BY <1>11 DEF Tick, vars, kernel, history
  <2>2. Live' = Live
    BY <2>1 DEF Live, Placed, Stashed
  <2> QED BY <2>1, <2>2 DEF NeverSleepsOnWork
<1> QED BY <1>2, <1>3, <1>4, <1>5, <1>6, <1>7, <1>8, <1>9, <1>10, <1>11, ZenonT(30)
    DEF Next, Dequeue

-----------------------------------------------------------------------------
(* Theorems *)

\* What holds of the packets, their counters and the watchdog.
PacketInv == IdsOK /\ FlowCounts /\ QlenInv /\ ListInv /\ Awake /\ NeverSleepsOnWork

LEMMA PacketInit == Init => PacketInv
<1> SUFFICES ASSUME Init PROVE PacketInv
  OBVIOUS
<1>1. \A f \in FlowId : flow[f].queue = {} /\ flow[f].qlen = 0
  BY DEF Init, NewNode
<1>2. Held(Live) = {} /\ Cardinality({}) = 0
  <2>1. Live \subseteq FlowId
    BY DEF Live
  <2> QED BY <1>1, <2>1, FS_EmptySet DEF Held
<1>3. IdsOK
  BY <1>1 DEF Init, IdsOK
<1>4. FlowCounts
  BY <1>1, <1>2 DEF FlowCounts
<1>5. QlenInv
  BY <1>2 DEF Init, QlenInv, QlenCountsPackets
<1>6. ListInv
  BY EmptyFacts DEF Init, ListInv, Exactly
<1>7. Awake /\ NeverSleepsOnWork
  BY DEF Init, Awake, NeverSleepsOnWork
<1> QED BY <1>3, <1>4, <1>5, <1>6, <1>7 DEF PacketInv

LEMMA PacketStep ==
    ASSUME TypeOK, TypeOK', FlowInv, FlowInv', PacketInv, [Next]_vars
    PROVE  PacketInv' /\ Kept
<1> USE DEF PacketInv
<1>1. pc = "down" => qlen = 0
  BY DEF QlenInv
<1>2. (Moves \/ Frees) /\ PrioFreed
  BY Zenon, <1>1, MovesStep
<1>3. IdsOK' /\ Kept
  BY Zenon, <1>2, IdsStep
<1>4. FlowCounts'
  BY Zenon, <1>2, FlowCountsStep
<1>5. QlenInv'
  BY Zenon, QlenStep
<1>6. ListInv'
  BY Zenon, ListStep
<1>7. Awake'
  BY Zenon, AwakeStep
<1>8. NeverSleepsOnWork'
  BY Zenon, <1>5, SleepStep
<1> QED BY Zenon, <1>3, <1>4, <1>5, <1>6, <1>7, <1>8

LEMMA PacketInvariance == Spec => [](TypeOK /\ FlowInv /\ PacketInv)
<1>1. TypeOK /\ FlowInv /\ PacketInv /\ TypeOK' /\ FlowInv' /\ [Next]_vars => PacketInv'
  BY PacketStep
<1> QED BY <1>1, PacketInit, FlowInvariance, PTL DEF Spec

\* No packet is handed out twice.
THEOREM NoDuplicate == Spec => []HandedOutOnce
<1>1. PacketInv => HandedOutOnce
  <2> SUFFICES ASSUME IdsOK PROVE HandedOutOnce
    BY DEF PacketInv
  <2>1. Live \subseteq FlowId
    BY DEF Live
  <2> QED BY <2>1, Zenon DEF HandedOutOnce, Held, IdsOK
<1> QED BY <1>1, PacketInvariance, PTL

\* A packet the scheduler holds leaves it only by being handed out or by a
\* reset: collecting, replacing or detaching a flow frees no packet.
THEOREM AcceptedIsKept == Spec => NoSilentLoss
<1>1. TypeOK /\ TypeOK' /\ FlowInv /\ FlowInv' /\ PacketInv /\ [Next]_vars =>
        [\A p \in Held(Live) \ Held(Live)' : p.id \in sent' \/ "drain" \in {pc, pc'}]_vars
  <2> SUFFICES ASSUME TypeOK, TypeOK', FlowInv, FlowInv', PacketInv, [Next]_vars,
                      NEW p \in Held(Live) \ Held(Live)'
               PROVE  p.id \in sent' \/ "drain" \in {pc, pc'}
    OBVIOUS
  <2>1. Kept
    BY PacketStep
  <2>2. Held(Live) = UNION {flow[f].queue : f \in FlowId}
    BY HeldEverywhere
  <2>3. PICK f \in FlowId : p \in flow[f].queue
    BY <2>2
  <2>4. p \notin flow'[f].queue
    <3>1. flow'[f].queue # {} => f \in Live'
      BY Zenon DEF FlowInv, FlowOK, Live, Placed, Stashed, In
    <3> QED BY SMTT(30), <3>1 DEF Held
  <2> QED BY <2>1, <2>3, <2>4 DEF Kept
<1> QED BY <1>1, PacketInvariance, PTL DEF Spec, NoSilentLoss

\* sch->q.qlen is the number of packets held, whatever is enqueued, dropped,
\* handed out, reset and attached again, but for the packets that an earlier
\* reset left in throttled flows.
THEOREM QdiscCountsPackets == Spec => []QlenCountsPackets
<1>1. PacketInv => QlenCountsPackets
  BY DEF PacketInv, QlenInv
<1> QED BY <1>1, PacketInvariance, PTL

\* The counter the per-flow limit reads is the number of the flow's packets.
THEOREM FlowsCountPackets == Spec => []FlowQlenCountsPackets
<1>1. PacketInv => FlowQlenCountsPackets
  <2>1. Live \subseteq FlowId
    BY DEF Live
  <2> QED BY <2>1 DEF PacketInv, FlowCounts, FlowQlenCountsPackets
<1> QED BY <1>1, PacketInvariance, PTL

\* new_flow_cnt and old_flow_cnt are the lengths of the lists, through every
\* round of the dequeue's loop and every reset that left no packet behind.
THEOREM ListsAreCounted == Spec => []CountersCountFlows
<1>1. PacketInv => CountersCountFlows
  BY DEF PacketInv, ListInv, Exactly, CountersCountFlows
<1> QED BY <1>1, PacketInvariance, PTL

\* A dequeue that returned NULL left no packet that could be sent: whatever is
\* held waits in a throttled flow, and the watchdog is set in time for it.
THEOREM SleepIsSound == Spec => []NeverSleepsOnWork
<1>1. PacketInv => NeverSleepsOnWork
  BY DEF PacketInv
<1> QED BY <1>1, PacketInvariance, PTL

-----------------------------------------------------------------------------
(***************************************************************************)
(* The queue drains.  Drains is a liveness property; what it rests on is   *)
(* not: every step uses up some of what is left of arrivals, time, packets *)
(* to hand out, requests to run and rounds of an operation, and where none *)
(* of the steps that the kernel owes can be taken, the queue is empty or   *)
(* one of Drains' exceptions holds.                                        *)
(***************************************************************************)
\* Arrivals, resets and attachments to come.
Outside == (MaxPkts - arrived) + (MaxResets - resets) + (MaxAttach - attaches)

\* What makes the kernel run the qdisc: a request, and a watchdog that is due,
\* which becomes one.
Asked == (IF timer <= now THEN 2 ELSE 0) + (IF kick THEN 1 ELSE 0)

\* The steps an operation has left at most, the one to come included: flows
\* to take out of the tree and the lists, rounds of the dequeue's loop.
OpLeft ==
    CASE pc = "idle" /\ kick -> Cardinality(fq_delayed) + Limit + 3
      [] pc = "unset" -> Cardinality(fq_delayed) + Limit + 2
      [] pc = "loop" -> Limit - i + 1
      [] pc = "drain" -> Len(fq_flows["new"]) + Len(fq_flows["old"]) + Cardinality(fq_delayed) + 2
      [] pc = "unset_all" -> Cardinality(fq_delayed) + 1
      [] OTHER -> 0

AllLeft == <<Outside, MaxTime - now, MaxPkts - Cardinality(sent), Asked, OpLeft>>

\* The lexicographic order of these.
Below(m, n) == \E k \in 1..5 : m[k] < n[k] /\ \A j \in 1..(k - 1) : m[j] = n[j]

LeftIsFinite == AllLeft \in Nat \X Nat \X Nat \X Nat \X Nat

\* The tree of throttled flows is finite, and a dequeue takes no time.
OpInv == IsFiniteSet(fq_delayed) /\ (pc \in {"unset", "loop"} => ktime_cache = now)

LEMMA BelowAt ==
    ASSUME NEW a1, NEW a2, NEW a3, NEW a4, NEW a5, NEW b1, NEW b2, NEW b3, NEW b4, NEW b5,
           \/ a1 < b1
           \/ a1 = b1 /\ a2 < b2
           \/ a1 = b1 /\ a2 = b2 /\ a3 < b3
           \/ a1 = b1 /\ a2 = b2 /\ a3 = b3 /\ a4 < b4
           \/ a1 = b1 /\ a2 = b2 /\ a3 = b3 /\ a4 = b4 /\ a5 < b5
    PROVE  Below(<<a1, a2, a3, a4, a5>>, <<b1, b2, b3, b4, b5>>)
<1> DEFINE a == <<a1, a2, a3, a4, a5>>
           b == <<b1, b2, b3, b4, b5>>
<1>1. /\ a[1] = a1 /\ a[2] = a2 /\ a[3] = a3 /\ a[4] = a4 /\ a[5] = a5
      /\ b[1] = b1 /\ b[2] = b2 /\ b[3] = b3 /\ b[4] = b4 /\ b[5] = b5
  OBVIOUS
<1> HIDE DEF a, b
<1>2. Below(a, b)
  BY <1>1 DEF Below
<1> QED BY <1>2 DEF a, b

LEMMA LeftNumbers ==
    ASSUME TypeOK, OpInv
    PROVE  /\ Outside \in Nat /\ MaxTime - now \in Nat /\ MaxPkts - Cardinality(sent) \in Nat
           /\ Asked \in Nat /\ OpLeft \in Nat /\ Cardinality(fq_delayed) \in Nat
           /\ IsFiniteSet(sent) /\ Cardinality(sent) \in Nat
<1>1. Outside \in Nat /\ MaxTime - now \in Nat
  BY Constants DEF TypeOK, Outside
<1>2. Asked \in Nat
  BY DEF Asked
<1>3. MaxPkts - Cardinality(sent) \in Nat /\ IsFiniteSet(sent) /\ Cardinality(sent) \in Nat
  <2>1. sent \subseteq 1..MaxPkts /\ MaxPkts \in Nat
    BY Constants DEF TypeOK
  <2>2. IsFiniteSet(1..MaxPkts) /\ Cardinality(1..MaxPkts) = MaxPkts
    BY <2>1, FS_Interval
  <2>3. /\ IsFiniteSet(sent) /\ Cardinality(sent) <= Cardinality(1..MaxPkts)
        /\ Cardinality(sent) \in Nat
    BY <2>1, <2>2, FS_Subset, FS_CardinalityType
  <2> QED BY <2>1, <2>2, <2>3
<1>4. Cardinality(fq_delayed) \in Nat
  BY FS_CardinalityType DEF OpInv
<1>5. OpLeft \in Nat
  <2>1. Limit \in Nat /\ i \in 0..Limit
    BY Constants DEF TypeOK
  <2>2. Len(fq_flows["new"]) \in Nat /\ Len(fq_flows["old"]) \in Nat
    <3>1. fq_flows["new"] \in Seq(FlowId) /\ fq_flows["old"] \in Seq(FlowId)
      BY DEF TypeOK
    <3> QED BY <3>1
  <2>3. OpLeft \in {Cardinality(fq_delayed) + Limit + 3, Cardinality(fq_delayed) + Limit + 2,
                    Limit - i + 1,
                    Len(fq_flows["new"]) + Len(fq_flows["old"]) + Cardinality(fq_delayed) + 2,
                    Cardinality(fq_delayed) + 1, 0}
    BY ZenonT(30) DEF OpLeft
  <2>4. Limit - i + 1 \in Nat
    BY <2>1
  <2>5. /\ Cardinality(fq_delayed) + Limit + 3 \in Nat /\ Cardinality(fq_delayed) + Limit + 2 \in Nat
        /\ Len(fq_flows["new"]) + Len(fq_flows["old"]) + Cardinality(fq_delayed) + 2 \in Nat
        /\ Cardinality(fq_delayed) + 1 \in Nat /\ 0 \in Nat
    <3>1. \A a, b, c \in Nat : a + b + 3 \in Nat /\ a + b + 2 \in Nat /\ a + b + c + 2 \in Nat
                              /\ a + 1 \in Nat /\ 0 \in Nat
      OBVIOUS
    <3> QED BY Zenon, <1>4, <2>1, <2>2, <3>1
  <2> QED BY Zenon, <2>3, <2>4, <2>5
<1> QED BY <1>1, <1>2, <1>3, <1>4, <1>5

\* The three ways a step of the qdisc counts: a packet is handed out, a request
\* is answered, or the operation moves on.
LEMMA HandOutCounts ==
    ASSUME TypeOK, OpInv, IdsOK, NEW f \in FlowId, flow[f].queue # {},
           Return(skbn_first(flow[f].queue)), TypeOK', OpInv'
    PROVE  Below(AllLeft', AllLeft)
<1> DEFINE p == skbn_first(flow[f].queue)
<1>1. p \in flow[f].queue
  BY TakeTypes, ZenonT(30)
<1>2. p.id \notin sent
  BY <1>1 DEF IdsOK
<1>3. sent' = sent \cup {p.id} /\ UNCHANGED <<now, arrived, resets, attaches>>
  BY Zenon DEF Return, kernel
<1> HIDE DEF p
<1>4. Cardinality(sent') = Cardinality(sent) + 1
  BY <1>2, <1>3, LeftNumbers, FS_AddElement
<1>5. Outside' = Outside /\ (MaxTime - now)' = MaxTime - now
  BY <1>3 DEF Outside, MaxTime
<1>6. (MaxPkts - Cardinality(sent))' < MaxPkts - Cardinality(sent)
  BY <1>4, LeftNumbers, Constants
<1> QED BY Zenon, <1>5, <1>6, BelowAt DEF AllLeft

LEMMA NullCounts ==
    ASSUME TypeOK, kick, NEW x \in Nat, x = 0 \/ x > now, ReturnNull(x)
    PROVE  Below(AllLeft', AllLeft)
<1>1. /\ kick' = FALSE /\ timer' = (IF x # 0 THEN x ELSE timer)
      /\ UNCHANGED <<now, sent, arrived, resets, attaches>>
  BY Zenon DEF ReturnNull
<1>2. Outside' = Outside /\ (MaxTime - now)' = MaxTime - now
      /\ (MaxPkts - Cardinality(sent))' = MaxPkts - Cardinality(sent)
  BY <1>1 DEF Outside, MaxTime
<1>3. Asked' < Asked
  <2>1. now \in Nat /\ timer \in Nat
    BY Constants DEF TypeOK
  <2> QED BY <1>1, <2>1 DEF Asked
<1> QED BY Zenon, <1>2, <1>3, BelowAt DEF AllLeft

LEMMA MoveCounts ==
    ASSUME UNCHANGED <<now, sent, arrived, resets, attaches>>, OpLeft' < OpLeft,
           \/ UNCHANGED <<timer, kick>>
           \/ TypeOK /\ timer' = Never /\ kick' = FALSE
    PROVE  Below(AllLeft', AllLeft)
<1>1. Outside' = Outside /\ (MaxTime - now)' = MaxTime - now
      /\ (MaxPkts - Cardinality(sent))' = MaxPkts - Cardinality(sent)
  BY DEF Outside, MaxTime
<1>2. Asked' = Asked \/ Asked' < Asked
  <2>1. CASE UNCHANGED <<timer, kick>>
    BY <2>1 DEF Asked
  <2>2. CASE TypeOK /\ timer' = Never /\ kick' = FALSE
    <3>1. now \in Nat /\ timer \in Nat /\ ~(Never <= now) /\ kick \in BOOLEAN
      BY <2>2, Constants DEF TypeOK
    <3>2. Asked' = 0 /\ Asked \in 0..3
      BY <2>2, <3>1 DEF Asked
    <3> QED BY <3>2
  <2> QED BY <2>1, <2>2
<1> QED BY Zenon, <1>1, <1>2, BelowAt DEF AllLeft

\* Steps of the world outside and of the clock.
LEMMA OutsideCounts ==
    ASSUME TypeOK, TypeOK',
           \/ arrived' = arrived + 1 /\ UNCHANGED <<resets, attaches>>
           \/ resets' = resets + 1 /\ UNCHANGED <<arrived, attaches>>
           \/ attaches' = attaches + 1 /\ UNCHANGED <<arrived, resets>>
    PROVE  Below(AllLeft', AllLeft)
<1>1. Outside' < Outside
  <2>1. /\ arrived \in Nat /\ arrived' \in Nat /\ MaxPkts \in Nat
        /\ resets \in Nat /\ resets' \in Nat /\ MaxResets \in Nat
        /\ attaches \in Nat /\ attaches' \in Nat /\ MaxAttach \in Nat
    BY Constants DEF TypeOK
  <2>2. Outside' = (MaxPkts - arrived') + (MaxResets - resets') + (MaxAttach - attaches')
    BY DEF Outside
  <2>3. CASE arrived' = arrived + 1 /\ UNCHANGED <<resets, attaches>>
    BY <2>1, <2>2, <2>3 DEF Outside
  <2>4. CASE resets' = resets + 1 /\ UNCHANGED <<arrived, attaches>>
    BY <2>1, <2>2, <2>4 DEF Outside
  <2>5. CASE attaches' = attaches + 1 /\ UNCHANGED <<arrived, resets>>
    BY <2>1, <2>2, <2>5 DEF Outside
  <2> QED BY Zenon, <2>3, <2>4, <2>5
<1> QED BY Zenon, <1>1, BelowAt DEF AllLeft

LEMMA ClockCounts ==
    TypeOK /\ (Tick \/ Watchdog) => Below(AllLeft', AllLeft)
<1> SUFFICES ASSUME TypeOK, Tick \/ Watchdog PROVE Below(AllLeft', AllLeft)
  OBVIOUS
<1>1. UNCHANGED <<arrived, sent, resets, attaches>> /\ Outside' = Outside
  BY DEF Tick, Watchdog, history, Outside
<1>2. now \in Nat /\ MaxTime \in Nat /\ timer \in Nat /\ Never \in Nat /\ ~(Never <= now)
  BY Constants DEF TypeOK
<1>3. CASE Tick
  <2>1. (MaxTime - now)' < MaxTime - now
    BY <1>2, <1>3 DEF Tick, MaxTime
  <2> QED BY Zenon, <1>1, <2>1, BelowAt DEF AllLeft
<1>4. CASE Watchdog
  <2>1. now' = now /\ timer <= now /\ timer' = Never /\ kick' = TRUE
    BY <1>4 DEF Watchdog
  <2>2. Asked' < Asked
    BY <1>2, <2>1 DEF Asked
  <2>3. (MaxTime - now)' = MaxTime - now
        /\ (MaxPkts - Cardinality(sent))' = MaxPkts - Cardinality(sent)
    BY <1>1, <2>1 DEF MaxTime
  <2> QED BY Zenon, <1>1, <2>2, <2>3, BelowAt DEF AllLeft
<1> QED BY <1>3, <1>4

LEMMA DequeueCounts ==
    ASSUME TypeOK, TypeOK', OpInv, OpInv', IdsOK, bpf_fq_dequeue
    PROVE  Below(AllLeft', AllLeft)
<1>1. pc = "idle" /\ kick /\ UNCHANGED fq_delayed
  BY DEF bpf_fq_dequeue
<1>2. CASE ReturnNull(0)
  BY <1>1, <1>2, NullCounts
<1>3. CASE fq_dequeue_prio
  <2>1. /\ fq_prio_flows \in FlowId /\ flow[fq_prio_flows].queue # {}
        /\ Return(skbn_first(flow[fq_prio_flows].queue))
    BY <1>3, Zenon DEF fq_dequeue_prio, TypeOK
  <2> QED BY <2>1, HandOutCounts
<1>4. CASE fq_check_throttled
  <2>1. /\ UNCHANGED <<now, timer, kick, sent, arrived, resets, attaches>>
        /\ pc' \in {"loop", "unset"} /\ i' = 0
    BY <1>4 DEF fq_check_throttled, kernel, history
  <2>2. OpLeft = Cardinality(fq_delayed) + Limit + 3
    BY <1>1 DEF OpLeft
  <2>3. OpLeft' \in {Limit - 0 + 1, Cardinality(fq_delayed) + Limit + 2}
    BY <1>1, <2>1 DEF OpLeft
  <2>4. OpLeft' < OpLeft
    <3>1. \A a, b \in Nat : b - 0 + 1 < a + b + 3 /\ a + b + 2 < a + b + 3
      OBVIOUS
    <3>2. Limit \in Nat /\ Cardinality(fq_delayed) \in Nat
      BY LeftNumbers, Constants
    <3> QED BY Zenon, <2>2, <2>3, <3>1, <3>2
  <2> QED BY <2>1, <2>4, MoveCounts
<1> QED BY Zenon, <1>2, <1>3, <1>4 DEF bpf_fq_dequeue

LEMMA UnsetCounts ==
    ASSUME TypeOK, TypeOK', OpInv, OpInv', fq_unset_throttled_flows
    PROVE  Below(AllLeft', AllLeft)
<1>1. /\ pc \in {"unset", "unset_all"}
      /\ UNCHANGED <<i, now, sent, arrived, resets, attaches>>
  BY DEF fq_unset_throttled_flows
<1>2. /\ Limit \in Nat /\ Cardinality(fq_delayed) \in Nat /\ i \in 0..Limit
  BY LeftNumbers, Constants DEF TypeOK
<1>3. CASE Unset
  <2>1. CASE pc = "unset"
    <3>1. pc' = "loop" /\ UNCHANGED <<timer, kick>>
      BY <1>3, <2>1 DEF Unset
    <3>2. OpLeft = Cardinality(fq_delayed) + Limit + 2 /\ OpLeft' = Limit - i + 1
      BY <1>1, <2>1, <3>1 DEF OpLeft
    <3>3. OpLeft' < OpLeft
      BY <1>2, <3>2
    <3> QED BY <1>1, <3>1, <3>3, MoveCounts
  <2>2. CASE pc = "unset_all"
    <3>1. pc' \in {"down", "idle"} /\ timer' = Never /\ kick' = FALSE
      BY <1>3, <2>2 DEF Unset
    <3>2. OpLeft = Cardinality(fq_delayed) + 1 /\ OpLeft' = 0
      BY <2>2, <3>1 DEF OpLeft
    <3>3. OpLeft' < OpLeft
      BY <1>2, <3>2
    <3> QED BY <1>1, <3>1, <3>3, MoveCounts
  <2> QED BY <1>1, <2>1, <2>2
<1>4. ASSUME NEW f \in fq_delayed, fq_delayed' = fq_delayed \ {f},
             UNCHANGED <<pc, timer, kick>>
      PROVE  Below(AllLeft', AllLeft)
  <2>1. Cardinality(fq_delayed') = Cardinality(fq_delayed) - 1
    BY <1>4, FS_RemoveElement DEF OpInv
  <2>2. OpLeft' < OpLeft
    <3>1. CASE pc = "unset"
      <4>1. OpLeft = Cardinality(fq_delayed) + Limit + 2
            /\ OpLeft' = Cardinality(fq_delayed') + Limit + 2
        BY <1>4, <3>1 DEF OpLeft
      <4> QED BY <1>2, <2>1, <4>1
    <3>2. CASE pc = "unset_all"
      <4>1. OpLeft = Cardinality(fq_delayed) + 1 /\ OpLeft' = Cardinality(fq_delayed') + 1
        BY <1>4, <3>2 DEF OpLeft
      <4> QED BY <1>2, <2>1, <4>1
    <3> QED BY <1>1, <3>1, <3>2
  <2> QED BY <1>1, <1>4, <2>2, MoveCounts
<1> QED BY <1>3, <1>4, ZenonT(30) DEF fq_unset_throttled_flows

LEMMA RoundCounts ==
    ASSUME TypeOK, TypeOK', OpInv, OpInv', IdsOK, Awake, fq_dequeue_nonprio_flows \/ RoundsOver
    PROVE  Below(AllLeft', AllLeft)
<1>1. pc = "loop" /\ kick /\ ktime_cache = now /\ time_next_delayed_flow > now
  BY DEF Awake, OpInv, fq_dequeue_nonprio_flows, RoundsOver
<1>2. 0 \in Nat /\ time_next_delayed_flow \in Nat
  BY Constants DEF TypeOK
<1>3. ASSUME Continue PROVE Below(AllLeft', AllLeft)
  <2>1. /\ pc' = "loop" /\ i' = i + 1
        /\ UNCHANGED <<now, timer, kick, sent, arrived, resets, attaches>>
    BY <1>3, Zenon DEF Continue, kernel, history
  <2>2. OpLeft = Limit - i + 1 /\ OpLeft' = Limit - (i + 1) + 1
    BY <1>1, <2>1 DEF OpLeft
  <2>3. OpLeft' < OpLeft
    BY <2>2, Constants DEF TypeOK
  <2> QED BY <2>1, <2>3, MoveCounts
<1>4. ASSUME NEW x, ReturnNull(x), x = 0 \/ x = time_next_delayed_flow
      PROVE  Below(AllLeft', AllLeft)
  BY <1>1, <1>2, <1>4, NullCounts
<1>5. ASSUME NEW l \in {"new", "old"}, fq_flows[l] # <<>>, NEW f, f = Head(fq_flows[l]), SendFirst(f)
      PROVE  Below(AllLeft', AllLeft)
  <2>1. f \in FlowId
    <3>1. fq_flows[l] \in Seq(FlowId)
      BY DEF TypeOK
    <3> QED BY <1>5, <3>1
  <2>2. flow[f].queue # {} /\ Return(skbn_first(flow[f].queue))
    BY <1>5, Zenon DEF SendFirst
  <2> QED BY <2>1, <2>2, HandOutCounts
<1>6. ASSUME NEW l, NEW f, NEW fs, NEW n,
             \/ OutOfCredit(f, fs, n) \/ EmptyFlow(l, f, fs, n) \/ fq_flow_set_throttled(f, fs, n)
      PROVE  Below(AllLeft', AllLeft)
  BY Zenon, <1>3, <1>6 DEF OutOfCredit, EmptyFlow, fq_flow_set_throttled
<1>7. ASSUME NEW l, NoFront(l) PROVE Below(AllLeft', AllLeft)
  BY Zenon, <1>4, <1>7 DEF NoFront
<1>8. CASE RoundsOver
  BY Zenon, <1>4, <1>8 DEF RoundsOver
<1>9. CASE fq_dequeue_nonprio_flows
  BY <1>4, <1>5, <1>6, <1>7, <1>9, ZenonT(60) DEF fq_dequeue_nonprio_flows
<1> QED BY <1>8, <1>9

LEMMA DrainCounts ==
    ASSUME TypeOK, TypeOK', OpInv, OpInv', fq_remove_flows_in_list
    PROVE  Below(AllLeft', AllLeft)
<1>1. /\ pc = "drain"
      /\ UNCHANGED <<fq_delayed, now, timer, kick, sent, arrived, resets, attaches>>
  BY DEF fq_remove_flows_in_list, kernel, history
<1> DEFINE a == Len(fq_flows["new"])
           b == Len(fq_flows["old"])
           c == Cardinality(fq_delayed)
<1>2. a \in Nat /\ b \in Nat /\ c \in Nat
  <2>1. fq_flows["new"] \in Seq(FlowId) /\ fq_flows["old"] \in Seq(FlowId)
    BY DEF TypeOK
  <2> QED BY <2>1, LeftNumbers
<1>3. OpLeft = a + b + c + 2
  BY <1>1 DEF OpLeft
<1>4. CASE pc' = "unset_all"
  <2>1. OpLeft' = c + 1
    BY <1>1, <1>4 DEF OpLeft
  <2>2. OpLeft' < OpLeft
    <3> HIDE DEF a, b, c
    <3> QED BY <1>2, <1>3, <2>1
  <2> QED BY <1>1, <2>2, MoveCounts
<1>5. ASSUME NEW l \in {"new", "old"}, fq_flows[l] # <<>>,
             fq_flows' = [fq_flows EXCEPT ![l] = Tail(@)], pc' = pc
      PROVE  Below(AllLeft', AllLeft)
  <2>1. fq_flows[l] \in Seq(FlowId) /\ fq_flows \in [{"new", "old"} -> Seq(FlowId)]
    BY DEF TypeOK
  <2>2. Len(Tail(fq_flows[l])) = Len(fq_flows[l]) - 1
    BY <1>5, <2>1, TailFacts
  <2>3. Len(fq_flows'[l]) = Len(fq_flows[l]) - 1
        /\ \A k \in {"new", "old"} \ {l} : fq_flows'[k] = fq_flows[k]
    BY <1>5, <2>1, <2>2
  <2>4. OpLeft' = Len(fq_flows'["new"]) + Len(fq_flows'["old"]) + c + 2
    BY <1>1, <1>5 DEF OpLeft
  <2>5. \/ Len(fq_flows'["new"]) = a - 1 /\ Len(fq_flows'["old"]) = b
        \/ Len(fq_flows'["new"]) = a /\ Len(fq_flows'["old"]) = b - 1
    BY <1>5, <2>3
  <2>6. OpLeft' < OpLeft
    <3>1. \A x, y, z \in Nat : /\ (x - 1) + y + z + 2 < x + y + z + 2
                              /\ x + (y - 1) + z + 2 < x + y + z + 2
      OBVIOUS
    <3>2. OpLeft' = (a - 1) + b + c + 2 \/ OpLeft' = a + (b - 1) + c + 2
      BY Zenon, <2>4, <2>5
    <3> HIDE DEF a, b, c
    <3> QED BY Zenon, <1>2, <1>3, <3>1, <3>2
  <2> QED BY <1>1, <1>5, <2>6, MoveCounts
<1> QED BY <1>4, <1>5, ZenonT(30) DEF fq_remove_flows_in_list

LEMMA StepCounts ==
    ASSUME TypeOK, TypeOK', OpInv, OpInv', IdsOK, Awake, [Next]_vars
    PROVE  [Below(AllLeft', AllLeft)]_vars
<1> SUFFICES ASSUME Next PROVE Below(AllLeft', AllLeft)
  OBVIOUS
<1>1. ASSUME NEW c, NEW t, NEW n, bpf_fq_enqueue(c, t, n) PROVE Below(AllLeft', AllLeft)
  <2>1. arrived' = arrived + 1 /\ UNCHANGED <<resets, attaches>>
    BY <1>1 DEF bpf_fq_enqueue
  <2> QED BY <2>1, OutsideCounts
<1>2. ASSUME bpf_fq_init PROVE Below(AllLeft', AllLeft)
  <2>1. attaches' = attaches + 1 /\ UNCHANGED <<arrived, resets>>
    BY <1>2 DEF bpf_fq_init
  <2> QED BY <2>1, OutsideCounts
<1>3. ASSUME NEW d, bpf_fq_reset(d) PROVE Below(AllLeft', AllLeft)
  <2>1. resets' = resets + 1 /\ UNCHANGED <<arrived, attaches>>
    BY <1>3 DEF bpf_fq_reset
  <2> QED BY <2>1, OutsideCounts
<1> QED BY <1>1, <1>2, <1>3, ClockCounts, DequeueCounts, UnsetCounts, RoundCounts, DrainCounts,
           ZenonT(30) DEF Next, Dequeue

LEMMA OpInvStep ==
    ASSUME TypeOK, OpInv, [Next]_vars
    PROVE  OpInv'
<1>1. IsFiniteSet(fq_delayed')
  <2>1. \/ UNCHANGED fq_delayed
        \/ \E f \in fq_delayed : fq_delayed' = fq_delayed \ {f}
        \/ \E f : fq_delayed' = fq_delayed \cup {f}
    <3>1. ASSUME NEW c, NEW t, NEW n, bpf_fq_enqueue(c, t, n) PROVE UNCHANGED fq_delayed
      BY <3>1 DEF bpf_fq_enqueue
    <3>2. ASSUME \/ bpf_fq_init \/ bpf_fq_dequeue \/ RoundsOver \/ (\E d \in BOOLEAN : bpf_fq_reset(d))
                 \/ fq_remove_flows_in_list \/ Tick \/ Watchdog
          PROVE  UNCHANGED fq_delayed
      BY <3>2, Zenon DEF bpf_fq_init, bpf_fq_dequeue, RoundsOver, bpf_fq_reset,
                         fq_remove_flows_in_list, Tick, Watchdog
    <3>3. ASSUME fq_unset_throttled_flows
          PROVE  UNCHANGED fq_delayed \/ \E f \in fq_delayed : fq_delayed' = fq_delayed \ {f}
      BY <3>3, ZenonT(30) DEF fq_unset_throttled_flows
    <3>4. ASSUME fq_dequeue_nonprio_flows
          PROVE  UNCHANGED fq_delayed \/ \E f : fq_delayed' = fq_delayed \cup {f}
      <4>1. ASSUME NEW l, NEW f, NEW fs, NEW n,
                   \/ OutOfCredit(f, fs, n) \/ EmptyFlow(l, f, fs, n) \/ SendFirst(f) \/ NoFront(l)
            PROVE  UNCHANGED fq_delayed
        BY <4>1, Zenon DEF OutOfCredit, EmptyFlow, SendFirst, NoFront
      <4>2. ASSUME NEW f, NEW fs, NEW n, fq_flow_set_throttled(f, fs, n)
            PROVE  fq_delayed' = fq_delayed \cup {f}
        BY <4>2 DEF fq_flow_set_throttled
      <4> QED BY <3>4, <4>1, <4>2, ZenonT(30) DEF fq_dequeue_nonprio_flows
    <3>5. UNCHANGED vars => UNCHANGED fq_delayed
      BY DEF vars
    <3> QED BY <3>1, <3>2, <3>3, <3>4, <3>5, ZenonT(30) DEF Next, Dequeue
  <2>2. IsFiniteSet(fq_delayed)
    BY DEF OpInv
  <2> QED BY <2>1, <2>2, FS_AddElement, FS_RemoveElement, Zenon
<1>2. pc' \in {"unset", "loop"} => ktime_cache' = now'
  <2> SUFFICES ASSUME pc' \in {"unset", "loop"} PROVE ktime_cache' = now'
    OBVIOUS
  <2>1. ASSUME NEW c, NEW t, NEW n, bpf_fq_enqueue(c, t, n) PROVE FALSE
    BY <2>1 DEF bpf_fq_enqueue
  <2>2. ~ bpf_fq_init /\ ~ RoundsOver /\ ~ fq_remove_flows_in_list /\ ~ Tick /\ ~ Watchdog
    BY DEF bpf_fq_init, RoundsOver, ReturnNull, fq_remove_flows_in_list, Tick, Watchdog
  <2>3. ASSUME NEW d, bpf_fq_reset(d) PROVE FALSE
    BY <2>3 DEF bpf_fq_reset
  <2>4. ASSUME bpf_fq_dequeue PROVE ktime_cache' = now'
    BY <2>4 DEF bpf_fq_dequeue, ReturnNull, fq_dequeue_prio, Return, fq_check_throttled, kernel
  <2>5. ASSUME fq_unset_throttled_flows PROVE ktime_cache' = now'
    <3>1. UNCHANGED <<ktime_cache, now>>
      BY <2>5 DEF fq_unset_throttled_flows
    <3>2. pc = "unset"
      BY <2>5 DEF fq_unset_throttled_flows, Unset
    <3> QED BY <3>1, <3>2 DEF OpInv
  <2>6. ASSUME fq_dequeue_nonprio_flows PROVE ktime_cache' = now'
    <3>1. pc = "loop" /\ UNCHANGED ktime_cache
      BY <2>6 DEF fq_dequeue_nonprio_flows
    <3>2. UNCHANGED now
      <4>1. ASSUME NEW x, ReturnNull(x) \/ Return(x) \/ Continue PROVE UNCHANGED now
        BY <4>1, Zenon DEF ReturnNull, Return, Continue, kernel
      <4>2. ASSUME NEW l, NEW f, NEW fs, NEW n,
                   \/ OutOfCredit(f, fs, n) \/ EmptyFlow(l, f, fs, n) \/ SendFirst(f) \/ NoFront(l)
                   \/ fq_flow_set_throttled(f, fs, n)
            PROVE  UNCHANGED now
        BY <4>1, <4>2, Zenon DEF OutOfCredit, EmptyFlow, SendFirst, NoFront, fq_flow_set_throttled
      <4> QED BY <2>6, <4>1, <4>2, ZenonT(30) DEF fq_dequeue_nonprio_flows
    <3> QED BY <3>1, <3>2 DEF OpInv
  <2>7. UNCHANGED vars => ktime_cache' = now'
    BY DEF vars, kernel, OpInv
  <2> QED BY <2>1, <2>2, <2>3, <2>4, <2>5, <2>6, <2>7, ZenonT(30) DEF Next, Dequeue
<1> QED BY <1>1, <1>2 DEF OpInv

LEMMA OpInvariance == Spec => [](TypeOK /\ FlowInv /\ PacketInv /\ OpInv)
<1>1. Init => OpInv
  BY FS_EmptySet DEF Init, OpInv
<1>2. TypeOK /\ OpInv /\ [Next]_vars => OpInv'
  BY OpInvStep
<1> QED BY <1>1, <1>2, PacketInvariance, PTL DEF Spec

\* With finitely many arrivals, resets and attachments the scheduler takes
\* finitely many steps: what is left are natural numbers, and every step lowers
\* them in their lexicographic order.  No dequeue runs for ever, none follows
\* another without a packet handed out, a request answered or time passing.
THEOREM SchedulerComesToRest == Spec => []LeftIsFinite /\ [][Below(AllLeft', AllLeft)]_vars
<1>1. TypeOK /\ OpInv => LeftIsFinite
  BY LeftNumbers DEF LeftIsFinite, AllLeft
<1>2. TypeOK /\ TypeOK' /\ OpInv /\ OpInv' /\ PacketInv /\ [Next]_vars =>
        [Below(AllLeft', AllLeft)]_vars
  BY StepCounts DEF PacketInv
<1> QED BY <1>1, <1>2, OpInvariance, PTL DEF Spec

\* The guards of the steps that the kernel owes, read off the actions: Dequeue,
\* fq_remove_flows_in_list, Tick and Watchdog.
CanDequeue ==
    \/ pc = "idle" /\ kick
    \/ /\ pc \in {"unset", "unset_all"}
       /\ \/ fq_delayed = {}
          \/ \E f \in fq_delayed : \A g \in fq_delayed :
               flow[f].time_next_packet <= flow[g].time_next_packet
    \/ pc = "loop" /\ i <= Limit
CanGoOn ==
    \/ CanDequeue
    \/ pc = "drain"
    \/ pc \in {"idle", "down"} /\ now < MaxTime
    \/ pc = "idle" /\ timer <= now

\* Where none of these steps can be taken, Drains has come true.
RestsDrained == ~CanGoOn => qlen = 0 \/ left > 0 \/ exhausted

\* The scheduler stops in the middle of no operation, and between operations
\* only with an empty queue (or one of the exceptions of Drains): a packet held
\* has a watchdog set for it, whose time comes.  With SchedulerComesToRest and
\* the fairness of FairSpec this gives Drains.
THEOREM SchedulerRestsDrained == Spec => []RestsDrained
<1>1. TypeOK /\ FlowInv /\ PacketInv /\ OpInv => RestsDrained
  <2> SUFFICES ASSUME TypeOK, FlowInv, PacketInv, OpInv, ~CanGoOn, qlen # 0, left = 0, ~exhausted
               PROVE  FALSE
    BY DEF RestsDrained, TypeOK
  <2>1. pc \notin {"unset", "unset_all"}
    <3> SUFFICES ASSUME pc \in {"unset", "unset_all"}, fq_delayed # {}
                 PROVE  \E f \in fq_delayed : \A g \in fq_delayed :
                          flow[f].time_next_packet <= flow[g].time_next_packet
      BY Zenon DEF CanGoOn, CanDequeue
    <3> DEFINE T == {flow[f].time_next_packet : f \in fq_delayed}
    <3>1. T \subseteq Nat /\ T # {}
      <4>1. \A f \in fq_delayed : flow[f] \in Node
        BY DEF TypeOK
      <4>2. \A f \in fq_delayed : flow[f].time_next_packet \in Nat
        BY <4>1, Constants DEF Node
      <4> QED BY Zenon, <4>2
    <3>2. PICK x \in T : \A y \in T : x <= y
      <4> HIDE DEF T
      <4> QED BY Zenon, <3>1, Smallest
    <3> QED BY <3>2
  <2>2. pc = "idle" /\ ~kick /\ ~(now < MaxTime) /\ ~(timer <= now)
    <3>1. pc # "loop"
      BY Constants DEF CanGoOn, CanDequeue, TypeOK
    <3>2. pc # "down"
      BY DEF PacketInv, QlenInv, Resetting
    <3>3. pc = "idle"
      BY <2>1, <3>1, <3>2 DEF CanGoOn, TypeOK
    <3> QED BY <3>3 DEF CanGoOn, CanDequeue
  <2>3. PICK f \in Live : flow[f].queue # {}
    <3>1. Cardinality(Held(Live)) # 0
      BY <2>2 DEF PacketInv, QlenInv, QlenCountsPackets, TypeOK
    <3>2. Held(Live) # {}
      BY Zenon, <3>1, FS_EmptySet
    <3> QED BY Zenon, <3>2 DEF Held
  <2>4. timer <= flow[f].time_next_packet
    BY <2>2, <2>3 DEF PacketInv, NeverSleepsOnWork
  <2>5. flow[f].time_next_packet \in 0..MaxTime /\ now \in 1..MaxTime /\ timer \in Nat /\ MaxTime \in Nat
    BY Constants DEF TypeOK, Node, Live
  <2> QED BY <2>2, <2>4, <2>5
<1> QED BY <1>1, OpInvariance, PTL
=============================================================================
