------------------------- MODULE FairQueueFlowProofs -------------------------
(***************************************************************************)
(* Where the flows of the packet scheduler are: proofs of OnePlace,        *)
(* AgeTellsPlace, NoStrandedPacket, LooksInTime and CreditBounded for      *)
(* every value of the constants.                                           *)
(*                                                                         *)
(* FlowInv is the inductive invariant.  It speaks of every flow object,    *)
(* free ones included: a flow that has no place is detached, and holds a   *)
(* packet only if it is the prio flow.  With it, dropping a reference      *)
(* frees no packet outside a reset.                                        *)
(***************************************************************************)
EXTENDS FairQueueProofs

-----------------------------------------------------------------------------
(* The two lists together *)

In(fs) == Range(fs["new"]) \cup Range(fs["old"])
ListsOK(fs) ==
    /\ IsInjective(fs["new"]) /\ IsInjective(fs["old"])
    /\ Range(fs["new"]) \cap Range(fs["old"]) = {}

LEMMA AddFacts ==
    ASSUME NEW fs \in [{"new", "old"} -> Seq(FlowId)], NEW l \in {"new", "old"},
           NEW f \in FlowId, ListsOK(fs), f \notin In(fs)
    PROVE  /\ ListsOK(fq_flows_add_tail(fs, l, f))
           /\ In(fq_flows_add_tail(fs, l, f)) = In(fs) \cup {f}
<1> DEFINE gs == fq_flows_add_tail(fs, l, f)
<1>1. fs[l] \in Seq(FlowId) /\ f \notin Range(fs[l]) /\ IsInjective(fs[l])
  BY DEF In, ListsOK
<1>2. Range(Append(fs[l], f)) = Range(fs[l]) \cup {f} /\ IsInjective(Append(fs[l], f))
  BY <1>1, AppendFacts
<1>3. gs[l] = Append(fs[l], f) /\ \A k \in {"new", "old"} : k # l => gs[k] = fs[k]
  BY DEF fq_flows_add_tail
<1> HIDE DEF gs
<1>4. ListsOK(gs) /\ In(gs) = In(fs) \cup {f}
  <2>1. CASE l = "new"
    BY Zenon, <1>2, <1>3, <2>1 DEF In, ListsOK
  <2>2. CASE l = "old"
    BY Zenon, <1>2, <1>3, <2>2 DEF In, ListsOK
  <2> QED BY <2>1, <2>2
<1> QED BY <1>4 DEF gs

LEMMA RemoveFacts ==
    ASSUME NEW fs \in [{"new", "old"} -> Seq(FlowId)], NEW l \in {"new", "old"},
           fs[l] # <<>>, ListsOK(fs)
    PROVE  /\ Head(fs[l]) \in FlowId /\ Head(fs[l]) \in In(fs)
           /\ [fs EXCEPT ![l] = Tail(@)] \in [{"new", "old"} -> Seq(FlowId)]
           /\ ListsOK([fs EXCEPT ![l] = Tail(@)])
           /\ In([fs EXCEPT ![l] = Tail(@)]) = In(fs) \ {Head(fs[l])}
<1> DEFINE gs == [fs EXCEPT ![l] = Tail(@)]
           t == Tail(fs[l])
           f == Head(fs[l])
<1>1. fs[l] \in Seq(FlowId) /\ IsInjective(fs[l])
  BY DEF ListsOK
<1>2. /\ t \in Seq(FlowId) /\ f \in FlowId /\ f \in Range(fs[l])
      /\ Range(fs[l]) = Range(t) \cup {f} /\ IsInjective(t) /\ f \notin Range(t)
  BY <1>1, TailFacts
<1>3. gs[l] = t /\ \A k \in {"new", "old"} : k # l => gs[k] = fs[k]
  OBVIOUS
<1>4. gs \in [{"new", "old"} -> Seq(FlowId)]
  BY <1>2
<1> HIDE DEF gs, t, f
<1>5. f \in In(fs) /\ ListsOK(gs) /\ In(gs) = In(fs) \ {f}
  <2>1. CASE l = "new"
    BY <1>2, <1>3, <2>1 DEF In, ListsOK
  <2>2. CASE l = "old"
    BY <1>2, <1>3, <2>2 DEF In, ListsOK
  <2> QED BY <2>1, <2>2
<1> QED BY Zenon, <1>2, <1>4, <1>5 DEF gs, f

-----------------------------------------------------------------------------
(* The invariant *)

\* The prio flow is in no other map, and a detached qdisc has no throttled
\* flow.
PrioApart == \A h \in Hash : fq_nonprio_flows[h] # Absent => fq_nonprio_flows[h] # fq_prio_flows
DownEmpty == pc = "down" => fq_delayed = {}

\* Active and throttled flows are where their age says; a flow that is neither
\* is detached, and holds no packet unless it is the prio flow.
CreditOK(n) == n.credit <= Larger(Quantum, InitialQuantum) /\ \E k \in PktLen : n.credit > -k
FlowOK(f) ==
    /\ f \in In(fq_flows) => flow[f].age = 0
    /\ f \in fq_delayed => flow[f].age = Throttled /\ flow[f].queue # {}
    /\ f \notin In(fq_flows) \cup fq_delayed =>
         fq_flow_is_detached(flow[f]) /\ (f # fq_prio_flows => flow[f].queue = {})
LooksOK(f) == f \in fq_delayed => time_next_delayed_flow <= flow[f].time_next_packet

FlowInv ==
    /\ ListsOK(fq_flows) /\ fq_delayed \cap In(fq_flows) = {}
    /\ PrioApart /\ fq_prio_flows \notin In(fq_flows) \cup fq_delayed
    /\ \A f \in FlowId : FlowOK(f)
    /\ \A f \in FlowId : CreditOK(flow[f])
    /\ pc # "unset" => \A f \in FlowId : LooksOK(f)
    /\ pc \in {"drain", "unset_all"} => \A h \in Hash : fq_nonprio_flows[h] = Absent
    /\ DownEmpty
    /\ pc # "idle" /\ fq_prio_flows # Absent => flow[fq_prio_flows].queue = {}

\* What freeing objects leaves: a flow with a place, or the prio flow, is as g
\* has it, any other is that or free.
LEMMA ObjectsFacts ==
    ASSUME NEW g, flow' = Objects(g), NEW f \in FlowId
    PROVE  /\ f \in In(fq_flows') \cup fq_delayed' => flow'[f] = g[f]
           /\ f = fq_prio_flows' => flow'[f] = g[f]
           /\ flow'[f] = g[f] \/ flow'[f] = NewNode
           /\ f \notin Live' => flow'[f] = NewNode
<1>1. flow'[f] = IF f \in Live' THEN g[f] ELSE NewNode
  BY DEF Objects
<1>2. f \in In(fq_flows') \cup fq_delayed' => f \in Live'
  BY DEF In, Live, Placed
<1>3. f = fq_prio_flows' => f \in Live'
  BY DEF Live, Stashed
<1> QED BY <1>1, <1>2, <1>3

LEMMA NewNodeFacts ==
    /\ NewNode.age = 1 /\ NewNode.queue = {} /\ NewNode.time_next_packet = 0
    /\ fq_flow_is_detached(NewNode) /\ CreditOK(NewNode)
<1>1. CreditOK(NewNode)
  <2>1. PICK k \in PktLen : k \in Nat /\ k > 0
    BY Zenon, Constants
  <2>2. InitialQuantum > -k /\ InitialQuantum <= Larger(Quantum, InitialQuantum)
    BY <2>1, Constants DEF Larger
  <2> QED BY <2>1, <2>2 DEF CreditOK, NewNode
<1> QED BY <1>1 DEF NewNode, fq_flow_is_detached, Throttled

\* A flow that keeps its place and its node, or is free of both, stays right.
LEMMA Stays ==
    ASSUME NEW f \in FlowId, FlowOK(f), CreditOK(flow[f]),
           f \in In(fq_flows') <=> f \in In(fq_flows),
           f \in fq_delayed' <=> f \in fq_delayed,
           \/ flow'[f] = flow[f]
           \/ f \notin In(fq_flows) \cup fq_delayed /\ flow'[f] = NewNode,
           f # fq_prio_flows' => f # fq_prio_flows \/ flow'[f].queue = {}
    PROVE  /\ FlowOK(f)' /\ CreditOK(flow'[f])
           /\ LooksOK(f) /\ time_next_delayed_flow' = time_next_delayed_flow => LooksOK(f)'
<1>1. CASE flow'[f] = flow[f]
  BY <1>1 DEF FlowOK, LooksOK
<1>2. CASE f \notin In(fq_flows) \cup fq_delayed /\ flow'[f] = NewNode
  BY <1>2, NewNodeFacts DEF FlowOK, LooksOK
<1> QED BY <1>1, <1>2

LEMMA FlowInvInit == Init => FlowInv
<1> SUFFICES ASSUME Init PROVE FlowInv
  OBVIOUS
<1>1. ListsOK(fq_flows) /\ In(fq_flows) = {} /\ fq_delayed = {}
  BY EmptyFacts DEF Init, ListsOK, In
<1>2. \A f \in FlowId : flow[f] = NewNode
  BY DEF Init
<1>3. \A f \in FlowId : FlowOK(f) /\ CreditOK(flow[f]) /\ LooksOK(f)
  BY <1>1, <1>2, NewNodeFacts DEF FlowOK, LooksOK
<1>4. PrioApart /\ DownEmpty /\ fq_prio_flows = Absent /\ pc = "down"
  BY <1>1 DEF PrioApart, DownEmpty, Init
<1> QED BY <1>1, <1>3, <1>4, Zenon DEF FlowInv

\* Attaching: the flow made for the prio map was free, the one it replaces
\* held nothing.
LEMMA FlowInvAttach ==
    ASSUME TypeOK, FlowInv, bpf_fq_init
    PROVE  FlowInv'
<1>1. /\ fq_prio_flows' \in FlowId /\ fq_prio_flows' \notin Live
      /\ UNCHANGED <<fq_nonprio_flows, fq_flows, fq_delayed>>
      /\ flow' = Objects([flow EXCEPT ![fq_prio_flows'] = NewNode])
      /\ pc = "down" /\ pc' = "idle"
  BY DEF bpf_fq_init
<1> DEFINE x == fq_prio_flows'
           g == [flow EXCEPT ![x] = NewNode]
<1>2. x \notin In(fq_flows) \cup fq_delayed /\ \A h \in Hash : fq_nonprio_flows[h] # x
  BY <1>1 DEF Live, Placed, Stashed, In
<1>3. \A f \in FlowId : g[f] = IF f = x THEN NewNode ELSE flow[f]
  BY DEF TypeOK
<1>4. fq_delayed = {} /\ (fq_prio_flows # Absent => flow[fq_prio_flows].queue = {})
  BY <1>1 DEF FlowInv, DownEmpty
<1> HIDE DEF g, x
<1>5. ASSUME NEW f \in FlowId PROVE FlowOK(f)' /\ CreditOK(flow'[f]) /\ LooksOK(f)'
  <2>1. FlowOK(f) /\ CreditOK(flow[f])
    BY DEF FlowInv
  <2>2. flow'[f] = g[f] \/ flow'[f] = NewNode
    BY Zenon, <1>1, ObjectsFacts DEF g, x
  <2>3. LooksOK(f)'
    BY <1>1, <1>4 DEF LooksOK
  <2>4. CASE f \in In(fq_flows)
    <3>1. flow'[f] = flow[f]
      <4>1. flow'[f] = g[f]
        BY Zenon, <1>1, <2>4, ObjectsFacts DEF g, x
      <4> QED BY <4>1, <1>2, <1>3, <2>4
    <3> QED BY Zenon, <1>1, <2>1, <2>3, <2>4, <3>1 DEF FlowOK
  <2>5. CASE f \notin In(fq_flows)
    <3>1. f # x => flow[f].queue = {} /\ fq_flow_is_detached(flow[f])
      BY <1>4, <2>1, <2>5, Constants DEF FlowOK
    <3>2. fq_flow_is_detached(flow'[f]) /\ flow'[f].queue = {} /\ CreditOK(flow'[f])
      BY <2>1, <2>2, <1>3, <3>1, NewNodeFacts
    <3> QED BY Zenon, <1>1, <1>4, <2>3, <2>5, <3>2 DEF FlowOK
  <2> QED BY <2>4, <2>5
<1>6. PrioApart' /\ fq_prio_flows' \notin In(fq_flows') \cup fq_delayed' /\ DownEmpty'
  BY <1>1, <1>2 DEF PrioApart, DownEmpty, x
<1>7. ListsOK(fq_flows') /\ fq_delayed' \cap In(fq_flows') = {}
  BY <1>1 DEF FlowInv
<1> QED BY <1>1, <1>5, <1>6, <1>7, Zenon DEF FlowInv

\* An enqueue that drops its packet may have collected flows, all detached.
LEMMA FlowInvDropped ==
    ASSUME TypeOK, FlowInv, Dropped, pc' = "idle",
           UNCHANGED <<fq_prio_flows, fq_delayed, time_next_delayed_flow>>, pc = "idle"
    PROVE  FlowInv'
<1>1. PICK m : Collected(m) /\ UNCHANGED <<fq_flows, flow_cnt>> /\ Drop(m, flow)
  BY DEF Dropped
<1>2. fq_nonprio_flows' = m /\ flow' = Objects(flow) /\ fq_flows' = fq_flows
  BY <1>1 DEF Drop
<1>3. ASSUME NEW f \in FlowId PROVE FlowOK(f)' /\ CreditOK(flow'[f]) /\ LooksOK(f)'
  <2>1. FlowOK(f) /\ CreditOK(flow[f]) /\ LooksOK(f)
    BY DEF FlowInv
  <2>2. /\ f \in In(fq_flows') \cup fq_delayed' => flow'[f] = flow[f]
        /\ f = fq_prio_flows' => flow'[f] = flow[f]
        /\ flow'[f] = flow[f] \/ flow'[f] = NewNode
    BY <1>2, ObjectsFacts
  <2> QED BY <1>2, <2>1, <2>2, Stays
<1>4. PrioApart'
  BY <1>1, <1>2, Constants DEF PrioApart, Collected, FlowInv
<1>5. /\ ListsOK(fq_flows') /\ fq_delayed' \cap In(fq_flows') = {} /\ DownEmpty'
      /\ fq_prio_flows' \notin In(fq_flows') \cup fq_delayed'
  BY <1>2 DEF FlowInv, DownEmpty
<1> QED BY <1>3, <1>4, <1>5, Zenon DEF FlowInv

LEMMA QuantumCredit == ASSUME NEW n, n.credit = Quantum PROVE CreditOK(n)
<1>1. PICK k \in PktLen : k \in Nat /\ k > 0
  BY Zenon, Constants
<1>2. Quantum > -k /\ Quantum <= Larger(Quantum, InitialQuantum)
  BY <1>1, Constants DEF Larger
<1> QED BY <1>1, <1>2 DEF CreditOK

\* The flow an enqueue works on is the prio flow exactly for the prio class,
\* has no place when it is detached, and then no packet unless it is prio.
LEMMA Chosen ==
    ASSUME TypeOK, FlowInv, pc = "idle", NEW f \in FlowId, NEW m, NEW g, NEW cls,
           StashedFlow(f, cls, m, g) \/ FreshFlow(f, cls, m, g)
    PROVE  /\ f = fq_prio_flows <=> cls = Prio
           /\ CreditOK(g[f])
           /\ \A h \in FlowId : h # f => g[h] = flow[h]
           /\ f \in In(fq_flows) => g[f].age = 0
           /\ f \in fq_delayed => /\ g[f].age = Throttled /\ g[f].queue # {}
                                  /\ time_next_delayed_flow <= g[f].time_next_packet
           /\ f \notin In(fq_flows) \cup fq_delayed =>
                fq_flow_is_detached(g[f]) /\ (cls # Prio => g[f].queue = {})
           /\ \A h \in Hash : m[h] # Absent => m[h] # fq_prio_flows
<1>1. PrioApart /\ FlowOK(f) /\ CreditOK(flow[f]) /\ LooksOK(f)
  BY DEF FlowInv
<1>2. CASE StashedFlow(f, cls, m, g)
  <2>1. f = fq_prio_flows <=> cls = Prio
    BY <1>1, <1>2, Constants DEF StashedFlow, PrioApart
  <2> QED BY <1>1, <1>2, <2>1 DEF StashedFlow, FlowOK, LooksOK, PrioApart
<1>3. CASE FreshFlow(f, cls, m, g)
  <2>1. f \notin In(fq_flows) \cup fq_delayed /\ f # fq_prio_flows
    BY <1>3 DEF FreshFlow, Live, Placed, Stashed, In
  <2>2. g[f] = NewNode /\ \A h \in FlowId : h # f => g[h] = flow[h]
    BY <1>3 DEF FreshFlow, TypeOK
  <2>3. cls # Prio
    BY <1>3, Constants DEF FreshFlow
  <2>4. \A h \in Hash : m[h] # Absent => m[h] # fq_prio_flows
    BY <1>1, <1>3, <2>1 DEF FreshFlow, PrioApart
  <2> QED BY <2>1, <2>2, <2>3, <2>4, NewNodeFacts
<1> QED BY <1>2, <1>3

LEMMA FlowInvBrought ==
    ASSUME TypeOK, FlowInv, Brought, pc' = "idle",
           UNCHANGED <<fq_prio_flows, fq_delayed, time_next_delayed_flow>>, pc = "idle"
    PROVE  FlowInv'
<1>1. PICK f \in FlowId, m \in Maps, g \in [FlowId -> Node], p \in Packet,
           cls \in Hash \cup {Prio} :
        ToFlow(f, cls, m, g, p) /\ (StashedFlow(f, cls, m, g) \/ FreshFlow(f, cls, m, g))
  BY Zenon DEF Brought
<1>2. PICK node \in Node : /\ flow' = Objects([g EXCEPT ![f] = node])
                           /\ Queued(f, g, p, node) /\ Listed(f, cls, g, node)
  BY <1>1, ToFlowCases, Zenon
<1>3. fq_nonprio_flows' = m
  BY <1>1, ToFlowCases, Zenon
<1>4. /\ f = fq_prio_flows <=> cls = Prio
      /\ CreditOK(g[f])
      /\ \A h \in FlowId : h # f => g[h] = flow[h]
      /\ f \in In(fq_flows) => g[f].age = 0
      /\ f \in fq_delayed => /\ g[f].age = Throttled /\ g[f].queue # {}
                             /\ time_next_delayed_flow <= g[f].time_next_packet
      /\ f \notin In(fq_flows) \cup fq_delayed =>
           fq_flow_is_detached(g[f]) /\ (cls # Prio => g[f].queue = {})
      /\ \A h \in Hash : m[h] # Absent => m[h] # fq_prio_flows
  BY <1>1, Chosen, ZenonT(30)
<1>5. CreditOK(node)
  BY <1>2, <1>4, QuantumCredit DEF Queued, CreditOK
<1>6. node.time_next_packet = g[f].time_next_packet /\ g[f].queue \subseteq node.queue
  BY <1>2 DEF Queued
<1>7. \/ /\ fq_flows' = fq_flows /\ node.age = g[f].age
         /\ cls = Prio \/ ~fq_flow_is_detached(g[f]) \/ node.queue = g[f].queue
      \/ /\ cls # Prio /\ fq_flow_is_detached(g[f]) /\ node.age = 0
         /\ fq_flows' = fq_flows_add_tail(fq_flows, "new", f)
  BY <1>2 DEF Listed, fq_flows_add_tail
<1>8. fq_flow_is_detached(g[f]) => f \notin In(fq_flows) \cup fq_delayed
  BY <1>4 DEF fq_flow_is_detached
<1>9. /\ ListsOK(fq_flows') /\ fq_delayed' \cap In(fq_flows') = {}
      /\ fq_prio_flows' \notin In(fq_flows') \cup fq_delayed'
      /\ \/ In(fq_flows') = In(fq_flows) /\ fq_flows' = fq_flows
         \/ In(fq_flows') = In(fq_flows) \cup {f} /\ node.age = 0
  <2>1. /\ ListsOK(fq_flows) /\ fq_delayed \cap In(fq_flows) = {}
        /\ fq_prio_flows \notin In(fq_flows) \cup fq_delayed
    BY DEF FlowInv
  <2>2. CASE fq_flows' = fq_flows
    BY <2>1, <2>2
  <2>3. CASE /\ cls # Prio /\ fq_flow_is_detached(g[f]) /\ node.age = 0
             /\ fq_flows' = fq_flows_add_tail(fq_flows, "new", f)
    <3>1. fq_flows \in [{"new", "old"} -> Seq(FlowId)] /\ "new" \in {"new", "old"}
      BY DEF TypeOK
    <3>2. f \notin In(fq_flows) /\ f \notin fq_delayed /\ f # fq_prio_flows
      BY <1>4, <1>8, <2>3
    <3>3. ListsOK(fq_flows') /\ In(fq_flows') = In(fq_flows) \cup {f}
      BY <2>1, <2>3, <3>1, <3>2, AddFacts
    <3> QED BY <2>1, <2>3, <3>2, <3>3
  <2> QED BY SMTT(30), <1>7, <2>2, <2>3
<1>10. FlowOK(f)' /\ CreditOK(flow'[f]) /\ LooksOK(f)'
  <2> DEFINE gg == [g EXCEPT ![f] = node]
  <2>1. gg[f] = node
    OBVIOUS
  <2>2. /\ f \in In(fq_flows') \cup fq_delayed' => flow'[f] = gg[f]
        /\ f = fq_prio_flows' => flow'[f] = gg[f]
        /\ flow'[f] = gg[f] \/ flow'[f] = NewNode
    BY Zenon, <1>2, ObjectsFacts
  <2> HIDE DEF gg
  <2>3. CreditOK(flow'[f])
    BY <2>1, <2>2, <1>5, NewNodeFacts
  <2>4. f \in fq_delayed' => flow'[f] = node /\ f \in fq_delayed
    BY <2>1, <2>2
  <2>5. LooksOK(f)'
    BY <2>4, <1>4, <1>6 DEF LooksOK
  <2>6. f \in In(fq_flows') => flow'[f].age = 0
    BY <2>1, <2>2, <1>4, <1>7, <1>9
  <2>7. f \in fq_delayed' => flow'[f].age = Throttled /\ flow'[f].queue # {}
    <3> SUFFICES ASSUME f \in fq_delayed' PROVE flow'[f].age = Throttled /\ flow'[f].queue # {}
      OBVIOUS
    <3>1. ~fq_flow_is_detached(g[f]) /\ f \in fq_delayed /\ flow'[f] = node
      BY <1>8, <2>4
    <3>2. node.age = g[f].age
      BY Zenon, <1>7, <3>1
    <3>3. g[f].age = Throttled /\ g[f].queue # {}
      BY Zenon, <1>4, <3>1
    <3> QED BY <3>1, <3>2, <3>3, <1>6
  <2>8. f \notin In(fq_flows') \cup fq_delayed' =>
          fq_flow_is_detached(flow'[f]) /\ (f # fq_prio_flows' => flow'[f].queue = {})
    <3> SUFFICES ASSUME f \notin In(fq_flows') \cup fq_delayed'
                 PROVE fq_flow_is_detached(flow'[f]) /\ (f # fq_prio_flows' => flow'[f].queue = {})
      OBVIOUS
    <3>1. /\ f \notin In(fq_flows) \cup fq_delayed /\ fq_flow_is_detached(g[f])
          /\ cls # Prio => g[f].queue = {}
      BY <1>4, <1>9
    <3>2. In(fq_flows') = In(fq_flows) /\ fq_flows' = fq_flows
      BY <1>9
    <3>3. \/ cls = Prio /\ node.age = g[f].age
          \/ node.queue = g[f].queue /\ node.age = g[f].age
      <4>1. CASE fq_flows' = fq_flows_add_tail(fq_flows, "new", f) /\ cls # Prio
        <5>1. fq_flows \in [{"new", "old"} -> Seq(FlowId)] /\ "new" \in {"new", "old"}
          BY SMTT(30) DEF TypeOK
        <5>2. In(fq_flows') = In(fq_flows) \cup {f}
          BY SMTT(30), <3>1, <4>1, <5>1, AddFacts DEF FlowInv
        <5> QED BY <5>2, <3>1, <3>2
      <4> QED BY <3>1, <4>1, <1>7
    <3>4. fq_flow_is_detached(node) /\ (cls # Prio => node.queue = {})
      BY SMTT(30), <3>1, <3>3 DEF fq_flow_is_detached
    <3> QED BY SMTT(30), <3>4, <2>1, <2>2, <1>4, NewNodeFacts
  <2> QED BY <2>3, <2>5, <2>6, <2>7, <2>8 DEF FlowOK
<1>11. ASSUME NEW h \in FlowId, h # f PROVE FlowOK(h)' /\ CreditOK(flow'[h]) /\ LooksOK(h)'
  <2>1. FlowOK(h) /\ CreditOK(flow[h]) /\ LooksOK(h)
    BY DEF FlowInv
  <2> DEFINE gg == [g EXCEPT ![f] = node]
  <2>2. gg[h] = flow[h]
    BY <1>4, <1>11
  <2>3. /\ h \in In(fq_flows') \cup fq_delayed' => flow'[h] = gg[h]
        /\ h = fq_prio_flows' => flow'[h] = gg[h]
        /\ flow'[h] = gg[h] \/ flow'[h] = NewNode
    BY Zenon, <1>2, ObjectsFacts
  <2> HIDE DEF gg
  <2>4. h \in In(fq_flows') <=> h \in In(fq_flows)
    BY <1>9, <1>11
  <2> QED BY SMTT(30), <2>1, <2>2, <2>3, <2>4, Stays
<1>12. PrioApart' /\ DownEmpty'
  BY <1>3, <1>4 DEF PrioApart, DownEmpty
<1> QED BY <1>9, <1>10, <1>11, <1>12, Zenon DEF FlowInv

\* A step that moves nothing.
LEMMA FlowInvSame ==
    ASSUME FlowInv, pc' = pc \/ (pc' = "idle" /\ pc # "unset"),
           UNCHANGED <<fq_prio_flows, fq_nonprio_flows, flow, fq_flows, fq_delayed,
                       time_next_delayed_flow>>
    PROVE  FlowInv'
<1>1. /\ \A f \in FlowId : FlowOK(f)' /\ CreditOK(flow'[f])
      /\ pc # "unset" => \A f \in FlowId : LooksOK(f)'
  BY Zenon DEF FlowInv, FlowOK, CreditOK, LooksOK
<1>2. PrioApart' /\ DownEmpty'
  BY DEF FlowInv, PrioApart, DownEmpty
<1> QED BY <1>1, <1>2, Zenon DEF FlowInv

LEMMA FlowInvDequeue ==
    ASSUME TypeOK, FlowInv, bpf_fq_dequeue
    PROVE  FlowInv'
<1>1. /\ UNCHANGED <<fq_prio_flows, fq_nonprio_flows, fq_flows, fq_delayed>> /\ pc = "idle"
  BY DEF bpf_fq_dequeue
<1>2. CASE ReturnNull(0) /\ UNCHANGED <<flow, time_next_delayed_flow, ktime_cache, i>>
  <2>1. pc' = "idle"
    BY <1>2 DEF ReturnNull
  <2> QED BY <1>1, <1>2, <2>1, FlowInvSame
<1>3. CASE fq_dequeue_prio
  <2> DEFINE x == fq_prio_flows
             Q == flow[x].queue \ {skbn_first(flow[x].queue)}
  <2>1. /\ x \in FlowId /\ pc' = "idle" /\ time_next_delayed_flow' = time_next_delayed_flow
        /\ flow' = [flow EXCEPT ![x] = [flow[x] EXCEPT !.queue = Q]]
    BY <1>3 DEF fq_dequeue_prio, TypeOK, Return
  <2>2. flow \in [FlowId -> Node]
    BY DEF TypeOK
  <2> HIDE DEF Q
  <2>3. ASSUME NEW f \in FlowId PROVE FlowOK(f)' /\ CreditOK(flow'[f]) /\ LooksOK(f)'
    <3>1. FlowOK(f) /\ CreditOK(flow[f]) /\ LooksOK(f) /\ x \notin In(fq_flows) \cup fq_delayed
      BY <1>1 DEF FlowInv
    <3>2. CASE f # x
      <4>1. flow'[f] = flow[f]
        BY SMTT(30), <2>1, <2>2, <3>2
      <4> QED BY <1>1, <2>1, <3>1, <4>1, Stays
    <3>3. CASE f = x
      <4>1. flow'[f].age = flow[f].age /\ flow'[f].credit = flow[f].credit
        BY <2>1, <2>2, <3>3 DEF Node
      <4> QED BY <1>1, <3>1, <3>3, <4>1 DEF FlowOK, CreditOK, LooksOK, fq_flow_is_detached
    <3> QED BY <3>2, <3>3
  <2>4. PrioApart' /\ DownEmpty'
    BY <1>1, <2>1 DEF FlowInv, PrioApart, DownEmpty
  <2> QED BY <1>1, <2>1, <2>3, <2>4, Zenon DEF FlowInv
<1>4. CASE fq_check_throttled
  <2>1. /\ fq_prio_flows # Absent => flow[fq_prio_flows].queue = {}
        /\ flow' = flow
        /\ \/ pc' = "loop" /\ time_next_delayed_flow' = time_next_delayed_flow
           \/ pc' = "unset"
    BY <1>4 DEF fq_check_throttled
  <2>2. \A f \in FlowId : FlowOK(f)' /\ CreditOK(flow'[f])
    BY <1>1, <2>1, Zenon DEF FlowInv, FlowOK, CreditOK
  <2>3. pc' # "unset" => \A f \in FlowId : LooksOK(f)'
    BY <1>1, <2>1, Zenon DEF FlowInv, LooksOK
  <2>4. PrioApart' /\ DownEmpty'
    BY <1>1, <2>1 DEF FlowInv, PrioApart, DownEmpty
  <2>5. pc' \notin {"drain", "unset_all"}
    BY <2>1
  <2> QED BY <1>1, <2>1, <2>2, <2>3, <2>4, <2>5, ZenonT(30) DEF FlowInv
<1> QED BY <1>2, <1>3, <1>4, Zenon DEF bpf_fq_dequeue

\* A throttled flow becomes active, or the loop ends: with the time of the
\* first flow that stays throttled, or with none throttled.
LEMMA FlowInvUnset ==
    ASSUME TypeOK, FlowInv, fq_unset_throttled_flows
    PROVE  FlowInv'
<1>1. /\ UNCHANGED <<fq_prio_flows, fq_nonprio_flows>> /\ pc \in {"unset", "unset_all"}
  BY DEF fq_unset_throttled_flows
<1>2. ASSUME Unset, UNCHANGED <<flow, fq_flows, fq_delayed>>,
             pc = "unset" \/ fq_delayed = {},
             \A f \in FlowId : LooksOK(f)'
      PROVE  FlowInv'
  <2>1. \/ pc = "unset" /\ pc' = "loop"
        \/ pc' \in {"down", "idle"} /\ fq_delayed = {}
    BY <1>2 DEF Unset
  <2>2. \A f \in FlowId : FlowOK(f)' /\ CreditOK(flow'[f])
    BY <1>1, <1>2, Zenon DEF FlowInv, FlowOK, CreditOK
  <2>3. PrioApart' /\ DownEmpty'
    BY <1>1, <1>2, <2>1 DEF FlowInv, PrioApart, DownEmpty
  <2>4. pc' \notin {"drain", "unset_all"} /\ pc # "idle"
    BY <1>1, <2>1
  <2> QED BY <1>1, <1>2, <2>2, <2>3, <2>4, Zenon DEF FlowInv
<1>3. CASE fq_delayed = {} /\ Unset /\ UNCHANGED <<flow, fq_flows, fq_delayed>>
  BY <1>2, <1>3, Zenon DEF LooksOK
<1>4. ASSUME NEW f \in fq_delayed, pc = "unset", Unset, UNCHANGED <<flow, fq_flows, fq_delayed>>,
             \A g \in fq_delayed : flow[f].time_next_packet <= flow[g].time_next_packet,
             time_next_delayed_flow' = flow[f].time_next_packet
      PROVE  FlowInv'
  <2>1. \A g \in FlowId : LooksOK(g)'
    BY <1>4, Zenon DEF LooksOK
  <2> QED BY <1>2, <1>4, <2>1
<1>5. ASSUME NEW f \in fq_delayed, fq_delayed' = fq_delayed \ {f},
             flow' = [flow EXCEPT ![f].age = 0],
             fq_flows' = fq_flows_add_tail(fq_flows, "old", f),
             UNCHANGED <<pc, time_next_delayed_flow>>
      PROVE  FlowInv'
  <2>1. /\ f \in FlowId /\ flow \in [FlowId -> Node] /\ "old" \in {"new", "old"}
        /\ fq_flows \in [{"new", "old"} -> Seq(FlowId)]
    BY DEF TypeOK
  <2>2. /\ ListsOK(fq_flows) /\ f \notin In(fq_flows) /\ f # fq_prio_flows
        /\ fq_delayed \cap In(fq_flows) = {}
        /\ fq_prio_flows \notin In(fq_flows) \cup fq_delayed
    BY DEF FlowInv
  <2>3. ListsOK(fq_flows') /\ In(fq_flows') = In(fq_flows) \cup {f}
    BY <1>5, <2>1, <2>2, AddFacts
  <2>4. /\ flow'[f].age = 0 /\ flow'[f].credit = flow[f].credit
        /\ \A h \in FlowId : h # f => flow'[h] = flow[h]
    BY <1>5, <2>1 DEF Node
  <2>5. ASSUME NEW h \in FlowId
        PROVE  FlowOK(h)' /\ CreditOK(flow'[h]) /\ (LooksOK(h) => LooksOK(h)')
    <3>1. FlowOK(h) /\ CreditOK(flow[h])
      BY DEF FlowInv
    <3>2. CASE h = f
      BY <1>5, <2>3, <2>4, <3>1, <3>2 DEF FlowOK, CreditOK, LooksOK
    <3>3. CASE h # f
      <4>1. (h \in In(fq_flows') <=> h \in In(fq_flows)) /\ (h \in fq_delayed' <=> h \in fq_delayed)
        BY <1>5, <2>3, <3>3
      <4>2. flow'[h] = flow[h]
        BY <2>4, <3>3
      <4> QED BY <1>1, <1>5, <3>1, <4>1, <4>2, Stays
    <3> QED BY <3>2, <3>3
  <2>6. fq_prio_flows # Absent => flow'[fq_prio_flows] = flow[fq_prio_flows]
    BY <2>2, <2>4 DEF TypeOK
  <2>7. PrioApart' /\ DownEmpty' /\ fq_delayed' \cap In(fq_flows') = {}
        /\ fq_prio_flows' \notin In(fq_flows') \cup fq_delayed'
    <3>1. PrioApart' /\ DownEmpty'
      BY <1>1, <1>5 DEF FlowInv, PrioApart, DownEmpty
    <3> QED BY <1>1, <1>5, <2>2, <2>3, <3>1
  <2> QED BY <1>1, <1>5, <2>3, <2>5, <2>6, <2>7, Zenon DEF FlowInv
<1> QED BY <1>1, <1>3, <1>4, <1>5, Zenon DEF fq_unset_throttled_flows

\* The front flow f of a list after its round: fs is the lists without it.
\* It goes to the old list, becomes detached with no packet, or throttled with
\* one; nothing else moves.
Front(l, f, fs) ==
    /\ l \in {"new", "old"} /\ fq_flows[l] # <<>>
    /\ f = Head(fq_flows[l]) /\ fs = [fq_flows EXCEPT ![l] = Tail(@)]

LEMMA FrontFacts ==
    ASSUME TypeOK, FlowInv, NEW l, NEW f, NEW fs, Front(l, f, fs)
    PROVE  /\ f \in FlowId /\ f \in In(fq_flows) /\ f \notin fq_delayed /\ f # fq_prio_flows
           /\ flow[f] \in Node /\ flow \in [FlowId -> Node]
           /\ fs \in [{"new", "old"} -> Seq(FlowId)]
           /\ ListsOK(fs) /\ In(fs) = In(fq_flows) \ {f} /\ f \notin In(fs)
           /\ ListsOK(fq_flows_add_tail(fs, "old", f))
           /\ In(fq_flows_add_tail(fs, "old", f)) = In(fq_flows)
<1>1. fq_flows \in [{"new", "old"} -> Seq(FlowId)] /\ flow \in [FlowId -> Node]
  BY DEF TypeOK
<1>2. /\ ListsOK(fq_flows) /\ fq_delayed \cap In(fq_flows) = {}
      /\ fq_prio_flows \notin In(fq_flows) \cup fq_delayed
  BY DEF FlowInv
<1>3. /\ f \in FlowId /\ f \in In(fq_flows) /\ fs \in [{"new", "old"} -> Seq(FlowId)]
      /\ ListsOK(fs) /\ In(fs) = In(fq_flows) \ {f}
  BY Zenon, <1>1, <1>2, RemoveFacts DEF Front
<1>4. f \notin In(fs) /\ f \notin fq_delayed /\ f # fq_prio_flows /\ flow[f] \in Node
  BY <1>1, <1>2, <1>3
<1>5. /\ ListsOK(fq_flows_add_tail(fs, "old", f))
      /\ In(fq_flows_add_tail(fs, "old", f)) = In(fs) \cup {f}
  BY <1>3, <1>4, AddFacts
<1>6. In(fs) \cup {f} = In(fq_flows)
  BY <1>3
<1> QED BY Zenon, <1>1, <1>3, <1>4, <1>5, <1>6

\* The flows other than f keep their places, and their nodes unless they are
\* freed.
OthersStay(f) ==
    \A h \in FlowId : h # f =>
        /\ h \in In(fq_flows') <=> h \in In(fq_flows)
        /\ h \in fq_delayed' <=> h \in fq_delayed
        /\ \/ flow'[h] = flow[h]
           \/ h \notin In(fq_flows) \cup fq_delayed /\ h # fq_prio_flows /\ flow'[h] = NewNode

\* A round leaves the invariant when it treats its flow and leaves the others.
LEMMA RoundKeeps ==
    ASSUME TypeOK, FlowInv, pc = "loop", pc' \in {"loop", "idle"}, NEW f \in FlowId,
           f # fq_prio_flows,
           UNCHANGED <<fq_prio_flows, fq_nonprio_flows>>,
           ListsOK(fq_flows'), fq_delayed' \cap In(fq_flows') = {},
           OthersStay(f),
           FlowOK(f)', CreditOK(flow'[f]), LooksOK(f)',
           \/ time_next_delayed_flow' = time_next_delayed_flow
           \/ \A h \in FlowId : h # f /\ LooksOK(h) => LooksOK(h)',
           In(fq_flows') \cup fq_delayed' \subseteq FlowId
    PROVE  FlowInv'
<1>1. ASSUME NEW h \in FlowId PROVE FlowOK(h)' /\ CreditOK(flow'[h]) /\ LooksOK(h)'
  <2>1. CASE h = f
    BY SMTT(30), <2>1
  <2>2. CASE h # f
    <3>1. FlowOK(h) /\ CreditOK(flow[h]) /\ LooksOK(h)
      BY SMTT(30) DEF FlowInv
    <3>2. /\ h \in In(fq_flows') <=> h \in In(fq_flows)
          /\ h \in fq_delayed' <=> h \in fq_delayed
          /\ \/ flow'[h] = flow[h]
             \/ h \notin In(fq_flows) \cup fq_delayed /\ h # fq_prio_flows /\ flow'[h] = NewNode
      BY Zenon, <2>2 DEF OthersStay
    <3>3. h # fq_prio_flows' => h # fq_prio_flows \/ flow'[h].queue = {}
      OBVIOUS
    <3>4. /\ FlowOK(h)' /\ CreditOK(flow'[h])
          /\ LooksOK(h) /\ time_next_delayed_flow' = time_next_delayed_flow => LooksOK(h)'
      BY Zenon, <3>1, <3>2, <3>3, Stays
    <3> QED BY Zenon, <2>2, <3>1, <3>4
  <2> QED BY <2>1, <2>2
<1>2. fq_prio_flows # Absent => flow'[fq_prio_flows] = flow[fq_prio_flows]
  <2>1. fq_prio_flows # Absent => fq_prio_flows \in FlowId
    BY DEF TypeOK
  <2> QED BY Zenon, <2>1 DEF OthersStay
<1>3. fq_prio_flows' \notin In(fq_flows') \cup fq_delayed'
  <2>1. fq_prio_flows \notin In(fq_flows) /\ fq_prio_flows \notin fq_delayed
    BY Zenon DEF FlowInv
  <2>2. CASE fq_prio_flows \in FlowId
    <3>1. /\ fq_prio_flows \in In(fq_flows') <=> fq_prio_flows \in In(fq_flows)
          /\ fq_prio_flows \in fq_delayed' <=> fq_prio_flows \in fq_delayed
      BY Zenon, <2>2 DEF OthersStay
    <3> QED BY Zenon, <2>1, <3>1
  <2>3. CASE fq_prio_flows \notin FlowId
    BY Zenon, <2>3
  <2> QED BY Zenon, <2>2, <2>3
<1>4. PrioApart' /\ DownEmpty' /\ pc' \notin {"drain", "unset_all"}
  BY DEF FlowInv, PrioApart, DownEmpty
<1> QED BY <1>1, <1>2, <1>3, <1>4, ZenonT(30) DEF FlowInv

LEMMA RoundCredit ==
    ASSUME TypeOK, FlowInv, NEW f \in FlowId, NEW n
    PROVE  /\ flow[f].credit <= 0 /\ n.credit = flow[f].credit + Quantum => CreditOK(n)
           /\ \A k \in PktLen : flow[f].credit > 0 /\ n.credit = flow[f].credit - k => CreditOK(n)
<1>1. flow[f].credit \in Int /\ CreditOK(flow[f])
  BY DEF TypeOK, Node, FlowInv
<1>2. PICK k \in PktLen : flow[f].credit > -k /\ k \in Nat
  BY <1>1, Constants DEF CreditOK
<1>3. flow[f].credit <= 0 /\ n.credit = flow[f].credit + Quantum => CreditOK(n)
  <2> SUFFICES ASSUME flow[f].credit <= 0, n.credit = flow[f].credit + Quantum PROVE CreditOK(n)
    OBVIOUS
  <2>1. n.credit <= Larger(Quantum, InitialQuantum) /\ n.credit > -k
    BY <1>1, <1>2, Constants DEF Larger
  <2> QED BY <2>1 DEF CreditOK
<1>4. ASSUME NEW j \in PktLen, flow[f].credit > 0, n.credit = flow[f].credit - j
      PROVE  CreditOK(n)
  <2>1. flow[f].credit <= Larger(Quantum, InitialQuantum) /\ j \in Nat /\ j > 0
    BY <1>1, Constants DEF CreditOK
  <2>2. Larger(Quantum, InitialQuantum) \in Nat
    BY Constants DEF Larger
  <2>3. n.credit <= Larger(Quantum, InitialQuantum) /\ n.credit > -j
    BY <1>1, <1>4, <2>1, <2>2
  <2> QED BY <2>3 DEF CreditOK
<1> QED BY <1>3, <1>4

LEMMA FlowInvRound ==
    ASSUME TypeOK, TypeOK', FlowInv, fq_dequeue_nonprio_flows
    PROVE  FlowInv'
<1>1. /\ UNCHANGED <<fq_prio_flows, fq_nonprio_flows>> /\ pc = "loop"
  BY DEF fq_dequeue_nonprio_flows
<1>2. In(fq_flows') \cup fq_delayed' \subseteq FlowId
  <2>1. /\ fq_flows'["new"] \in Seq(FlowId) /\ fq_flows'["old"] \in Seq(FlowId)
        /\ fq_delayed' \subseteq FlowId
    BY DEF TypeOK
  <2>2. \A q \in Seq(FlowId) : Range(q) \subseteq FlowId
    BY DEF Range
  <2> QED BY SMTT(30), <2>1, <2>2 DEF In
<1>3. ASSUME NEW x, ReturnNull(x),
             UNCHANGED <<flow, fq_flows, fq_delayed, time_next_delayed_flow>>
      PROVE  FlowInv'
  <2>1. pc' = "idle"
    BY SMTT(30), <1>3 DEF ReturnNull
  <2> QED BY <1>1, <1>3, <2>1, FlowInvSame
<1>4. ASSUME NEW l, NEW f, NEW fs, NEW n, Front(l, f, fs), OutOfCredit(f, fs, n)
      PROVE  FlowInv'
  <2>1. /\ f \in FlowId /\ f \in In(fq_flows) /\ f \notin fq_delayed /\ f # fq_prio_flows
        /\ flow[f] \in Node /\ flow \in [FlowId -> Node]
        /\ ListsOK(fq_flows_add_tail(fs, "old", f))
        /\ In(fq_flows_add_tail(fs, "old", f)) = In(fq_flows)
    BY <1>4, FrontFacts, Zenon
  <2>2. /\ ListsOK(fq_flows') /\ In(fq_flows') = In(fq_flows) /\ pc' = "loop"
        /\ UNCHANGED <<fq_delayed, time_next_delayed_flow>> /\ flow[f].credit <= 0
    BY <1>4, <2>1 DEF OutOfCredit, Continue
  <2>3. /\ flow'[f].credit = flow[f].credit + Quantum /\ flow'[f].age = flow[f].age
        /\ \A h \in FlowId : h # f => flow'[h] = flow[h]
    BY SMTT(30), <1>4, <2>1 DEF OutOfCredit, Node
  <2>4. CreditOK(flow'[f])
    BY SMTT(30), <2>1, <2>2, <2>3, RoundCredit
  <2>5. FlowOK(f)' /\ LooksOK(f)' /\ fq_delayed' \cap In(fq_flows') = {}
    BY Zenon, <2>1, <2>2, <2>3 DEF FlowInv, FlowOK, LooksOK
  <2>6. OthersStay(f)
    BY Zenon, <2>2, <2>3 DEF OthersStay
  <2> QED BY Zenon, <1>1, <1>2, <2>1, <2>2, <2>4, <2>5, <2>6, RoundKeeps
<1>5. ASSUME NEW l, NEW f, NEW fs, NEW n, Front(l, f, fs), EmptyFlow(l, f, fs, n)
      PROVE  FlowInv'
  <2>1. /\ f \in FlowId /\ f \in In(fq_flows) /\ f \notin fq_delayed /\ f # fq_prio_flows
        /\ flow[f] \in Node /\ flow \in [FlowId -> Node]
        /\ ListsOK(fs) /\ In(fs) = In(fq_flows) \ {f} /\ f \notin In(fs)
        /\ ListsOK(fq_flows_add_tail(fs, "old", f))
        /\ In(fq_flows_add_tail(fs, "old", f)) = In(fq_flows)
    BY <1>5, FrontFacts, Zenon
  <2>2. /\ UNCHANGED <<fq_delayed, time_next_delayed_flow>> /\ pc' = "loop"
        /\ flow[f].queue = {}
    BY SMTT(30), <1>5 DEF EmptyFlow, Continue
  <2>3. FlowOK(f) /\ CreditOK(flow[f]) /\ LooksOK(f) /\ fq_delayed \cap In(fq_flows) = {}
    BY SMTT(30), <1>1, <2>1 DEF FlowInv
  <2>4. CASE fq_flows' = fq_flows_add_tail(fs, "old", f) /\ flow' = flow
    <3>1. ListsOK(fq_flows') /\ In(fq_flows') = In(fq_flows)
      BY SMTT(30), <2>1, <2>4
    <3>2. FlowOK(f)' /\ CreditOK(flow'[f]) /\ LooksOK(f)' /\ fq_delayed' \cap In(fq_flows') = {}
      BY Zenon, <1>1, <2>1, <2>2, <2>3, <2>4, <3>1 DEF FlowOK, LooksOK, CreditOK
    <3>3. OthersStay(f)
      BY Zenon, <2>2, <2>4, <3>1 DEF OthersStay
    <3> QED BY Zenon, <1>1, <1>2, <2>1, <2>2, <3>1, <3>2, <3>3, RoundKeeps
  <2>5. CASE fq_flows' = fs /\ flow' = Objects([flow EXCEPT ![f].age = now])
    <3> DEFINE g == [flow EXCEPT ![f].age = now]
    <3>1. /\ g[f].age = now /\ g[f].queue = {} /\ g[f].credit = flow[f].credit
          /\ \A h \in FlowId : h # f => g[h] = flow[h]
      BY <2>1, <2>2 DEF Node
    <3>2. \A h \in FlowId : /\ h \in In(fq_flows') \cup fq_delayed' => flow'[h] = g[h]
                            /\ h = fq_prio_flows' => flow'[h] = g[h]
                            /\ flow'[h] = g[h] \/ flow'[h] = NewNode
      BY Zenon, <2>5, ObjectsFacts
    <3> HIDE DEF g
    <3>3. ListsOK(fq_flows') /\ In(fq_flows') = In(fq_flows) \ {f}
      BY <2>1, <2>5
    <3>4. now \in Nat /\ now # 0 /\ now # Throttled
      <4>1. now \in 1..MaxTime
        BY DEF TypeOK
      <4> QED BY <4>1, Constants DEF Throttled
    <3>5. fq_flow_is_detached(flow'[f]) /\ flow'[f].queue = {} /\ CreditOK(flow'[f])
      BY <2>1, <2>3, <3>1, <3>2, <3>4, NewNodeFacts DEF fq_flow_is_detached, CreditOK
    <3>6. FlowOK(f)' /\ LooksOK(f)' /\ fq_delayed' \cap In(fq_flows') = {}
      <4>1. f \notin In(fq_flows') /\ f \notin fq_delayed'
        BY <2>1, <2>2, <3>3
      <4>2. fq_delayed' \cap In(fq_flows') = {}
        BY <2>2, <2>3, <3>3
      <4> QED BY Zenon, <3>5, <4>1, <4>2 DEF FlowOK, LooksOK
    <3>7. OthersStay(f)
      <4> SUFFICES ASSUME NEW h \in FlowId, h # f
                   PROVE  /\ h \in In(fq_flows') <=> h \in In(fq_flows)
                          /\ h \in fq_delayed' <=> h \in fq_delayed
                          /\ \/ flow'[h] = flow[h]
                             \/ /\ h \notin In(fq_flows) \cup fq_delayed
                                /\ h # fq_prio_flows /\ flow'[h] = NewNode
        BY Zenon DEF OthersStay
      <4>1. /\ h \in In(fq_flows') <=> h \in In(fq_flows)
            /\ h \in fq_delayed' <=> h \in fq_delayed
            /\ g[h] = flow[h]
        BY <2>2, <3>1, <3>3
      <4> QED BY Zenon, <1>1, <3>2, <4>1
    <3> QED BY Zenon, <1>1, <1>2, <2>1, <2>2, <3>3, <3>5, <3>6, <3>7, RoundKeeps
  <2> QED BY <1>5, <2>4, <2>5 DEF EmptyFlow
<1>6. ASSUME NEW l, NEW f, NEW fs, NEW n, Front(l, f, fs), fq_flow_set_throttled(f, fs, n)
      PROVE  FlowInv'
  <2>1. /\ f \in FlowId /\ f \in In(fq_flows) /\ f \notin fq_delayed /\ f # fq_prio_flows
        /\ flow[f] \in Node /\ flow \in [FlowId -> Node]
        /\ ListsOK(fs) /\ In(fs) = In(fq_flows) \ {f} /\ f \notin In(fs)
    BY <1>6, FrontFacts, Zenon
  <2>2. /\ fq_flows' = fs /\ fq_delayed' = fq_delayed \cup {f} /\ pc' = "loop"
        /\ flow[f].queue # {}
    BY <1>6 DEF fq_flow_set_throttled, Continue
  <2> DEFINE x == NextTime(f)
  <2>3. /\ flow'[f].age = Throttled /\ flow'[f].time_next_packet = x
        /\ flow'[f].queue = flow[f].queue /\ flow'[f].credit = flow[f].credit
        /\ \A h \in FlowId : h # f => flow'[h] = flow[h]
    BY <1>6, <2>1 DEF fq_flow_set_throttled, Node
  <2>4. time_next_delayed_flow' = Smaller(time_next_delayed_flow, x)
    BY SMTT(30), <1>6 DEF fq_flow_set_throttled
  <2> HIDE DEF x
  <2>5. time_next_delayed_flow \in Int /\ x \in Int
    <3>1. flow'[f].time_next_packet \in 0..MaxTime
      BY Zenon, <2>1 DEF TypeOK, Node
    <3> QED BY SMTT(30), <2>3, <3>1 DEF TypeOK
  <2>6. time_next_delayed_flow' <= time_next_delayed_flow /\ time_next_delayed_flow' <= x
        /\ time_next_delayed_flow' \in Int
    BY <2>4, <2>5 DEF Smaller
  <2>7. FlowOK(f) /\ CreditOK(flow[f]) /\ fq_delayed \cap In(fq_flows) = {}
    BY <2>1 DEF FlowInv
  <2>8. FlowOK(f)' /\ CreditOK(flow'[f]) /\ LooksOK(f)'
    <3>1. f \notin In(fq_flows') /\ f \in fq_delayed'
      BY <2>1, <2>2
    <3>2. CreditOK(flow'[f])
      BY Zenon, <2>3, <2>7 DEF CreditOK
    <3> QED BY Zenon, <2>2, <2>3, <2>6, <3>1, <3>2 DEF FlowOK, LooksOK
  <2>9. ASSUME NEW h \in FlowId, h # f, LooksOK(h) PROVE LooksOK(h)'
    <3>1. flow[h].time_next_packet \in Int
      <4>1. flow[h] \in Node
        BY <2>1
      <4> QED BY <4>1, Constants DEF Node
    <3>2. (h \in fq_delayed' => h \in fq_delayed) /\ flow'[h] = flow[h]
      BY <2>2, <2>3, <2>9
    <3> QED BY <2>5, <2>6, <2>9, <3>1, <3>2 DEF LooksOK
  <2>10. ListsOK(fq_flows') /\ fq_delayed' \cap In(fq_flows') = {}
    BY SMTT(30), <2>1, <2>2, <2>7
  <2>11. OthersStay(f)
    <3>1. \A h \in FlowId : h # f => /\ h \in In(fq_flows') <=> h \in In(fq_flows)
                                     /\ h \in fq_delayed' <=> h \in fq_delayed
      BY <2>1, <2>2
    <3> QED BY Zenon, <2>3, <3>1 DEF OthersStay
  <2> QED BY Zenon, <1>1, <1>2, <2>1, <2>2, <2>8, <2>9, <2>10, <2>11, RoundKeeps
<1>7. ASSUME NEW l, NEW f, NEW fs, Front(l, f, fs), SendFirst(f)
      PROVE  FlowInv'
  <2>1. /\ f \in FlowId /\ f \in In(fq_flows) /\ f \notin fq_delayed /\ f # fq_prio_flows
        /\ flow[f] \in Node /\ flow \in [FlowId -> Node]
    BY <1>7, FrontFacts, Zenon
  <2> DEFINE p == skbn_first(flow[f].queue)
  <2>2. /\ flow[f].credit > 0 /\ flow[f].queue # {} /\ pc' = "idle"
        /\ UNCHANGED <<fq_flows, fq_delayed, time_next_delayed_flow>>
    BY <1>7 DEF SendFirst, Return
  <2>3. p.len \in PktLen
    <3>1. p \in Packet
      BY <2>1, <2>2, TakeTypes, Zenon
    <3> QED BY <3>1 DEF Packet
  <2>4. /\ flow'[f].credit = flow[f].credit - p.len /\ flow'[f].age = flow[f].age
        /\ \A h \in FlowId : h # f => flow'[h] = flow[h]
    BY SMTT(30), <1>7, <2>1 DEF SendFirst, Node
  <2> HIDE DEF p
  <2>5. CreditOK(flow'[f])
    BY Zenon, <2>1, <2>2, <2>3, <2>4, RoundCredit
  <2>6. FlowOK(f)' /\ LooksOK(f)' /\ ListsOK(fq_flows') /\ fq_delayed' \cap In(fq_flows') = {}
    <3>1. FlowOK(f) /\ ListsOK(fq_flows) /\ fq_delayed \cap In(fq_flows) = {}
      BY Zenon, <2>1 DEF FlowInv
    <3> QED BY Zenon, <2>1, <2>2, <2>4, <3>1 DEF FlowOK, LooksOK
  <2>7. OthersStay(f)
    BY Zenon, <2>2, <2>4 DEF OthersStay
  <2> QED BY Zenon, <1>1, <1>2, <2>1, <2>2, <2>5, <2>6, <2>7, RoundKeeps
<1>8. ASSUME NEW l \in {"new", "old"}, fq_flows[l] # <<>>,
             LET f == Head(fq_flows[l])
                 fs == [fq_flows EXCEPT ![l] = Tail(@)]
                 n == [flow_cnt EXCEPT ![l] = @ - 1]
             IN \/ OutOfCredit(f, fs, n) \/ EmptyFlow(l, f, fs, n)
                \/ fq_flow_set_throttled(f, fs, n) \/ SendFirst(f)
      PROVE  FlowInv'
  <2> DEFINE f == Head(fq_flows[l])
             fs == [fq_flows EXCEPT ![l] = Tail(@)]
  <2>1. Front(l, f, fs)
    BY <1>8 DEF Front
  <2> HIDE DEF f, fs
  <2> QED BY <1>4, <1>5, <1>6, <1>7, <1>8, <2>1, Zenon DEF f, fs
<1>9. ASSUME NEW l \in {"new", "old"}, NoFront(l) PROVE FlowInv'
  BY <1>3, <1>9, Zenon DEF NoFront
<1> QED BY <1>3, <1>8, <1>9, Zenon DEF fq_dequeue_nonprio_flows

\* A reset empties the maps: a flow without a place is freed, or the new prio
\* flow.
LEMMA FlowInvReset ==
    ASSUME TypeOK, FlowInv, NEW d, bpf_fq_reset(d)
    PROVE  FlowInv'
<1> DEFINE x == fq_prio_flows'
           g == [f \in FlowId |-> IF f = x THEN NewNode ELSE flow[f]]
<1>1. /\ \A h \in Hash : fq_nonprio_flows'[h] = Absent
      /\ x \in {Absent} \cup (FlowId \ Placed) /\ pc = "idle" /\ pc' = "drain"
      /\ UNCHANGED <<fq_flows, fq_delayed, time_next_delayed_flow>> /\ flow' = Objects(g)
  BY DEF bpf_fq_reset
<1>2. x \notin In(fq_flows) \cup fq_delayed
  <2>1. In(fq_flows) \cup fq_delayed \subseteq FlowId
    <3>1. /\ fq_flows["new"] \in Seq(FlowId) /\ fq_flows["old"] \in Seq(FlowId)
          /\ fq_delayed \subseteq FlowId
      BY DEF TypeOK
    <3>2. \A q \in Seq(FlowId) : Range(q) \subseteq FlowId
      BY DEF Range
    <3> QED BY <3>1, <3>2 DEF In
  <2> QED BY <1>1, <2>1, Constants DEF Placed, In
<1>3. ASSUME NEW f \in FlowId
      PROVE  /\ FlowOK(f)' /\ CreditOK(flow'[f]) /\ LooksOK(f)'
             /\ f = x => flow'[f].queue = {}
  <2>1. FlowOK(f) /\ CreditOK(flow[f]) /\ LooksOK(f)
    BY <1>1 DEF FlowInv
  <2>2. g[f] = IF f = x THEN NewNode ELSE flow[f]
    OBVIOUS
  <2>3. /\ f \in In(fq_flows') \cup fq_delayed' => flow'[f] = g[f]
        /\ f = fq_prio_flows' => flow'[f] = g[f]
        /\ flow'[f] = g[f] \/ flow'[f] = NewNode
        /\ f \notin Live' => flow'[f] = NewNode
    BY Zenon, <1>1, ObjectsFacts
  <2> HIDE DEF g
  <2>4. CASE f \in In(fq_flows) \cup fq_delayed
    <3>1. f # x /\ f \in In(fq_flows') \cup fq_delayed'
      BY Zenon, <1>1, <1>2, <2>4
    <3>2. flow'[f] = flow[f]
      BY <2>2, <2>3, <3>1
    <3> QED BY Zenon, <1>1, <2>1, <2>4, <3>1, <3>2 DEF FlowOK, LooksOK
  <2>5. CASE f \notin In(fq_flows) \cup fq_delayed
    <3>1. flow'[f] = NewNode
      <4>1. CASE f = x
        BY <2>2, <2>3, <4>1
      <4>2. CASE f # x
        <5>1. f \notin Live'
          BY SMTT(30), <1>1, <2>5, <4>2, Constants DEF Live, Stashed, Placed, In
        <5> QED BY SMTT(30), <2>3, <5>1
      <4> QED BY <4>1, <4>2
    <3> QED BY <1>1, <2>5, <3>1, NewNodeFacts DEF FlowOK, LooksOK
  <2> QED BY SMTT(30), <2>4, <2>5
<1>4. x # Absent => x \in FlowId
  BY SMTT(30), <1>1
<1>5. /\ ListsOK(fq_flows') /\ fq_delayed' \cap In(fq_flows') = {}
      /\ PrioApart' /\ DownEmpty'
  BY <1>1 DEF FlowInv, PrioApart, DownEmpty
<1> HIDE DEF x
<1> QED BY <1>1, <1>2, <1>3, <1>4, <1>5, Zenon DEF FlowInv, x

\* Draining frees the flow it removes: nothing else refers to it any more.
LEMMA FlowInvDrain ==
    ASSUME TypeOK, FlowInv, fq_remove_flows_in_list
    PROVE  FlowInv'
<1>1. /\ UNCHANGED <<fq_prio_flows, fq_nonprio_flows, fq_delayed, time_next_delayed_flow>>
      /\ pc = "drain"
  BY SMTT(30) DEF fq_remove_flows_in_list
<1>2. /\ \A h \in Hash : fq_nonprio_flows[h] = Absent
      /\ fq_delayed \cap In(fq_flows) = {} /\ ListsOK(fq_flows)
      /\ fq_prio_flows \notin In(fq_flows) \cup fq_delayed
      /\ fq_prio_flows # Absent => flow[fq_prio_flows].queue = {}
  BY SMTT(30), <1>1 DEF FlowInv
<1>3. PrioApart'
  BY <1>1, <1>2 DEF PrioApart
<1>4. CASE pc' = "unset_all" /\ UNCHANGED <<fq_flows, flow>>
  <2>1. \A f \in FlowId : FlowOK(f)' /\ CreditOK(flow'[f]) /\ LooksOK(f)'
    BY <1>1, <1>4, Zenon DEF FlowInv, FlowOK, CreditOK, LooksOK
  <2>2. DownEmpty'
    BY <1>4 DEF DownEmpty
  <2> QED BY <1>1, <1>2, <1>3, <1>4, <2>1, <2>2, Zenon DEF FlowInv
<1>5. ASSUME NEW l \in {"new", "old"}, fq_flows[l] # <<>>, pc' = pc,
             fq_flows' = [fq_flows EXCEPT ![l] = Tail(@)], flow' = Objects(flow)
      PROVE  FlowInv'
  <2> DEFINE f == Head(fq_flows[l])
  <2>1. fq_flows \in [{"new", "old"} -> Seq(FlowId)]
    BY SMTT(30) DEF TypeOK
  <2>2. /\ f \in FlowId /\ f \in In(fq_flows)
        /\ ListsOK(fq_flows') /\ In(fq_flows') = In(fq_flows) \ {f}
    BY Zenon, <1>2, <1>5, <2>1, RemoveFacts
  <2> HIDE DEF f
  <2>3. flow'[f] = NewNode
    <3>1. f \notin fq_delayed /\ f # fq_prio_flows
      BY <1>2, <2>2
    <3>2. f \notin Live'
      BY SMTT(30), <1>1, <1>2, <2>2, <3>1, Constants DEF Live, Stashed, Placed, In
    <3> QED BY <1>5, <2>2, <3>2, ObjectsFacts
  <2>4. ASSUME NEW h \in FlowId
        PROVE  /\ FlowOK(h)' /\ CreditOK(flow'[h]) /\ LooksOK(h)'
               /\ h = fq_prio_flows => flow'[h] = flow[h]
    <3>1. FlowOK(h) /\ CreditOK(flow[h]) /\ LooksOK(h)
      BY SMTT(30), <1>1 DEF FlowInv
    <3>2. /\ h \in In(fq_flows') \cup fq_delayed' => flow'[h] = flow[h]
          /\ h = fq_prio_flows' => flow'[h] = flow[h]
          /\ flow'[h] = flow[h] \/ flow'[h] = NewNode
      BY Zenon, <1>5, ObjectsFacts
    <3>3. CASE h = f
      BY <1>1, <1>2, <2>2, <2>3, <3>3, NewNodeFacts DEF FlowOK, LooksOK
    <3>4. CASE h # f
      <4>1. h \in In(fq_flows') <=> h \in In(fq_flows)
        BY SMTT(30), <2>2, <3>4
      <4> QED BY <1>1, <3>1, <3>2, <4>1, Stays
    <3> QED BY SMTT(30), <1>1, <3>2, <3>3, <3>4
  <2>5. fq_prio_flows # Absent => fq_prio_flows \in FlowId
    BY SMTT(30) DEF TypeOK
  <2>6. fq_delayed' \cap In(fq_flows') = {} /\ DownEmpty'
        /\ fq_prio_flows' \notin In(fq_flows') \cup fq_delayed'
    BY Zenon, <1>1, <1>2, <1>5, <2>2 DEF DownEmpty
  <2> QED BY <1>1, <1>2, <1>3, <1>5, <2>2, <2>4, <2>5, <2>6, ZenonT(30) DEF FlowInv
<1>6. CASE ~(fq_flows["new"] = <<>> /\ fq_flows["old"] = <<>>)
  <2>1. PICK l \in {"new", "old"} : /\ fq_flows[l] # <<>>
                                    /\ fq_flows' = [fq_flows EXCEPT ![l] = Tail(@)]
    BY Zenon, <1>6 DEF fq_remove_flows_in_list
  <2>2. flow' = Objects(flow) /\ pc' = pc
    BY <1>6 DEF fq_remove_flows_in_list
  <2> QED BY Zenon, <1>5, <2>1, <2>2
<1>7. CASE fq_flows["new"] = <<>> /\ fq_flows["old"] = <<>>
  BY <1>4, <1>7 DEF fq_remove_flows_in_list
<1> QED BY <1>6, <1>7

\* Every step keeps the invariant.
LEMMA FlowInvStep ==
    ASSUME TypeOK, TypeOK', FlowInv, [Next]_vars
    PROVE  FlowInv'
<1>1. ASSUME NEW c \in Hash \cup {Prio}, NEW t \in 0..(now + Horizon + 1), NEW n \in PktLen,
             bpf_fq_enqueue(c, t, n)
      PROVE  FlowInv'
  <2>1. /\ pc = "idle" /\ pc' = "idle"
        /\ UNCHANGED <<fq_prio_flows, fq_delayed, time_next_delayed_flow>>
    BY <1>1 DEF bpf_fq_enqueue
  <2>2. Dropped \/ Brought
    BY <1>1, EnqueueCases, Zenon
  <2> QED BY SMTT(30), <2>1, <2>2, FlowInvDropped, FlowInvBrought
<1>2. ASSUME RoundsOver \/ Tick \/ Watchdog \/ UNCHANGED vars PROVE FlowInv'
  <2>1. /\ pc' = pc \/ (pc' = "idle" /\ pc # "unset")
        /\ UNCHANGED <<fq_prio_flows, fq_nonprio_flows, flow, fq_flows, fq_delayed,
                       time_next_delayed_flow>>
    BY <1>2 DEF RoundsOver, ReturnNull, Tick, Watchdog, vars
  <2> QED BY SMTT(30), <2>1, FlowInvSame
<1> QED BY <1>1, <1>2, FlowInvAttach, FlowInvDequeue, FlowInvUnset, FlowInvRound, FlowInvReset,
           FlowInvDrain, Zenon DEF Next, Dequeue

-----------------------------------------------------------------------------
(* Theorems *)

\* What FlowInv says of the flows that are in use.
LEMMA FlowFacts ==
    ASSUME TypeOK, FlowInv
    PROVE  OnePlace /\ AgeTellsPlace /\ NoStrandedPacket /\ LooksInTime /\ CreditBounded
<1>1. OnePlace
  BY Zenon DEF FlowInv, ListsOK, In, OnePlace
<1>2. AgeTellsPlace
  <2> SUFFICES ASSUME NEW f \in Live
               PROVE  /\ flow[f].age = 0 <=> f \in In(fq_flows)
                      /\ flow[f].age = Throttled <=> f \in fq_delayed
    BY DEF AgeTellsPlace, In
  <2>1. f \in FlowId
    BY DEF Live
  <2>2. FlowOK(f)
    BY <2>1 DEF FlowInv
  <2>3. Throttled # 0
    BY DEF Throttled
  <2> QED BY <2>2, <2>3 DEF FlowOK, fq_flow_is_detached
<1>3. NoStrandedPacket
  <2>1. ASSUME NEW f \in Live \ Placed, f # fq_prio_flows PROVE flow[f].queue = {}
    <3>1. f \in FlowId /\ f \notin In(fq_flows) \cup fq_delayed
      BY SMTT(30) DEF Live, Placed, In
    <3> QED BY <2>1, <3>1 DEF FlowInv, FlowOK
  <2>2. ASSUME NEW f \in fq_delayed PROVE flow[f].queue # {}
    <3>1. f \in FlowId
      BY SMTT(30) DEF TypeOK
    <3> QED BY SMTT(30), <3>1 DEF FlowInv, FlowOK
  <2> QED BY SMTT(30), <2>1, <2>2 DEF NoStrandedPacket
<1>4. LooksInTime
  BY DEF LooksInTime, FlowInv, LooksOK, TypeOK
<1>5. CreditBounded
  BY Zenon DEF CreditBounded, FlowInv, CreditOK
<1> QED BY SMTT(30), <1>1, <1>2, <1>3, <1>4, <1>5

LEMMA FlowInvariance == Spec => [](TypeOK /\ Counted /\ FlowInv)
<1>1. Init => TypeOK /\ Counted /\ FlowInv
  <2>1. Init => Counted
    BY DEF Init, Counted
  <2> QED BY <2>1, TypeInit, FlowInvInit
<1>2. TypeOK /\ Counted /\ FlowInv /\ [Next]_vars => (TypeOK /\ Counted /\ FlowInv)'
  <2> SUFFICES ASSUME TypeOK, Counted, FlowInv, [Next]_vars
               PROVE  (TypeOK /\ Counted /\ FlowInv)'
    OBVIOUS
  <2>1. TypeOK' /\ Counted'
    BY TypeStep
  <2>2. FlowInv'
    BY <2>1, FlowInvStep
  <2> QED BY <2>1, <2>2
<1> QED BY <1>1, <1>2, PTL DEF Spec

\* fq_flows_add_tail and fq_flow_set_throttled never link a flow that is linked:
\* the lists and the tree of throttled flows hold every flow at most once, for
\* any number of flows, packets, resets and attachments.
THEOREM FlowsHaveOnePlace == Spec => []OnePlace
<1>1. TypeOK /\ Counted /\ FlowInv => OnePlace
  BY FlowFacts
<1> QED BY <1>1, FlowInvariance, PTL

\* The state machine that the comment above fq_flow_set_detached describes: a
\* flow's age says whether it is active, throttled or detached.
THEOREM AgesTellPlaces == Spec => []AgeTellsPlace
<1>1. TypeOK /\ Counted /\ FlowInv => AgeTellsPlace
  BY FlowFacts
<1> QED BY <1>1, FlowInvariance, PTL

\* A packet waits only where bpf_fq_dequeue finds it, however flows are
\* collected, replaced, detached and throttled.
THEOREM PacketsAreReachable == Spec => []NoStrandedPacket
<1>1. TypeOK /\ Counted /\ FlowInv => NoStrandedPacket
  BY FlowFacts
<1> QED BY <1>1, FlowInvariance, PTL

\* time_next_delayed_flow, by which fq_check_throttled decides whether to look
\* at the throttled flows, is never later than the first one's time.
THEOREM SchedulerLooksInTime == Spec => []LooksInTime
<1>1. TypeOK /\ Counted /\ FlowInv => LooksInTime
  BY FlowFacts
<1> QED BY <1>1, FlowInvariance, PTL

\* The deficit round robin of fq_dequeue_nonprio_flows keeps a flow's credit
\* within a packet below 0 and a quantum above it.
THEOREM CreditStaysBounded == Spec => []CreditBounded
<1>1. TypeOK /\ Counted /\ FlowInv => CreditBounded
  BY FlowFacts
<1> QED BY <1>1, FlowInvariance, PTL
=============================================================================
