--------------------------- MODULE FairQueueProofs ---------------------------
(***************************************************************************)
(* Type correctness of the packet scheduler, and the cases of an enqueue   *)
(* that the proofs of its invariants rest on.                              *)
(***************************************************************************)
EXTENDS FairQueue, FiniteSetTheorems, TLAPS

-----------------------------------------------------------------------------
(* Lists *)

\* Appending an element that is not there keeps a list free of repetitions.
LEMMA AppendFacts ==
    ASSUME NEW S, NEW s \in Seq(S), NEW x \in S
    PROVE  /\ Append(s, x) \in Seq(S)
           /\ Len(Append(s, x)) = Len(s) + 1
           /\ Range(Append(s, x)) = Range(s) \cup {x}
           /\ IsInjective(s) /\ x \notin Range(s) => IsInjective(Append(s, x))
<1>1. /\ Append(s, x) \in Seq(S) /\ Len(Append(s, x)) = Len(s) + 1
      /\ DOMAIN s = 1..Len(s) /\ DOMAIN Append(s, x) = 1..(Len(s) + 1)
      /\ \A j \in 1..Len(s) : Append(s, x)[j] = s[j]
      /\ Append(s, x)[Len(s) + 1] = x /\ Len(s) \in Nat
  OBVIOUS
<1>2. Range(Append(s, x)) = Range(s) \cup {x}
  BY <1>1 DEF Range
<1>3. IsInjective(s) /\ x \notin Range(s) => IsInjective(Append(s, x))
  BY <1>1 DEF Range, IsInjective
<1> QED BY <1>1, <1>2, <1>3

\* Removing the front of a list without repetitions removes just that element.
LEMMA TailFacts ==
    ASSUME NEW S, NEW s \in Seq(S), s # <<>>
    PROVE  /\ Tail(s) \in Seq(S) /\ Head(s) \in S
           /\ Len(Tail(s)) = Len(s) - 1 /\ Len(s) > 0
           /\ Head(s) \in Range(s)
           /\ Range(s) = Range(Tail(s)) \cup {Head(s)}
           /\ IsInjective(s) => IsInjective(Tail(s)) /\ Head(s) \notin Range(Tail(s))
<1>1. /\ Tail(s) \in Seq(S) /\ Len(Tail(s)) = Len(s) - 1 /\ Len(s) \in Nat /\ Len(s) > 0
      /\ DOMAIN s = 1..Len(s) /\ DOMAIN Tail(s) = 1..(Len(s) - 1)
      /\ \A j \in 1..(Len(s) - 1) : Tail(s)[j] = s[j + 1]
      /\ Head(s) = s[1] /\ s[1] \in S
  OBVIOUS
<1>2. Head(s) \in Range(s)
  BY <1>1 DEF Range
<1>3. \A j \in 1..Len(s) : j # 1 => j - 1 \in 1..(Len(s) - 1) /\ s[j] = Tail(s)[j - 1]
  BY <1>1
<1>4. Range(s) = Range(Tail(s)) \cup {Head(s)}
  <2>1. ASSUME NEW j \in 1..Len(s) PROVE s[j] \in Range(Tail(s)) \cup {Head(s)}
    <3>1. CASE j = 1
      BY <3>1, <1>1
    <3>2. CASE j # 1
      <4>1. j - 1 \in DOMAIN Tail(s) /\ s[j] = Tail(s)[j - 1]
        BY <3>2, <1>1, <1>3
      <4> QED BY Zenon, <4>1 DEF Range
    <3> QED BY <3>1, <3>2
  <2>2. Range(Tail(s)) \cup {Head(s)} \subseteq Range(s)
    BY <1>1 DEF Range
  <2> QED BY <2>1, <2>2, <1>1 DEF Range
<1>5. IsInjective(s) => IsInjective(Tail(s)) /\ Head(s) \notin Range(Tail(s))
  BY <1>1 DEF Range, IsInjective
<1> QED BY <1>1, <1>2, <1>4, <1>5

LEMMA EmptyFacts == Range(<<>>) = {} /\ IsInjective(<<>>) /\ Len(<<>>) = 0
BY DEF Range, IsInjective

-----------------------------------------------------------------------------
(* Types *)

\* The constants, one by one.
LEMMA Constants ==
    /\ 0 \in Hash /\ Prio \notin Hash /\ Absent \notin FlowId
    /\ PktLen \subseteq Nat /\ (\A n \in PktLen : n > 0) /\ PktLen # {} /\ IsFiniteSet(PktLen)
    /\ Limit \in Nat /\ FlowPlimit \in Nat /\ Quantum \in Nat /\ InitialQuantum \in Nat
    /\ FlowRefillDelay \in Nat /\ Horizon \in Nat /\ GcAge \in Nat /\ FQ_GC_MAX \in Nat
    /\ NUM_QUEUE \in Nat /\ MaxPkts \in Nat /\ MaxResets \in Nat /\ MaxAttach \in Nat
    /\ LastArrival \in Nat /\ LastArrival > 0 /\ U32 \in Nat /\ U32 > 0
    /\ MaxTime \in Nat /\ MaxTime > 0 /\ Never \in Nat /\ MaxTime < Never
    /\ MaxTime = LastArrival + Horizon
    /\ HorizonDrop \in BOOLEAN
BY FairQueueAssumption DEF MaxTime, Never

LEMMA LenType ==
    ASSUME NEW p \in Packet
    PROVE  p.len \in PktLen /\ p.len \in Int
<1>1. p.len \in PktLen
  BY DEF Packet
<1>2. PktLen \subseteq Int
  BY Constants
<1> QED BY <1>1, <1>2, Zenon

LEMMA NewNodeType == NewNode \in Node
BY Constants DEF NewNode, Node

\* Freed objects keep their type.
LEMMA ObjectsType ==
    ASSUME NEW g \in [FlowId -> Node]
    PROVE  [f \in FlowId |-> IF f \in Live' THEN g[f] ELSE NewNode] \in [FlowId -> Node]
BY NewNodeType

\* A set of natural numbers that is not empty has a smallest element.
LEMMA Smallest ==
    ASSUME NEW T, T \subseteq Nat, T # {}
    PROVE  \E x \in T : \A y \in T : x <= y
<1> DEFINE R == {ss \in Nat \X Nat : ss[1] < ss[2]}
<1>1. IsWellFoundedOn(R, Nat)
  BY NatLessThanWellFounded DEF OpToRel
<1>2. PICK x \in T : \A y \in T : ~ (<<y, x>> \in R)
  <2> HIDE DEF R
  <2> QED BY Zenon, <1>1, WFMin
<1>3. \A y \in T : x <= y
  <2> SUFFICES ASSUME NEW y \in T, y < x PROVE FALSE
    OBVIOUS
  <2>1. <<y, x>> \in Nat \X Nat /\ <<y, x>>[1] = y /\ <<y, x>>[2] = x
    OBVIOUS
  <2>2. <<y, x>> \in R
    BY <2>1
  <2> QED BY <2>2, <1>2
<1> QED BY <1>3

\* The first packet of a queue is one of its packets.
LEMMA FirstOfQueue ==
    ASSUME NEW Q, Q \subseteq Packet, Q # {}
    PROVE  skbn_first(Q) \in Q
<1> DEFINE Times == {p.tstamp : p \in Q}
<1>1. Times \subseteq Nat /\ Times # {}
  BY Constants DEF Packet
<1>2. PICK t \in Times : \A u \in Times : t <= u
  <2> HIDE DEF Times
  <2> QED BY Zenon, <1>1, Smallest
<1> DEFINE Ids == {p.id : p \in {r \in Q : r.tstamp = t}}
<1>3. Ids \subseteq Nat /\ Ids # {}
  BY <1>2, Constants DEF Packet
<1>4. PICK n \in Ids : \A m \in Ids : n <= m
  <2> HIDE DEF Ids
  <2> QED BY Zenon, <1>3, Smallest
<1>5. PICK p \in Q : p.tstamp = t /\ p.id = n
  BY <1>4
<1>6. \A r \in Q : p.tstamp < r.tstamp \/ (p.tstamp = r.tstamp /\ p.id <= r.id)
  <2> TAKE r \in Q
  <2>1. t <= r.tstamp /\ t \in Nat /\ r.tstamp \in Nat
    BY <1>1, <1>2
  <2>2. CASE r.tstamp = t
    BY <2>2, <1>4, <1>5
  <2>3. CASE r.tstamp # t
    BY <2>1, <2>3, <1>5
  <2> QED BY <2>2, <2>3
<1> QED BY <1>6 DEF skbn_first

-----------------------------------------------------------------------------
(* What an enqueue does *)

Maps == [Hash -> FlowId \cup {Absent}]

\* A map the collector or nobody has been at.
Collected(m) == m \in Maps /\ \A h \in Hash : m[h] \in {fq_nonprio_flows[h], Absent}

\* The flow an enqueue works on: one that is stashed, or a new one.
StashedFlow(f, cls, m, g) ==
    /\ m = fq_nonprio_flows /\ g = flow
    /\ \/ cls = Prio /\ f = fq_prio_flows
       \/ cls \in Hash /\ f = fq_nonprio_flows[cls]
FreshFlow(f, cls, m, g) ==
    /\ f \notin Live /\ cls \in Hash
    /\ g = [flow EXCEPT ![f] = NewNode]
    /\ m[cls] = f /\ \A h \in Hash \ {cls} : m[h] \in {fq_nonprio_flows[h], Absent}

\* The two ways an enqueue ends.
Dropped ==
    \E m : Collected(m) /\ UNCHANGED <<fq_flows, flow_cnt>> /\ Drop(m, flow)
Brought ==
    \E f \in FlowId, m \in Maps, g \in [FlowId -> Node], p \in Packet, cls \in Hash \cup {Prio} :
        /\ ToFlow(f, cls, m, g, p) /\ p.id = arrived + 1
        /\ StashedFlow(f, cls, m, g) \/ FreshFlow(f, cls, m, g)

\* A call of bpf_fq_enqueue drops its packet, or brings it to a flow.
LEMMA EnqueueCases ==
    ASSUME TypeOK, NEW c \in Hash \cup {Prio}, NEW t \in 0..(now + Horizon + 1),
           NEW n \in PktLen, bpf_fq_enqueue(c, t, n)
    PROVE  Dropped \/ Brought
<1> USE DEF Dropped, Brought
<1> DEFINE stale == t > ktime_cache + Horizon
           beyond == stale /\ t > now + Horizon
           time_to_send == IF t = 0 THEN now ELSE IF beyond THEN now + Horizon ELSE t
           pk == [id |-> arrived + 1, tstamp |-> time_to_send, len |-> n]
<1>1. fq_nonprio_flows \in Maps /\ Collected(fq_nonprio_flows)
  BY DEF TypeOK, Maps, Collected
<1>2. arrived \in Nat /\ arrived < MaxPkts /\ now \in Nat /\ now <= LastArrival
      /\ ktime_cache \in Nat
  <2>1. arrived < MaxPkts /\ now <= LastArrival
    BY DEF bpf_fq_enqueue
  <2>2. arrived \in Nat /\ now \in Nat /\ ktime_cache \in Nat
    BY Constants DEF TypeOK
  <2> QED BY <2>1, <2>2
<1>3. CASE pc = "idle" /\ Classified(c, pk) /\ ~(qlen >= Limit \/ (beyond /\ HorizonDrop))
  <2>1. time_to_send \in 0..MaxTime
    <3>1. now <= LastArrival /\ now + Horizon <= LastArrival + Horizon
      BY <1>2, Constants
    <3>2. CASE t = 0
      BY <3>2, <3>1, <1>2, Constants
    <3>3. CASE t # 0 /\ beyond
      BY <3>3, <3>1, <1>2, Constants
    <3>4. CASE t # 0 /\ ~beyond
      <4>1. ktime_cache <= now
        BY <1>2 DEF TypeOK
      <4> QED BY <4>1, <3>4, <3>1, <1>2, Constants
    <3> QED BY <3>2, <3>3, <3>4
  <2>2. pk \in Packet /\ pk.id = arrived + 1
    BY <2>1, <1>2, Constants DEF Packet
  <2> HIDE DEF pk
  <2>3. CASE c = Prio /\ fq_prio_flows # Absent
    <3>1. ToFlow(fq_prio_flows, Prio, fq_nonprio_flows, flow, pk)
      BY <1>3, <2>3 DEF Classified
    <3>2. fq_prio_flows \in FlowId /\ flow \in [FlowId -> Node]
      BY <2>3 DEF TypeOK
    <3> QED BY <3>1, <3>2, <2>2, <1>1 DEF StashedFlow
  <2>4. CASE c # Prio /\ fq_nonprio_flows[c] # Absent
    <3>1. ToFlow(fq_nonprio_flows[c], c, fq_nonprio_flows, flow, pk)
      BY <1>3, <2>4 DEF Classified
    <3>2. fq_nonprio_flows[c] \in FlowId /\ flow \in [FlowId -> Node] /\ c \in Hash
      BY <2>4 DEF TypeOK
    <3> QED BY <3>1, <3>2, <2>2, <1>1 DEF StashedFlow
  <2>5. CASE ~(c = Prio /\ fq_prio_flows # Absent) /\ ~(c # Prio /\ fq_nonprio_flows[c] # Absent)
    <3> DEFINE h == IF c = Prio THEN 0 ELSE c
    <3>1. h \in Hash /\ fq_new_flow(h, pk)
      BY <1>3, <2>5, Constants DEF Classified
    <3> HIDE DEF h
    <3>2. CASE UNCHANGED <<fq_flows, flow_cnt>> /\ Drop(fq_nonprio_flows, flow)
      BY <3>2, <1>1
    <3>3. ASSUME NEW f \in FlowId \ Live, NEW C \in SUBSET Hash,
                 LET m == [k \in Hash |-> IF k \in C THEN Absent ELSE fq_nonprio_flows[k]]
                 IN IF Room(m, h)
                    THEN ToFlow(f, h, [m EXCEPT ![h] = f], [flow EXCEPT ![f] = NewNode], pk)
                    ELSE UNCHANGED <<fq_flows, flow_cnt>> /\ Drop(m, flow)
          PROVE  Dropped \/ Brought
      <4> DEFINE mm == [k \in Hash |-> IF k \in C THEN Absent ELSE fq_nonprio_flows[k]]
      <4>1. Collected(mm)
        BY <1>1 DEF Collected, Maps
      <4>2. CASE Room(mm, h)
        <5> DEFINE m2 == [mm EXCEPT ![h] = f]
                   g2 == [flow EXCEPT ![f] = NewNode]
        <5>1. ToFlow(f, h, m2, g2, pk)
          BY <3>3, <4>2
        <5>2. m2 \in Maps /\ m2[h] = f /\ \A k \in Hash \ {h} : m2[k] = mm[k]
          <6>1. mm \in Maps
            BY <4>1 DEF Collected
          <6> HIDE DEF mm
          <6> QED BY <3>1, <6>1 DEF Maps
        <5>3. g2 \in [FlowId -> Node]
          BY NewNodeType DEF TypeOK
        <5>4. FreshFlow(f, h, m2, g2)
          BY <5>2, <3>1, <4>1 DEF FreshFlow, Collected
        <5> HIDE DEF m2, g2
        <5> QED BY <5>1, <5>2, <5>3, <5>4, <2>2, <3>1
      <4>3. CASE ~Room(mm, h)
        BY <3>3, <4>3, <4>1
      <4> QED BY <4>2, <4>3
    <3> QED BY Zenon, <3>1, <3>2, <3>3 DEF fq_new_flow
  <2> QED BY <2>3, <2>4, <2>5
<1>4. CASE UNCHANGED <<fq_flows, flow_cnt>> /\ Drop(fq_nonprio_flows, flow)
  BY <1>4, <1>1
<1> QED BY <1>3, <1>4 DEF bpf_fq_enqueue

\* What bringing packet p to flow f of objects g does: node is the flow after
\* it, with the packet or without, and a detached flow is back in a list.
Queued(f, g, p, node) ==
    /\ node.time_next_packet = g[f].time_next_packet
    /\ \/ node.credit = g[f].credit
       \/ g[f].credit < Quantum /\ node.credit = Quantum
    /\ \/ node.queue = g[f].queue /\ node.qlen = g[f].qlen /\ UNCHANGED sch
       \/ /\ node.queue = g[f].queue \cup {p} /\ node.qlen = g[f].qlen + 1
          /\ qlen' = qlen + 1 /\ backlog' \in 0..(U32 - 1)
Listed(f, cls, g, node) ==
    \/ /\ UNCHANGED <<fq_flows, flow_cnt>> /\ node.age = g[f].age
       /\ cls = Prio \/ ~fq_flow_is_detached(g[f]) \/ node.queue = g[f].queue
    \/ /\ cls # Prio /\ fq_flow_is_detached(g[f]) /\ node.age = 0
       /\ fq_flows' = [fq_flows EXCEPT !["new"] = Append(@, f)]
       /\ flow_cnt' = [flow_cnt EXCEPT !["new"] = @ + 1]

LEMMA ToFlowCases ==
    ASSUME TypeOK, NEW f \in FlowId, NEW cls, NEW m, NEW g \in [FlowId -> Node],
           NEW p \in Packet, ToFlow(f, cls, m, g, p)
    PROVE  /\ fq_nonprio_flows' = m
           /\ \E node \in Node : /\ flow' = Objects([g EXCEPT ![f] = node])
                                 /\ Queued(f, g, p, node) /\ Listed(f, cls, g, node)
<1> DEFINE back == cls # Prio /\ fq_flow_is_detached(g[f])
           nd == IF back THEN Refilled(g[f]) ELSE g[f]
           full == cls # Prio /\ g[f].qlen >= FlowPlimit
           nq == [nd EXCEPT !.queue = @ \cup {p}, !.qlen = @ + 1]
<1>1. g[f] \in Node
  OBVIOUS
<1>2. nd \in Node /\ nd.queue = g[f].queue /\ nd.qlen = g[f].qlen
      /\ nd.time_next_packet = g[f].time_next_packet
      /\ (nd.credit = g[f].credit \/ (g[f].credit < Quantum /\ nd.credit = Quantum))
      /\ (back => nd.age = 0) /\ (~back => nd.age = g[f].age)
  <2>1. CASE back
    <3> DEFINE r == g[f]
               c == IF now > r.age + FlowRefillDelay THEN Larger(r.credit, Quantum) ELSE r.credit
    <3>1. nd = [r EXCEPT !.credit = c, !.age = 0]
      BY <2>1 DEF Refilled
    <3>2. c \in Int /\ (c = r.credit \/ (r.credit < Quantum /\ c = Quantum))
      BY <1>1, Constants DEF Node, Larger
    <3>3. r \in Node
      BY <1>1
    <3> HIDE DEF r, c, nd
    <3>4. nd \in Node /\ nd.queue = r.queue /\ nd.qlen = r.qlen /\ nd.credit = c
          /\ nd.time_next_packet = r.time_next_packet /\ nd.age = 0
      BY Zenon, <3>1, <3>2, <3>3 DEF Node
    <3> QED BY <3>4, <3>2, <2>1 DEF r
  <2>2. CASE ~back
    BY <2>2, <1>1
  <2> QED BY <2>1, <2>2
<1>3. nq \in Node /\ nq.queue = g[f].queue \cup {p} /\ nq.qlen = g[f].qlen + 1
      /\ nq.time_next_packet = nd.time_next_packet /\ nq.credit = nd.credit /\ nq.age = nd.age
  <2> HIDE DEF nd
  <2>1. nd.queue \cup {p} \in SUBSET Packet /\ nd.qlen + 1 \in Int
    BY <1>2 DEF Node
  <2> QED BY Zenon, <2>1, <1>2 DEF Node
<1>4. [g EXCEPT ![f] = g[f]] = g
  OBVIOUS
<1>5. CASE full
  <2>1. UNCHANGED <<fq_flows, flow_cnt>> /\ Drop(m, g)
    BY <1>5 DEF ToFlow
  <2> QED BY <2>1, <1>1, <1>4 DEF Drop, Queued, Listed
<1>6. CASE ~full
  <2>1. /\ \/ /\ back /\ fq_flows' = [fq_flows EXCEPT !["new"] = Append(@, f)]
              /\ flow_cnt' = [flow_cnt EXCEPT !["new"] = @ + 1]
           \/ ~back /\ UNCHANGED <<fq_flows, flow_cnt>>
        /\ \/ Drop(m, [g EXCEPT ![f] = nd])
           \/ /\ fq_nonprio_flows' = m /\ flow' = Objects([g EXCEPT ![f] = nq])
              /\ qlen' = qlen + 1 /\ backlog' = (backlog + p.len) % U32
    BY <1>6, Zenon DEF ToFlow, fq_flows_add_tail
  <2>2. (backlog + p.len) % U32 \in 0..(U32 - 1)
    <3>1. backlog \in 0..(U32 - 1) /\ p.len \in Int
      BY LenType DEF TypeOK
    <3>2. backlog + p.len \in Int
      BY <3>1, Constants
    <3> QED BY <3>2, Constants
  <2>3. back <=> cls # Prio /\ fq_flow_is_detached(g[f])
    OBVIOUS
  <2> HIDE DEF back, nd, nq
  <2>4. CASE Drop(m, [g EXCEPT ![f] = nd])
    BY Zenon, <2>1, <2>3, <2>4, <1>2 DEF Drop, Queued, Listed
  <2>5. CASE /\ fq_nonprio_flows' = m /\ flow' = Objects([g EXCEPT ![f] = nq])
             /\ qlen' = qlen + 1 /\ backlog' = (backlog + p.len) % U32
    BY Zenon, <2>1, <2>2, <2>3, <2>5, <1>2, <1>3 DEF Queued, Listed
  <2> QED BY <2>1, <2>4, <2>5
<1> QED BY SMTT(30), <1>5, <1>6

-----------------------------------------------------------------------------
(* Type correctness *)

\* The lists and their counters keep their type when a flow is appended, or
\* removed from the front.
LEMMA ListTypes ==
    ASSUME NEW fs \in [{"new", "old"} -> Seq(FlowId)], NEW n \in [{"new", "old"} -> Nat],
           NEW l \in {"new", "old"}, NEW f \in FlowId
    PROVE  /\ [fs EXCEPT ![l] = Append(@, f)] \in [{"new", "old"} -> Seq(FlowId)]
           /\ [n EXCEPT ![l] = @ + 1] \in [{"new", "old"} -> Nat]
           /\ n[l] # 0 => [n EXCEPT ![l] = @ - 1] \in [{"new", "old"} -> Nat]
           /\ fs[l] # <<>> => /\ [fs EXCEPT ![l] = Tail(@)] \in [{"new", "old"} -> Seq(FlowId)]
                              /\ Head(fs[l]) \in FlowId
<1>1. fs[l] \in Seq(FlowId) /\ n[l] \in Nat
  OBVIOUS
<1>2. Append(fs[l], f) \in Seq(FlowId) /\ n[l] + 1 \in Nat /\ (n[l] # 0 => n[l] - 1 \in Nat)
  BY <1>1
<1>3. fs[l] # <<>> => Tail(fs[l]) \in Seq(FlowId) /\ Head(fs[l]) \in FlowId
  BY <1>1, TailFacts
<1> QED BY <1>1, <1>2, <1>3

\* The node of one flow may change its fields within their types.
LEMMA NodeTypes ==
    ASSUME NEW n \in Node, NEW p \in Packet
    PROVE  /\ \A x \in Int : [n EXCEPT !.credit = x] \in Node
           /\ \A x \in Nat \cup {Throttled} : [n EXCEPT !.age = x] \in Node
           /\ [n EXCEPT !.queue = @ \ {p}] \in Node
           /\ [n EXCEPT !.queue = @ \ {p}, !.credit = @ - p.len, !.qlen = @ - 1] \in Node
           /\ \A t \in 0..MaxTime, x \in Nat \cup {Throttled} :
                [n EXCEPT !.time_next_packet = t, !.age = x] \in Node
<1>1. n.queue \in SUBSET Packet /\ n.credit \in Int /\ n.qlen \in Int
  BY DEF Node
<1>2. p.len \in Nat
  BY Zenon, Constants DEF Packet
<1>3. n.queue \ {p} \in SUBSET Packet /\ n.credit - p.len \in Int /\ n.qlen - 1 \in Int
  BY <1>1, <1>2
<1> HIDE DEF Packet
<1> QED BY Zenon, <1>3 DEF Node

LEMMA TypeInit == Init => TypeOK
<1> SUFFICES ASSUME Init PROVE TypeOK
  OBVIOUS
<1>1. flow \in [FlowId -> Node]
  BY NewNodeType DEF Init
<1>2. <<>> \in Seq(FlowId)
  OBVIOUS
<1>3. /\ fq_nonprio_flows \in [Hash -> FlowId \cup {Absent}]
      /\ fq_flows \in [{"new", "old"} -> Seq(FlowId)]
      /\ flow_cnt \in [{"new", "old"} -> Nat]
  BY <1>2 DEF Init
<1>4. /\ 0 \in 0..Never /\ Never \in 0..Never /\ 0 \in Nat /\ 0 \in 0..(U32 - 1)
      /\ 0 \in 0..Limit /\ 1 \in 1..MaxTime /\ 0 \in 0..MaxPkts /\ 0 \in 0..MaxResets
      /\ 0 \in 0..MaxAttach /\ 0 \in 0..1
  BY Constants
<1> QED BY <1>1, <1>3, <1>4, Zenon DEF Init, TypeOK

LEMMA TypeAttach == TypeOK /\ bpf_fq_init => TypeOK'
<1> SUFFICES ASSUME TypeOK, bpf_fq_init PROVE TypeOK'
  OBVIOUS
<1>1. fq_prio_flows' \in FlowId
  BY DEF bpf_fq_init
<1>2. [flow EXCEPT ![fq_prio_flows'] = NewNode] \in [FlowId -> Node]
  BY NewNodeType, <1>1 DEF TypeOK
<1>3. flow' \in [FlowId -> Node]
  BY <1>2, ObjectsType DEF bpf_fq_init, Objects
<1>4. attaches' \in 0..MaxAttach
  BY Constants DEF bpf_fq_init, TypeOK
<1>5. /\ flow_cnt' \in [{"new", "old"} -> Nat] /\ Never \in 0..Never
      /\ 0 \in Nat /\ 0 \in 0..(U32 - 1)
  BY Constants DEF bpf_fq_init
<1> QED BY <1>1, <1>3, <1>4, <1>5, Zenon DEF bpf_fq_init, TypeOK, kernel

LEMMA TypeEnqueue ==
    ASSUME TypeOK, NEW c \in Hash \cup {Prio}, NEW t \in 0..(now + Horizon + 1),
           NEW n \in PktLen, bpf_fq_enqueue(c, t, n)
    PROVE  TypeOK'
<1> DEFINE Typed == /\ flow' \in [FlowId -> Node] /\ fq_nonprio_flows' \in Maps
                    /\ fq_flows' \in [{"new", "old"} -> Seq(FlowId)]
                    /\ flow_cnt' \in [{"new", "old"} -> Nat]
                    /\ qlen' \in Nat /\ backlog' \in 0..(U32 - 1)
<1>1. Typed
  <2>1. ASSUME NEW m, Collected(m), UNCHANGED <<fq_flows, flow_cnt>>, Drop(m, flow)
        PROVE  Typed
    <3>1. flow \in [FlowId -> Node]
      BY DEF TypeOK
    <3>2. flow' \in [FlowId -> Node]
      BY <3>1, <2>1, ObjectsType DEF Drop, Objects
    <3> QED BY <2>1, <3>2 DEF TypeOK, Drop, Collected, sch
  <2>2. ASSUME NEW f \in FlowId, NEW m \in Maps, NEW g \in [FlowId -> Node], NEW p \in Packet,
               NEW cls, ToFlow(f, cls, m, g, p)
        PROVE  Typed
    <3>1. PICK node \in Node : /\ flow' = Objects([g EXCEPT ![f] = node])
                               /\ Queued(f, g, p, node) /\ Listed(f, cls, g, node)
      BY <2>2, ToFlowCases, Zenon
    <3>2. [g EXCEPT ![f] = node] \in [FlowId -> Node]
      OBVIOUS
    <3>3. flow' \in [FlowId -> Node]
      BY <3>1, <3>2, ObjectsType DEF Objects
    <3>4. fq_nonprio_flows' \in Maps
      BY <2>2, ToFlowCases
    <3>5. qlen' \in Nat /\ backlog' \in 0..(U32 - 1)
      BY SMTT(30), <3>1 DEF Queued, TypeOK, sch
    <3>6. /\ fq_flows' \in [{"new", "old"} -> Seq(FlowId)]
          /\ flow_cnt' \in [{"new", "old"} -> Nat]
      <4>1. /\ fq_flows \in [{"new", "old"} -> Seq(FlowId)] /\ flow_cnt \in [{"new", "old"} -> Nat]
            /\ "new" \in {"new", "old"}
        BY DEF TypeOK
      <4>2. /\ [fq_flows EXCEPT !["new"] = Append(@, f)] \in [{"new", "old"} -> Seq(FlowId)]
            /\ [flow_cnt EXCEPT !["new"] = @ + 1] \in [{"new", "old"} -> Nat]
        BY <4>1, ListTypes
      <4> QED BY <3>1, <4>1, <4>2, Zenon DEF Listed
    <3> QED BY <3>3, <3>4, <3>5, <3>6, Zenon
  <2>3. Dropped \/ Brought
    BY EnqueueCases
  <2>4. CASE Dropped
    BY <2>1, <2>4, Zenon DEF Dropped
  <2>5. CASE Brought
    BY <2>2, <2>5, Zenon DEF Brought
  <2> QED BY <2>3, <2>4, <2>5, Zenon
<1>2. /\ UNCHANGED <<pc, fq_prio_flows, fq_delayed, time_next_delayed_flow, i, destroying, now,
                     timer, sent, left, exhausted, resets, attaches>>
      /\ arrived < MaxPkts /\ arrived' = arrived + 1 /\ kick' = TRUE
      /\ ktime_cache' \in {now, ktime_cache}
  BY DEF bpf_fq_enqueue
<1>3. arrived' \in 0..MaxPkts /\ ktime_cache' \in 0..now
  <2>1. arrived \in Nat /\ now \in Nat /\ ktime_cache \in 0..now
    BY Constants DEF TypeOK
  <2> QED BY <2>1, <1>2, Constants
<1> QED BY <1>1, <1>2, <1>3, Zenon DEF TypeOK, Maps

\* There are finitely many packets.
LEMMA PacketFinite == IsFiniteSet(Packet)
<1> DEFINE T == (1..MaxPkts) \X ((0..MaxTime) \X PktLen)
           f == [t \in T |-> [id |-> t[1], tstamp |-> t[2][1], len |-> t[2][2]]]
<1>1. IsFiniteSet(1..MaxPkts) /\ IsFiniteSet(0..MaxTime)
  BY Constants, FS_Interval
<1>2. IsFiniteSet((0..MaxTime) \X PktLen)
  BY Zenon, <1>1, Constants, FS_Product
<1>3. IsFiniteSet(T)
  BY Zenon, <1>1, <1>2, FS_Product
<1>4. f \in Surjection(T, Packet)
  <2>1. f \in [T -> Packet]
    BY DEF Packet
  <2>2. ASSUME NEW p \in Packet PROVE \E t \in T : f[t] = p
    <3>1. <<p.id, <<p.tstamp, p.len>>>> \in T
      BY DEF Packet
    <3>2. f[<<p.id, <<p.tstamp, p.len>>>>] = p
      BY <3>1 DEF Packet
    <3> QED BY <3>1, <3>2
  <2> HIDE DEF f, T
  <2> QED BY <2>1, <2>2 DEF Surjection
<1> HIDE DEF f, T
<1> QED BY <1>3, <1>4, FS_Surjection

LEMMA HeldFinite == TypeOK => IsFiniteSet(Held(Live))
<1> SUFFICES ASSUME TypeOK PROVE IsFiniteSet(Held(Live))
  OBVIOUS
<1>1. Held(Live) \subseteq Packet
  BY DEF Held, Live, TypeOK, Node
<1> QED BY <1>1, PacketFinite, FS_Subset

\* A dequeue that looks at the lists has seen packets counted.
Counted == pc \in {"unset", "loop"} => qlen > 0

\* The first packet of a flow's queue, and what is left of the flow's node
\* when the packet is taken from it.
LEMMA TakeTypes ==
    ASSUME TypeOK, NEW f \in FlowId, flow[f].queue # {}
    PROVE  /\ skbn_first(flow[f].queue) \in Packet
           /\ skbn_first(flow[f].queue) \in flow[f].queue
<1>1. flow[f].queue \subseteq Packet
  BY DEF TypeOK, Node
<1> QED BY <1>1, FirstOfQueue

\* Handing out a packet keeps the counters in their types.
LEMMA ReturnTypes ==
    ASSUME TypeOK, qlen # 0, NEW p \in Packet, Return(p)
    PROVE  /\ pc' = "idle" /\ qlen' \in Nat /\ backlog' \in 0..(U32 - 1)
           /\ sent' \subseteq 1..MaxPkts /\ exhausted' = FALSE
           /\ UNCHANGED <<now, timer, kick, arrived, left, resets, attaches>>
<1>1. qlen \in Nat /\ backlog \in Int /\ p.len \in Int /\ p.id \in 1..MaxPkts
  <2>1. qlen \in Nat /\ backlog \in 0..(U32 - 1)
    BY DEF TypeOK
  <2>2. p.id \in 1..MaxPkts
    BY DEF Packet
  <2>3. p.len \in Int
    BY LenType
  <2>4. backlog \in Int
    BY <2>1, Constants
  <2> QED BY <2>1, <2>2, <2>3, <2>4, Zenon
<1>2. qlen - 1 \in Nat /\ (backlog - p.len) % U32 \in 0..(U32 - 1)
  BY <1>1, Constants
<1>3. sent \subseteq 1..MaxPkts
  BY DEF TypeOK
<1>4. sent \cup {p.id} \subseteq 1..MaxPkts
  BY <1>1, <1>3, Zenon
<1> QED BY <1>2, <1>4, Zenon DEF Return, kernel

LEMMA ReturnNullTypes ==
    ASSUME TypeOK, NEW x \in 0..Never, ReturnNull(x)
    PROVE  /\ pc' = "idle" /\ kick' = FALSE /\ timer' \in 0..Never /\ exhausted' \in BOOLEAN
           /\ UNCHANGED <<qlen, backlog, now, arrived, sent, left, resets, attaches>>
<1>1. timer' \in 0..Never
  BY DEF ReturnNull, TypeOK
<1> QED BY <1>1, Zenon DEF ReturnNull, sch

LEMMA TypeDequeue == TypeOK /\ bpf_fq_dequeue => TypeOK' /\ Counted'
<1> SUFFICES ASSUME TypeOK, bpf_fq_dequeue PROVE TypeOK' /\ Counted'
  OBVIOUS
<1>1. UNCHANGED <<fq_prio_flows, fq_nonprio_flows, fq_flows, flow_cnt, fq_delayed, destroying>>
  BY DEF bpf_fq_dequeue
<1>2. CASE qlen = 0 /\ ReturnNull(0) /\ UNCHANGED <<flow, time_next_delayed_flow, ktime_cache, i>>
  <2>1. 0 \in 0..Never
    BY Constants
  <2>2. /\ pc' = "idle" /\ kick' = FALSE /\ timer' \in 0..Never /\ exhausted' \in BOOLEAN
        /\ UNCHANGED <<qlen, backlog, now, arrived, sent, left, resets, attaches>>
    BY <2>1, <1>2, ReturnNullTypes, Zenon
  <2> QED BY <1>1, <1>2, <2>2, Zenon DEF TypeOK, Counted
<1>3. CASE qlen # 0 /\ fq_dequeue_prio
  <2> DEFINE f == fq_prio_flows
             p == skbn_first(flow[f].queue)
  <2>1. f \in FlowId /\ flow[f].queue # {} /\ flow[f] \in Node
    BY SMTT(30), <1>3 DEF fq_dequeue_prio, TypeOK
  <2>2. p \in Packet
    BY <2>1, TakeTypes
  <2>3. [flow[f] EXCEPT !.queue = @ \ {p}] \in Node
    <3> HIDE DEF f, p
    <3> QED BY <2>1, <2>2, NodeTypes, Zenon
  <2>4. flow' = [flow EXCEPT ![f] = [flow[f] EXCEPT !.queue = @ \ {p}]]
    BY <1>3, <2>1 DEF fq_dequeue_prio, TypeOK
  <2>5. flow' \in [FlowId -> Node]
    <3>1. flow \in [FlowId -> Node]
      BY DEF TypeOK
    <3> HIDE DEF f, p
    <3> QED BY <2>1, <2>3, <2>4, <3>1
  <2>6. Return(p) /\ UNCHANGED <<time_next_delayed_flow, ktime_cache, i>>
    BY <1>3 DEF fq_dequeue_prio
  <2>7. /\ pc' = "idle" /\ qlen' \in Nat /\ backlog' \in 0..(U32 - 1)
        /\ sent' \subseteq 1..MaxPkts /\ exhausted' = FALSE
        /\ UNCHANGED <<now, timer, kick, arrived, left, resets, attaches>>
    BY <1>3, <2>2, <2>6, ReturnTypes, Zenon
  <2> QED BY <1>1, <2>5, <2>6, <2>7, Zenon DEF TypeOK, Counted
<1>4. CASE qlen # 0 /\ fq_check_throttled
  <2>1. /\ pc' \in {"loop", "unset"} /\ ktime_cache' = now /\ i' = 0
        /\ time_next_delayed_flow' \in {time_next_delayed_flow, Never}
        /\ UNCHANGED <<flow, qlen, backlog, now, timer, kick, arrived, sent, left, exhausted,
                       resets, attaches>>
    BY <1>4 DEF fq_check_throttled, sch, kernel, history
  <2>2. qlen \in Nat /\ time_next_delayed_flow \in 0..Never /\ now \in 1..MaxTime
    BY DEF TypeOK
  <2>3. qlen > 0 /\ Never \in 0..Never /\ now \in 0..now /\ 0 \in 0..Limit
    BY <1>4, <2>2, Constants
  <2> QED BY <1>1, <2>1, <2>3, ZenonT(30) DEF TypeOK, Counted
<1> QED BY <1>2, <1>3, <1>4, Zenon DEF bpf_fq_dequeue

LEMMA TypeUnset ==
    TypeOK /\ Counted /\ fq_unset_throttled_flows => TypeOK' /\ Counted'
<1> SUFFICES ASSUME TypeOK, Counted, fq_unset_throttled_flows PROVE TypeOK' /\ Counted'
  OBVIOUS
<1>1. /\ UNCHANGED <<fq_prio_flows, fq_nonprio_flows, ktime_cache, qlen, backlog, i, destroying,
                     now, arrived, sent, exhausted, resets, attaches>>
      /\ pc \in {"unset", "unset_all"}
  BY DEF fq_unset_throttled_flows, sch
<1>2. ASSUME Unset, UNCHANGED <<flow, fq_flows, flow_cnt, fq_delayed>>,
             time_next_delayed_flow' \in 0..Never
      PROVE  TypeOK' /\ Counted'
  <2>1. Never \in 0..Never
    BY Constants
  <2>2. CASE pc = "unset"
    <3>1. pc' = "loop" /\ UNCHANGED <<kick, timer, left>>
      BY <1>2, <2>2 DEF Unset
    <3> QED BY <1>1, <1>2, <2>2, <3>1, Zenon DEF TypeOK, Counted
  <2>3. CASE pc # "unset"
    <3>1. pc' \in {"down", "idle"} /\ kick' = FALSE /\ timer' = Never
          /\ left' = Cardinality(Held(Live))
      BY <1>2, <2>3 DEF Unset
    <3>2. left' \in Nat
      BY <3>1, HeldFinite, FS_CardinalityType
    <3> QED BY <1>1, <1>2, <2>1, <3>1, <3>2, Zenon DEF TypeOK, Counted
  <2> QED BY <2>2, <2>3
<1>3. CASE /\ fq_delayed = {} /\ Unset
           /\ UNCHANGED <<flow, fq_flows, flow_cnt, fq_delayed, time_next_delayed_flow>>
  BY <1>2, <1>3, Zenon DEF TypeOK
<1>4. ASSUME NEW f \in fq_delayed, time_next_delayed_flow' = flow[f].time_next_packet, Unset,
             UNCHANGED <<flow, fq_flows, flow_cnt, fq_delayed>>
      PROVE  TypeOK' /\ Counted'
  <2>1. flow[f].time_next_packet \in 0..MaxTime
    BY DEF TypeOK, Node
  <2>2. 0..MaxTime \subseteq 0..Never
    BY Constants
  <2> QED BY <1>2, <1>4, <2>1, <2>2
<1>5. ASSUME NEW f \in fq_delayed, fq_delayed' = fq_delayed \ {f},
             flow' = [flow EXCEPT ![f].age = 0],
             fq_flows' = fq_flows_add_tail(fq_flows, "old", f),
             flow_cnt' = [flow_cnt EXCEPT !["old"] = @ + 1],
             UNCHANGED <<pc, time_next_delayed_flow, kick, timer, left>>
      PROVE  TypeOK' /\ Counted'
  <2>1. f \in FlowId /\ flow \in [FlowId -> Node] /\ fq_delayed' \subseteq FlowId
    BY SMTT(30), <1>5 DEF TypeOK
  <2>2. [flow[f] EXCEPT !.age = 0] \in Node
    BY <2>1 DEF Node
  <2>3. flow' = [flow EXCEPT ![f] = [flow[f] EXCEPT !.age = 0]]
    BY <1>5, <2>1
  <2>4. flow' \in [FlowId -> Node]
    BY <2>1, <2>2, <2>3
  <2>5. /\ fq_flows \in [{"new", "old"} -> Seq(FlowId)] /\ flow_cnt \in [{"new", "old"} -> Nat]
        /\ "old" \in {"new", "old"}
    BY DEF TypeOK
  <2>6. /\ fq_flows' \in [{"new", "old"} -> Seq(FlowId)] /\ flow_cnt' \in [{"new", "old"} -> Nat]
    BY <1>5, <2>1, <2>5, ListTypes DEF fq_flows_add_tail
  <2> QED BY <1>1, <1>5, <2>1, <2>4, <2>6, Zenon DEF TypeOK, Counted
<1> QED BY <1>3, <1>4, <1>5, Zenon DEF fq_unset_throttled_flows

LEMMA TypeRound ==
    TypeOK /\ Counted /\ fq_dequeue_nonprio_flows => TypeOK' /\ Counted'
<1> SUFFICES ASSUME TypeOK, Counted, fq_dequeue_nonprio_flows PROVE TypeOK' /\ Counted'
  OBVIOUS
<1>1. /\ UNCHANGED <<fq_prio_flows, fq_nonprio_flows, ktime_cache, destroying>>
      /\ pc = "loop" /\ i < Limit
  BY DEF fq_dequeue_nonprio_flows
<1>2. /\ flow \in [FlowId -> Node] /\ fq_flows \in [{"new", "old"} -> Seq(FlowId)]
      /\ flow_cnt \in [{"new", "old"} -> Nat] /\ qlen \in Nat /\ qlen > 0 /\ qlen # 0
      /\ time_next_delayed_flow \in 0..Never
  <2>1. qlen > 0
    BY <1>1 DEF Counted
  <2> QED BY <2>1 DEF TypeOK
\* A round that goes on, and one that returns NULL.
<1>3. ASSUME Continue, flow' \in [FlowId -> Node],
             fq_flows' \in [{"new", "old"} -> Seq(FlowId)], flow_cnt' \in [{"new", "old"} -> Nat],
             fq_delayed' \subseteq FlowId, time_next_delayed_flow' \in 0..Never
      PROVE  TypeOK' /\ Counted'
  <2>1. /\ pc' = "loop" /\ i' = i + 1
        /\ UNCHANGED <<qlen, backlog, now, timer, kick, arrived, sent, left, exhausted, resets,
                       attaches>>
    BY <1>3, Zenon DEF Continue, sch, kernel, history
  <2>2. i' \in 0..Limit
    <3>1. i \in 0..Limit
      BY DEF TypeOK
    <3> QED BY <2>1, <3>1, <1>1, Constants
  <2> QED BY <1>1, <1>2, <1>3, <2>1, <2>2, Zenon DEF TypeOK, Counted
<1>4. ASSUME NEW x \in 0..Never, ReturnNull(x), flow_cnt' \in [{"new", "old"} -> Nat],
             UNCHANGED <<flow, fq_flows, fq_delayed, time_next_delayed_flow, i>>
      PROVE  TypeOK' /\ Counted'
  <2>1. /\ pc' = "idle" /\ kick' = FALSE /\ timer' \in 0..Never /\ exhausted' \in BOOLEAN
        /\ UNCHANGED <<qlen, backlog, now, arrived, sent, left, resets, attaches>>
    BY <1>4, ReturnNullTypes, Zenon
  <2> QED BY <1>1, <1>4, <2>1, Zenon DEF TypeOK, Counted
<1>5. CASE /\ ReturnNull(IF time_next_delayed_flow # Never THEN time_next_delayed_flow ELSE 0)
           /\ UNCHANGED <<flow, fq_flows, flow_cnt, fq_delayed, time_next_delayed_flow, i>>
  <2> DEFINE x == IF time_next_delayed_flow # Never THEN time_next_delayed_flow ELSE 0
  <2>1. x \in 0..Never
    BY <1>2, Constants
  <2> HIDE DEF x
  <2> QED BY <1>2, <1>4, <1>5, <2>1, Zenon DEF x
<1>6. ASSUME NEW l \in {"new", "old"}, flow_cnt[l] # 0, fq_flows[l] = <<>>, NoFront(l)
      PROVE  TypeOK' /\ Counted'
  <2>1. 0 \in 0..Never
    BY Constants
  <2>2. flow_cnt' \in [{"new", "old"} -> Nat]
    BY <1>2, <1>6 DEF NoFront
  <2> QED BY <1>4, <1>6, <2>1, <2>2, Zenon DEF NoFront
<1>7. ASSUME NEW l \in {"new", "old"}, flow_cnt[l] # 0, fq_flows[l] # <<>>,
             NEW f, NEW fs, NEW n, f = Head(fq_flows[l]),
             fs = [fq_flows EXCEPT ![l] = Tail(@)], n = [flow_cnt EXCEPT ![l] = @ - 1]
      PROVE  /\ f \in FlowId /\ flow[f] \in Node
             /\ fs \in [{"new", "old"} -> Seq(FlowId)] /\ n \in [{"new", "old"} -> Nat]
             /\ fq_flows_add_tail(fs, "old", f) \in [{"new", "old"} -> Seq(FlowId)]
             /\ [n EXCEPT !["old"] = @ + 1] \in [{"new", "old"} -> Nat]
  <2>1. f \in FlowId /\ fs \in [{"new", "old"} -> Seq(FlowId)]
    <3>1. fq_flows[l] \in Seq(FlowId)
      BY <1>2
    <3>2. Head(fq_flows[l]) \in FlowId /\ Tail(fq_flows[l]) \in Seq(FlowId)
      BY <3>1, <1>7, TailFacts
    <3> QED BY <3>2, <1>2, <1>7
  <2>2. n \in [{"new", "old"} -> Nat]
    BY <1>2, <1>7
  <2>3. "old" \in {"new", "old"} /\ flow[f] \in Node
    BY <1>2, <2>1
  <2> QED BY <2>1, <2>2, <2>3, ListTypes DEF fq_flows_add_tail
<1>8. ASSUME NEW l \in {"new", "old"}, flow_cnt[l] # 0, fq_flows[l] # <<>>,
             NEW f, NEW fs, NEW n, f = Head(fq_flows[l]),
             fs = [fq_flows EXCEPT ![l] = Tail(@)], n = [flow_cnt EXCEPT ![l] = @ - 1],
             \/ OutOfCredit(f, fs, n) \/ EmptyFlow(l, f, fs, n)
             \/ fq_flow_set_throttled(f, fs, n) \/ SendFirst(f)
      PROVE  TypeOK' /\ Counted'
  <2>1. /\ f \in FlowId /\ flow[f] \in Node
        /\ fs \in [{"new", "old"} -> Seq(FlowId)] /\ n \in [{"new", "old"} -> Nat]
        /\ fq_flows_add_tail(fs, "old", f) \in [{"new", "old"} -> Seq(FlowId)]
        /\ [n EXCEPT !["old"] = @ + 1] \in [{"new", "old"} -> Nat]
    BY <1>7, <1>8, Zenon
  <2>2. fq_delayed \subseteq FlowId
    BY DEF TypeOK
  <2>3. CASE OutOfCredit(f, fs, n)
    <3>1. [flow[f] EXCEPT !.credit = @ + Quantum] \in Node
      <4>1. flow[f].credit \in Int
        BY <2>1 DEF Node
      <4>2. flow[f].credit + Quantum \in Int
        BY <4>1, Constants
      <4> QED BY Zenon, <2>1, <4>2 DEF Node
    <3>2. flow' = [flow EXCEPT ![f] = [flow[f] EXCEPT !.credit = @ + Quantum]]
      BY <2>1, <2>3, <1>2 DEF OutOfCredit
    <3>3. flow' \in [FlowId -> Node]
      BY <3>1, <3>2, <2>1, <1>2
    <3> QED BY <1>2, <1>3, <2>1, <2>2, <2>3, <3>3, Zenon DEF OutOfCredit
  <2>4. CASE EmptyFlow(l, f, fs, n)
    <3>1. [flow[f] EXCEPT !.age = now] \in Node
      <4>1. now \in Nat
        BY DEF TypeOK
      <4> QED BY Zenon, <2>1, <4>1 DEF Node
    <3>2. [flow EXCEPT ![f].age = now] = [flow EXCEPT ![f] = [flow[f] EXCEPT !.age = now]]
      BY <2>1, <1>2
    <3>3. [flow EXCEPT ![f].age = now] \in [FlowId -> Node]
      BY <3>1, <3>2, <2>1, <1>2
    <3>4. \/ flow' = flow
          \/ flow' = Objects([flow EXCEPT ![f].age = now])
      BY <2>4 DEF EmptyFlow
    <3>5. flow' \in [FlowId -> Node]
      <4>1. Objects([flow EXCEPT ![f].age = now]) \in [FlowId -> Node]
        <5> DEFINE g == [flow EXCEPT ![f].age = now]
        <5> HIDE DEF g
        <5> QED BY <3>3, ObjectsType, Zenon DEF Objects, g
      <4> QED BY <3>4, <4>1, <1>2, Zenon
    <3>6. /\ fq_flows' \in [{"new", "old"} -> Seq(FlowId)] /\ flow_cnt' \in [{"new", "old"} -> Nat]
          /\ Continue /\ UNCHANGED <<fq_delayed, time_next_delayed_flow>>
      BY <2>1, <2>4, Zenon DEF EmptyFlow
    <3> QED BY <1>2, <1>3, <2>2, <3>5, <3>6, Zenon
  <2>5. CASE fq_flow_set_throttled(f, fs, n)
    <3>1. NextTime(f) \in 0..MaxTime
      <4>1. flow[f].queue # {}
        BY <2>5 DEF fq_flow_set_throttled
      <4>2. skbn_first(flow[f].queue) \in Packet
        BY <4>1, <2>1, TakeTypes, Zenon
      <4>3. skbn_first(flow[f].queue).tstamp \in 0..MaxTime
        BY <4>2 DEF Packet
      <4>4. flow[f].time_next_packet \in 0..MaxTime
        BY <2>1 DEF Node
      <4> QED BY <4>3, <4>4 DEF NextTime, Larger
    <3> DEFINE x == NextTime(f)
    <3> HIDE DEF x
    <3>2. [flow[f] EXCEPT !.time_next_packet = x, !.age = Throttled] \in Node
      BY Zenon, <2>1, <3>1 DEF Node, x
    <3>3. flow' = [flow EXCEPT ![f] = [flow[f] EXCEPT !.time_next_packet = x, !.age = Throttled]]
      BY Zenon, <2>1, <2>5, <1>2 DEF fq_flow_set_throttled, x
    <3>4. flow' \in [FlowId -> Node]
      BY <3>2, <3>3, <2>1, <1>2
    <3>5. Smaller(time_next_delayed_flow, NextTime(f)) \in 0..Never
      BY <3>1, <1>2, Constants DEF Smaller
    <3>6. fq_delayed \cup {f} \subseteq FlowId
      BY <2>1, <2>2
    <3> QED BY <1>3, <2>1, <2>5, <3>4, <3>5, <3>6, Zenon DEF fq_flow_set_throttled
  <2>6. CASE SendFirst(f)
    <3> DEFINE p == skbn_first(flow[f].queue)
    <3>1. flow[f].queue # {}
      BY <2>6 DEF SendFirst
    <3>2. p \in Packet
      BY <3>1, <2>1, TakeTypes, Zenon
    <3>3. Return(p) /\ UNCHANGED <<fq_flows, flow_cnt, fq_delayed, time_next_delayed_flow, i>>
      BY <2>6 DEF SendFirst
    <3>4. flow' = [flow EXCEPT ![f] =
                     [flow[f] EXCEPT !.queue = @ \ {p}, !.credit = @ - p.len, !.qlen = @ - 1]]
      BY Zenon, <2>6, <2>1, <1>2 DEF SendFirst
    <3> HIDE DEF p
    <3>5. [flow[f] EXCEPT !.queue = @ \ {p}, !.credit = @ - p.len, !.qlen = @ - 1] \in Node
      BY <2>1, <3>2, NodeTypes, Zenon
    <3>6. flow' \in [FlowId -> Node]
      BY <3>4, <3>5, <2>1, <1>2
    <3>7. /\ pc' = "idle" /\ qlen' \in Nat /\ backlog' \in 0..(U32 - 1)
          /\ sent' \subseteq 1..MaxPkts /\ exhausted' = FALSE
          /\ UNCHANGED <<now, timer, kick, arrived, left, resets, attaches>>
      BY <1>2, <3>2, <3>3, ReturnTypes, Zenon
    <3> QED BY <1>1, <3>3, <3>6, <3>7, Zenon DEF TypeOK, Counted
  <2> QED BY <1>8, <2>3, <2>4, <2>5, <2>6
<1> QED BY <1>5, <1>6, <1>8, Zenon DEF fq_dequeue_nonprio_flows

LEMMA TypeReset ==
    ASSUME TypeOK, NEW d \in BOOLEAN, bpf_fq_reset(d)
    PROVE  TypeOK' /\ Counted'
<1>1. fq_prio_flows' \in FlowId \cup {Absent}
  BY DEF bpf_fq_reset
<1> DEFINE g == [f \in FlowId |-> IF f = fq_prio_flows' THEN NewNode ELSE flow[f]]
<1>2. g \in [FlowId -> Node]
  BY NewNodeType DEF TypeOK
<1>3. flow' \in [FlowId -> Node]
  BY Zenon, <1>2, ObjectsType DEF bpf_fq_reset, Objects
<1>4. fq_nonprio_flows' \in [Hash -> FlowId \cup {Absent}]
  BY DEF bpf_fq_reset
<1>5. resets' \in 0..MaxResets /\ 0 \in Nat /\ 0 \in 0..(U32 - 1)
  <2>1. resets \in 0..MaxResets /\ resets < MaxResets /\ resets' = resets + 1
    BY DEF bpf_fq_reset, TypeOK
  <2> QED BY <2>1, Constants
<1> QED BY <1>1, <1>3, <1>4, <1>5, Zenon DEF bpf_fq_reset, TypeOK, Counted, kernel

LEMMA TypeDrain == TypeOK /\ fq_remove_flows_in_list => TypeOK' /\ Counted'
<1> SUFFICES ASSUME TypeOK, fq_remove_flows_in_list PROVE TypeOK' /\ Counted'
  OBVIOUS
<1>1. /\ UNCHANGED <<fq_prio_flows, fq_nonprio_flows, fq_delayed, time_next_delayed_flow,
                     ktime_cache, qlen, backlog, i, destroying, now, timer, kick, arrived, sent,
                     left, exhausted, resets, attaches>>
      /\ pc' \in {"drain", "unset_all"}
  BY DEF fq_remove_flows_in_list, sch, kernel, history
<1>2. /\ flow' \in [FlowId -> Node] /\ fq_flows' \in [{"new", "old"} -> Seq(FlowId)]
      /\ flow_cnt' \in [{"new", "old"} -> Nat]
  <2>1. /\ flow \in [FlowId -> Node] /\ fq_flows \in [{"new", "old"} -> Seq(FlowId)]
        /\ flow_cnt \in [{"new", "old"} -> Nat]
    BY DEF TypeOK
  <2>2. CASE fq_flows["new"] = <<>> /\ fq_flows["old"] = <<>>
    BY <2>1, <2>2 DEF fq_remove_flows_in_list
  <2>3. CASE ~(fq_flows["new"] = <<>> /\ fq_flows["old"] = <<>>)
    <3>1. PICK l \in {"new", "old"} : /\ fq_flows[l] # <<>>
                                      /\ fq_flows' = [fq_flows EXCEPT ![l] = Tail(@)]
      BY Zenon, <2>3 DEF fq_remove_flows_in_list
    <3>2. fq_flows[l] \in Seq(FlowId)
      BY <2>1
    <3>3. Tail(fq_flows[l]) \in Seq(FlowId)
      BY <3>1, <3>2, TailFacts
    <3>4. fq_flows' \in [{"new", "old"} -> Seq(FlowId)]
      BY <2>1, <3>1, <3>3
    <3>5. flow' = Objects(flow) /\ flow_cnt' = flow_cnt
      BY <2>3 DEF fq_remove_flows_in_list
    <3>6. flow' \in [FlowId -> Node]
      BY <2>1, <3>5, ObjectsType DEF Objects
    <3> QED BY <2>1, <3>4, <3>5, <3>6
  <2> QED BY <2>2, <2>3
<1> QED BY <1>1, <1>2, Zenon DEF TypeOK, Counted

LEMMA TypeRest ==
    TypeOK /\ Counted /\ (RoundsOver \/ Tick \/ Watchdog \/ UNCHANGED vars) => TypeOK' /\ Counted'
<1> SUFFICES ASSUME TypeOK, Counted PROVE
        (RoundsOver \/ Tick \/ Watchdog \/ UNCHANGED vars) => TypeOK' /\ Counted'
  OBVIOUS
<1>1. Never \in 0..Never /\ 0 \in 0..Never
  BY Constants
<1>2. ASSUME RoundsOver PROVE TypeOK' /\ Counted'
  <2>1. /\ pc' = "idle" /\ kick' = FALSE /\ timer' \in 0..Never /\ exhausted' \in BOOLEAN
        /\ UNCHANGED <<qlen, backlog, now, arrived, sent, left, resets, attaches>>
    BY <1>1, <1>2, ReturnNullTypes, Zenon DEF RoundsOver
  <2> QED BY <1>2, <2>1, Zenon DEF RoundsOver, TypeOK, Counted
<1>3. ASSUME Tick PROVE TypeOK' /\ Counted'
  <2>1. now' = now + 1 /\ now < MaxTime /\ now \in 1..MaxTime /\ ktime_cache \in 0..now
    BY <1>3 DEF Tick, TypeOK
  <2>2. now' \in 1..MaxTime /\ ktime_cache \in 0..now'
    BY <2>1, Constants
  <2> QED BY <1>3, <2>2, Zenon DEF Tick, TypeOK, Counted, sch, history
<1>4. ASSUME Watchdog PROVE TypeOK' /\ Counted'
  BY <1>1, <1>4, Zenon DEF Watchdog, TypeOK, Counted, sch, history
<1>5. ASSUME UNCHANGED vars PROVE TypeOK' /\ Counted'
  BY <1>5, Zenon DEF vars, TypeOK, Counted, sch, kernel, history
<1> QED BY <1>2, <1>3, <1>4, <1>5

\* Every step keeps the types.
LEMMA TypeStep == TypeOK /\ Counted /\ [Next]_vars => TypeOK' /\ Counted'
<1> SUFFICES ASSUME TypeOK, Counted, [Next]_vars PROVE TypeOK' /\ Counted'
  OBVIOUS
<1>1. bpf_fq_init => Counted'
  BY DEF bpf_fq_init, Counted
<1>2. ASSUME NEW c \in Hash \cup {Prio}, NEW t \in 0..(now + Horizon + 1), NEW n \in PktLen,
             bpf_fq_enqueue(c, t, n)
      PROVE  TypeOK' /\ Counted'
  <2>1. pc' = "idle"
    BY <1>2 DEF bpf_fq_enqueue
  <2>2. TypeOK'
    BY <1>2, TypeEnqueue
  <2> QED BY <2>1, <2>2 DEF Counted
<1> QED BY <1>1, <1>2, TypeAttach, TypeDequeue, TypeUnset, TypeRound, TypeReset, TypeDrain,
           TypeRest, Zenon DEF Next, Dequeue

\* The variables of the scheduler keep their types, for every value of the
\* constants; in particular sch->q.qlen never goes below 0, because a dequeue
\* looks for a packet only when the counter is not 0.
THEOREM TypeCorrect == Spec => []TypeOK
<1>1. Init => TypeOK /\ Counted
  BY TypeInit DEF Init, Counted
<1> QED BY <1>1, TypeStep, PTL DEF Spec
=============================================================================
