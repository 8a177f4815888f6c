---------------------------- MODULE BpfVerifier ----------------------------
(***************************************************************************)
(* The rules of the kernel's verifier that the programs' tags rely on: the *)
(* verifier is not in the repository, the tags say which program must be   *)
(* refused and with which words.  Every path is followed up to its first   *)
(* error.                                                                  *)
(***************************************************************************)
EXTENDS BpfOps

\* held: references to give back; val: kind of a variable, and whether it may
\* be NULL; root: the variable whose reference it shares; part: the dynptr a
\* pointer points into, the packet a dynptr is of; locks and irq: stacks; rcu and pre: nesting.
Empty == [held |-> {}, val |-> "" :> <<"null", FALSE>>, root |-> "" :> "", part |-> "" :> "", locks |-> <<>>, irq |-> <<>>, rcu |-> 0, pre |-> 0]
Top(s) == s[Len(s)]
Pop(s) == SubSeq(s, 1, Len(s) - 1)
Kind(e, v) == IF v \in DOMAIN e.val THEN e.val[v][1] ELSE "stack"
MaybeNull(e, v) == Kind(e, v) = "null" \/ (v \in DOMAIN e.val /\ e.val[v][2])
Know(e, v, k, m) == [e EXCEPT !.val = (v :> <<k, m>>) @@ @]
Set(e, v, k, m) == [Know(e, v, k, m) EXCEPT !.root = (v :> v) @@ @]
Root(e, v) == IF v \in DOMAIN e.root THEN e.root[v] ELSE v
Owns(e, v, m) == [Set(e, v, "owned", m) EXCEPT !.held = @ \cup {v}]
\* Every pointer of the same reference becomes k.
Forget(e, v, k) ==
    [e EXCEPT !.held = @ \ {Root(e, v)},
              !.val = [w \in DOMAIN @ |-> IF Root(e, w) = Root(e, v) THEN <<k, FALSE>> ELSE @[w]]]

\* The dynptrs that share d's reference; the last of them may not be lost.
IsDynptr(e, d) == Kind(e, d) \in {"dynptr", "packet"}
Clones(e, d) == {w \in DOMAIN e.val : IsDynptr(e, w) /\ Root(e, w) = Root(e, d)}
LastClone(e, d) == IsDynptr(e, d) /\ Root(e, d) \in e.held /\ Clones(e, d) = {d}
\* The dynptrs ds are gone, and with them what points into them.
Destroy(e, ds) ==
    [e EXCEPT !.val = [w \in DOMAIN @ |-> IF w \in ds /\ IsDynptr(e, w) THEN <<"stack", FALSE>>
                                          ELSE IF @[w][1] \in {"slice", "packet_slice"} /\ e.part[w] \in ds
                                               THEN <<"scalar", FALSE>> ELSE @[w]]]

InRcu(e, type) == type # "sleepable" \/ e.rcu > 0 \/ e.pre > 0 \/ e.irq # <<>> \/ e.locks # <<>>
Turn(e, kinds, k) ==
    [e EXCEPT !.val = [v \in DOMAIN @ |-> IF @[v][1] \in kinds THEN <<k, @[v][2]>> ELSE @[v]]]
\* Out of the last section that protects them, RCU pointers are untrusted.
Settle(e, type) == IF InRcu(e, type) THEN e ELSE Turn(Turn(e, {"rcu", "graph"}, "untrusted"), {"walk"}, "stale")

\* The messages, by words the tags quote.
InSpin == "inside bpf_spin_lock-ed region"
InIrq == "inside bpf_local_irq_save-ed region"
InRcuRegion == "inside bpf_rcu_read_lock-ed region"
InPreempt == "inside bpf_preempt_disable-ed region"
Unreleased == "Unreleased reference"
PossiblyNull == "NULL pointer passed to trusted"
NotReferenced == "expects referenced PTR_TO_BTF_ID"
NotRcu == "must be a rcu pointer"
TypeFp == "type=fp expected"
TypeMap == "type=map_value expected=fp"
NotAllowed == "is not allowed"
Calls == "function calls are not allowed"
OutOfOrder == "cannot restore irq state out of order"
Uninitialized == "expected uninitialized"
Initialized == "expected an initialized"
Sleepable == "sleepable helper"
SleepableWithin == "is sleepable within"
SleepableGlobal == "sleepable global function"
MustBeSleepable == "program must be sleepable"
Deadlock == "AA deadlock detected"
Different == "unlock of different lock"
UnlockOrder == "bpf_res_spin_unlock cannot be out of order"
BadRead == "invalid read from stack"
BadAccess == "invalid mem access"
ScalarAccess == "invalid mem access 'scalar'"
OrNullAccess == "invalid mem access 'mem_or_null'"
NoDynptr == "Expected an initialized dynptr"
LosesDynptr == "cannot overwrite referenced dynptr"
NeedsSection == "requires RCU critical section protection"
LeftSection == "expected an RCU CS when using"
WithoutLock == "without taking a lock"
WouldLeak == "would lead to reference leak"
ThrowInCallback == "cannot be called from callback"
MustHold == "must be held for"
NotAllocated == "expected pointer to allocated object"
TypeScalar == "type=scalar expected"
TypeUntrusted == "type=untrusted_ptr_ expected"
TypeCtx == "type=ctx expected"
NoRemove == "rbtree_remove not allowed in rbtree cb"
NoSpin == "can't spin_{lock,unlock} in rbtree cb"
NoResSpin == "can't res_spin_{lock,unlock} in rbtree cb"

AtExit(e) ==
    CASE e.locks # <<>> -> {InSpin}
      [] e.locks = <<>> /\ e.irq # <<>> -> {InIrq}
      [] e.locks = <<>> /\ e.irq = <<>> /\ e.rcu > 0 -> {InRcuRegion}
      [] e.locks = <<>> /\ e.irq = <<>> /\ e.rcu = 0 /\ e.pre > 0 -> {InPreempt}
      [] OTHER -> IF e.held # {} THEN {Unreleased} ELSE {}

Trusted(e, v) ==
    IF MaybeNull(e, v) THEN {PossiblyNull}
    ELSE CASE Kind(e, v) = "stack" -> {TypeFp}
           [] Kind(e, v) = "untrusted" -> {NotRcu}
           [] Kind(e, v) = "scalar" -> {TypeScalar}
           [] OTHER -> {}
\* A node of a collection or an object with a count: owned or not.
Node(e, v) ==
    IF MaybeNull(e, v) THEN {PossiblyNull}
    ELSE CASE Kind(e, v) = "scalar" -> {TypeScalar}
           [] Kind(e, v) = "untrusted" -> {TypeUntrusted}
           [] Kind(e, v) = "ctx" -> {TypeCtx}
           [] OTHER -> {}
Flags(e) == {e.irq[i][1] : i \in DOMAIN e.irq}
Held(e) == {e.locks[i] : i \in DOMAIN e.locks}
Unlock(e, lock) ==
    IF e.locks = <<>> THEN {WithoutLock} ELSE IF lock \notin Held(e) THEN {Different} ELSE IF Top(e.locks) # lock THEN {UnlockOrder} ELSE {}
Restore(e, f, class) ==
    IF f \notin Flags(e) THEN {Initialized}
    ELSE IF Top(e.irq) # <<f, class>> THEN {OutOfOrder} ELSE {}

RECURSIVE May(_, _)
May(o, body) ==
    \E i \in DOMAIN body :
        CASE body[i][1] = o -> TRUE
          [] body[i][1] = "global" -> May(o, body[i][2])
          [] body[i][1] = "either" -> May(o, body[i][2]) \/ May(o, body[i][3])
          [] OTHER -> FALSE

\* The calls a kprobe may not make, and the ones no program makes under a lock.
NoKprobe == {"acquire", "find", "release"}
Calling == NoKprobe \cup {"irq_save", "irq_restore", "preempt_disable", "preempt_enable", "rcu_lock", "rcu_unlock",
                           "new", "drop", "helper", "sleep", "global", "xchg", "delete", "use", "lookup", "spin_lock", "throw",
                           "walk_new", "walk_next",
                           "dyn_reserve", "dyn_from", "dyn_of", "dyn_clone", "dyn_data", "dyn_use", "dyn_write", "dyn_release", "move_packet"}

\* The lock of the collection is held, what is inserted is owned.
OnCollection == {"insert", "peek", "child", "edge", "pop", "remove"}
Linking(op, e) ==
    IF <<op[3][3], "spin">> \notin Held(e) THEN {MustHold}
    ELSE IF op[1] = "insert" /\ MaybeNull(e, op[2]) THEN {PossiblyNull}
    ELSE IF op[1] = "insert" /\ op[2] \notin e.held THEN {NotAllocated}
    ELSE IF op[4] # "" THEN Node(e, op[4]) ELSE {}
\* What a comparison may not do: its nodes are not owned.
InCallback(o, e) ==
    CASE o = "throw" -> IF e.locks # <<>> THEN {Calls} ELSE IF e.held # {} THEN {Unreleased} ELSE {ThrowInCallback}
      [] o = "insert" -> {NotAllocated}
      [] o = "remove" -> {NoRemove}
      [] o \in {"spin_lock", "spin_unlock"} -> {NoSpin}
      [] o \in {"res_lock", "res_unlock"} -> {NoResSpin}
      [] OTHER -> {}

\* Why an operation is refused, if it is.
Refused(op, e, type) ==
    LET o == op[1] IN
    IF o \in NoKprobe /\ type = "kprobe" THEN {NotAllowed}
    ELSE IF o \in Calling /\ e.locks # <<>> THEN {Calls}
    ELSE
    CASE o \in {"irq_save", "irq_restore"} /\ Kind(e, op[2]) = "map" -> {TypeMap}
      [] o = "irq_save" -> IF op[2] \in Flags(e) THEN {Uninitialized} ELSE {}
      [] o = "irq_restore" -> IF Kind(e, op[2]) = "map" THEN {TypeMap} ELSE Restore(e, op[2], "irq")
      [] o = "read" -> IF op[2] \in Flags(e) \/ Kind(e, op[2]) = "iter" \/ IsDynptr(e, op[2]) THEN {BadRead} ELSE {}
      [] o = "iter_new" -> IF Kind(e, op[2]) = "iter" THEN {Uninitialized} ELSE {}
      [] o = "walk_new" -> IF ~InRcu(e, type) THEN {NeedsSection} ELSE IF op[3] # "" THEN Trusted(e, op[3]) ELSE {}
      [] o \in {"iter_next", "iter_destroy", "walk_next"} ->
            LET k == Kind(e, IF o = "walk_next" THEN op[3] ELSE op[2]) IN
            IF k = "stale" THEN {LeftSection} ELSE IF k \in {"iter", "walk"} THEN {} ELSE {Initialized}
      [] o \in {"overwrite", "dyn_reserve", "dyn_from", "dyn_of"} ->
            IF o = "dyn_reserve" /\ Kind(e, op[2]) = "map" THEN {TypeMap}
            ELSE IF LastClone(e, op[2]) THEN {LosesDynptr} ELSE {}
      [] o \in {"dyn_clone", "dyn_data"} -> IF ~IsDynptr(e, op[3]) THEN {NoDynptr}
                                           ELSE IF LastClone(e, op[2]) THEN {LosesDynptr} ELSE {}
      [] o \in {"dyn_use", "dyn_write", "dyn_release"} ->
            IF ~IsDynptr(e, op[2]) THEN {NoDynptr}
            ELSE IF o = "dyn_release" /\ Root(e, op[2]) \notin e.held THEN {NotReferenced} ELSE {}
      [] o \in {"ld_abs", "tail_call"} -> IF e.held # {} THEN {WouldLeak} ELSE AtExit(e)
      [] o = "throw" -> AtExit(e)
      [] o = "preempt_enable" -> IF e.pre = 0 THEN {"unmatched attempt to enable preemption"} ELSE {}
      [] o = "rcu_unlock" -> IF e.rcu = 0 THEN {"unmatched rcu read unlock"} ELSE {}
      [] o = "spin_unlock" -> Unlock(e, <<op[2], "spin">>)
      [] o = "res_lock" -> IF op[2] \in {l[1] : l \in Held(e)} THEN {Deadlock} ELSE {}
      [] o = "res_unlock" -> LET bad == Unlock(e, <<op[2], IF op[3] = "" THEN "res" ELSE "res_irq">>) IN
                             IF bad = {} /\ op[3] # "" THEN Restore(e, op[3], "lock") ELSE bad
      [] o = "sleep" -> IF type # "sleepable" THEN {MustBeSleepable}
                        ELSE IF ~InRcu(e, type) THEN {}
                        ELSE IF op[2] = "helper" THEN {Sleepable} ELSE {SleepableWithin}
      [] o = "global" -> IF InRcu(e, type) /\ May("sleep", op[2]) THEN {SleepableGlobal}
                         ELSE IF May("throw", op[2]) THEN AtExit(e) ELSE {}
      [] o \in {"acquire", "cast"} -> Trusted(e, op[3])
      [] o = "use" -> Trusted(e, op[2])
      [] o = "ref" -> Node(e, op[3])
      [] o = "deref" -> IF Kind(e, op[2]) = "scalar" THEN {BadAccess, ScalarAccess}
                        ELSE IF MaybeNull(e, op[2]) THEN {BadAccess, OrNullAccess} ELSE {}
      [] o \in OnCollection -> Linking(op, e)
      [] o = "callback" -> UNION {InCallback(op[2][i][1], e) : i \in DOMAIN op[2]}
      [] o = "load" -> {}
      [] o \in {"release", "drop"} ->
            IF MaybeNull(e, op[2]) THEN {PossiblyNull}
            ELSE IF Kind(e, op[2]) = "stack" THEN {TypeFp}
            ELSE IF Kind(e, op[2]) = "scalar" THEN {TypeScalar}
            ELSE IF Root(e, op[2]) \notin e.held THEN {NotReferenced} ELSE {}
      [] o = "xchg" -> IF op[4] \notin e.held \cup {""} THEN {NotReferenced} ELSE {}
      [] OTHER -> {}

\* What is known after an operation.
After(op, e, type) ==
    LET o == op[1] IN
    Settle(
      CASE o = "irq_save" -> [e EXCEPT !.irq = Append(@, <<op[2], "irq">>)]
        [] o = "irq_restore" -> [e EXCEPT !.irq = Pop(@)]
        [] o = "overwrite" /\ Kind(e, op[2]) = "iter" -> Know(e, op[2], "stack", FALSE)
        [] o = "overwrite" /\ Kind(e, op[2]) # "iter" ->
              [Destroy(e, {op[2]}) EXCEPT !.irq = [i \in DOMAIN @ |-> IF @[i][1] = op[2] THEN <<"", "">> ELSE @[i]]]
        [] o = "preempt_disable" -> [e EXCEPT !.pre = @ + 1]
        [] o = "preempt_enable" -> [e EXCEPT !.pre = @ - 1]
        [] o = "rcu_lock" -> [e EXCEPT !.rcu = @ + 1]
        [] o = "rcu_unlock" -> [e EXCEPT !.rcu = @ - 1]
        [] o = "spin_lock" -> [e EXCEPT !.locks = Append(@, <<op[2], "spin">>)]
        [] o = "res_lock" /\ op[3] = "" -> [e EXCEPT !.locks = Append(@, <<op[2], "res">>)]
        [] o = "res_lock" /\ op[3] # "" ->
              [e EXCEPT !.locks = Append(@, <<op[2], "res_irq">>), !.irq = Append(@, <<op[3], "lock">>)]
        [] o = "spin_unlock" -> Turn([e EXCEPT !.locks = Pop(@)], {"node", "graph"}, "scalar")
        [] o = "res_unlock" -> [e EXCEPT !.locks = Pop(@), !.irq = IF op[3] = "" THEN @ ELSE Pop(@)]
        [] o = "set" -> Set(e, op[2], op[3], FALSE)
        [] o = "lookup" -> Set(e, op[2], "map", TRUE)
        [] o = "load" -> Set(e, op[2], IF ~InRcu(e, type) THEN "untrusted"
                                       ELSE IF op[3] = "graph" THEN "graph" ELSE "rcu", TRUE)
        [] o = "cast" -> [Set(e, op[2], "owned", TRUE) EXCEPT !.root[op[2]] = Root(e, op[3])]
        [] o = "ref" -> Owns(e, op[2], Kind(e, op[3]) # "owned")
        [] o = "insert" -> [Set(e, op[2], "node", FALSE) EXCEPT !.held = @ \ {op[2]}]
        [] o \in {"peek", "child"} -> Set(e, op[2], "node", TRUE)
        [] o \in {"pop", "remove"} -> Owns(e, op[2], TRUE)
        [] o \in {"acquire", "new", "find"} -> Owns(e, op[2], TRUE)
        [] o \in {"release", "drop"} ->
              Forget(Destroy(e, {d \in DOMAIN e.part : e.part[d] = op[2]}), op[2], "scalar")
        [] o = "given" -> Owns(e, op[2], FALSE)
        [] o = "walk_new" -> [Set(e, op[2], "walk", FALSE) EXCEPT !.held = @ \cup {op[2]}]
        [] o = "walk_next" -> Set(e, op[2], "rcu", TRUE)
        [] o = "iter_new" -> [Set(e, op[2], "iter", FALSE) EXCEPT !.held = @ \cup {op[2]}]
        [] o = "iter_destroy" -> Forget(e, op[2], "stack")
        [] o = "dyn_reserve" -> [Set(Destroy(e, {op[2]}), op[2], "dynptr", FALSE) EXCEPT !.held = @ \cup {op[2]}]
        [] o = "dyn_from" -> Set(Destroy(e, {op[2]}), op[2], op[3], FALSE)
        [] o = "dyn_of" -> [Set(Destroy(e, {op[2]}), op[2], "packet", FALSE) EXCEPT !.part = (op[2] :> op[3]) @@ @]
        [] o = "dyn_clone" ->
              LET d == Set(Destroy(e, {op[2]}), op[2], Kind(e, op[3]), FALSE) IN
              IF Root(e, op[3]) \in e.held THEN [d EXCEPT !.root[op[2]] = Root(e, op[3])] ELSE d
        [] o = "dyn_data" ->
              [Set(e, op[2], IF Kind(e, op[3]) = "packet" THEN "packet_slice" ELSE "slice", TRUE)
                  EXCEPT !.part = (op[2] :> op[3]) @@ @]
        [] o = "dyn_release" -> [Destroy(e, Clones(e, op[2])) EXCEPT !.held = @ \ {Root(e, op[2])}]
        [] o = "dyn_write" /\ Kind(e, op[2]) = "packet" -> Turn(e, {"packet_slice"}, "scalar")
        [] o = "move_packet" -> Turn(e, {"packet_slice"}, "scalar")
        [] o = "xchg" -> Owns(IF op[4] = "" THEN e ELSE Forget(e, op[4], "untrusted"), op[2], TRUE)
        [] OTHER -> e, type)

\* What is left of a path, and what is known there: where one operation leads.
\* A path that breaks a rule or ends leads nowhere, with an error or without.
Follow(path, type) ==
    LET todo == path[1]
        e == path[2]
        op == Head(todo)
        rest == Tail(todo)
        bad == Refused(op, e, type)
        next == After(op, e, type)
        Ends(errors) == [paths |-> {}, errors |-> errors]
        GoesOn(paths) == IF bad # {} THEN Ends(bad) ELSE [paths |-> paths, errors |-> {}]
    IN IF todo = <<>> THEN Ends(AtExit(e))
       ELSE CASE op[1] = "return" -> Ends(AtExit(e))
              [] op[1] = "throw" -> Ends(bad)
              [] op[1] = "either" -> GoesOn({<<op[2] \o rest, e>>, <<op[3] \o rest, e>>})
              [] op[1] = "if" ->
                    LET k == Kind(e, op[2]) IN
                    GoesOn((IF k = "null" THEN {} ELSE {<<op[3] \o rest, Know(e, op[2], k, FALSE)>>})
                           \cup (IF MaybeNull(e, op[2]) \/ k \in {"untrusted", "scalar"}
                                 THEN {<<op[4] \o rest, [Know(e, op[2], "null", FALSE) EXCEPT !.held = @ \ {op[2]}]>>}
                                 ELSE {}))
              [] op[1] = "res_lock" -> GoesOn({<<op[4] \o rest, next>>, <<op[5] \o rest, e>>})
              [] op[1] = "insert" -> GoesOn({<<op[5] \o rest, next>>, <<op[6] \o rest, next>>})
              [] op[1] = "global" ->
                    [paths |-> {<<op[2], Empty>>} \cup (IF bad = {} THEN {<<rest, e>>} ELSE {}), errors |-> bad]
              [] OTHER -> GoesOn({<<rest, next>>})
FollowAll(found, type) ==
    LET steps == {Follow(path, type) : path \in found.paths} IN
    [paths |-> UNION {s.paths : s \in steps}, errors |-> found.errors \cup UNION {s.errors : s \in steps}]
\* n operations on, halving n: a path is longer than TLC's stack is deep.
RECURSIVE Explore(_, _, _)
Explore(found, type, n) ==
    IF found.paths = {} THEN found
    ELSE IF n = 1 THEN FollowAll(found, type)
    ELSE Explore(Explore(found, type, n \div 2), type, n - n \div 2)

MaxPath == 1024                                 \* bound: the operations of a path
TooLong == "too long"
\* The errors of all paths.
Errors(body, type) ==
    LET found == Explore([paths |-> {<<body, Empty>>}, errors |-> {}], type, MaxPath) IN
    IF found.paths = {} THEN found.errors ELSE {TooLong}
=============================================================================
