------------------------------- MODULE BpfRun -------------------------------
(***************************************************************************)
(* The programs of one file, loaded and run at the same time on several    *)
(* CPUs.  Nothing here knows what the verifier tracks: an object is freed  *)
(* when its last reference is gone and every read section that was open    *)
(* at that moment has ended.                                               *)
(***************************************************************************)
EXTENDS BpfVerifier

CONSTANTS Files,    \* sets of programs; the programs of one file meet
          Filled,   \* the files whose programs read or look up an object held elsewhere from the start
          Cpus

VARIABLES cpu,      \* what each CPU runs
          refs,     \* references to each object
          pins,     \* the CPUs whose read sections keep an unreferenced object
          slot,     \* the object a map value (or a local object) holds
          owner,    \* who holds each lock
          kernel,   \* the objects the kernel itself holds a reference to
          kept      \* <<collection, object>>: the nodes of trees and lists
vars == <<cpu, refs, pins, slot, owner, kernel, kept>>

NULL == <<"null", 0>>
Elem == <<"elem", 0>>                           \* a map value
Arg(c) == <<"arg", c>>                          \* the argument, the current task
Pool == 4                                       \* bound: a program makes at most four objects
Local(c, n) == <<"new", c, n>>                  \* the n-th object it makes
Locals == {Local(c, n) : c \in Cpus, n \in 1..Pool}
InMap == <<"map", 0>>                           \* that object, held by a map
FilledSlot == <<"locked", 0>>
Objects == {Arg(c) : c \in Cpus} \cup Locals \cup {InMap}
Nobody == 0
Shared == {"task", "cgrp", "locked", "cpumask", "mask", "mask1", "stash0", "stash1", "percpu", "only"} \X {0}
Slots == Shared \cup ({"local"} \X Cpus)
SlotOf(c, s) == <<s, IF s = "local" THEN c ELSE 0>>
Locks == {"A", "B", "elem", "lock", "v", "alock", "block", "glock", "glock0", "glock1", "nested", "uninit"}
\* Two lookups of one element give one lock.
LockOf(l) == IF l \in {"elem1", "elem2"} THEN "elem" ELSE l

Idle == [state |-> "idle", prog |-> "", type |-> "", todo |-> <<>>, val |-> << >>,
         irqs |-> TRUE, saved |-> << >>, rcu |-> 0, pre |-> 0, made |-> 0, locks |-> {}, msg |-> "", errors |-> {}]
Atomic(s) == s.rcu > 0 \/ s.pre > 0 \/ ~s.irqs \/ s.locks # {}
\* A program that may not sleep runs in a read section from start to end.
Reading(s) == s.state = "run" /\ (s.type # "sleepable" \/ Atomic(s))
Gone(o) == refs[o] = 0 /\ pins[o] = {}

\* The types; no program leaves a section it has not entered (bpf_preempt_enable
\* and bpf_rcu_read_unlock never outnumber their openings).
TypeOK ==
    /\ \A c \in Cpus : /\ cpu[c].state \in {"idle", "loaded", "run", "done", "refused", "unloaded"}
                       /\ cpu[c].rcu \in Nat /\ cpu[c].pre \in Nat /\ cpu[c].locks \subseteq Locks
    /\ refs \in [Objects -> Nat]
    /\ pins \in [Objects -> SUBSET Cpus]
    /\ slot \in [Slots -> Objects \cup {NULL}]
    /\ owner \in [Locks -> Cpus \cup {Nobody}]
    /\ kernel \subseteq Objects
    /\ \A x \in kept : x[1][3] \in Locks /\ x[2] \in Objects

Init ==
    /\ cpu = [c \in Cpus |-> Idle]
    /\ slot = [s \in Slots |-> NULL]
    /\ kernel = {Arg(c) : c \in Cpus}
    /\ refs = [o \in Objects |-> IF o \in kernel THEN 1 ELSE 0]
    /\ pins = [o \in Objects |-> {}]
    /\ owner = [l \in Locks |-> Nobody]
    /\ kept = {}

With(s, v, x) == [s EXCEPT !.val = (v :> x) @@ @]
\* Where a program may be once it has done what only it can see: read its
\* arguments, branched, called a function.
RECURSIVE Settled(_, _)
Settled(c, s) ==
    IF s.todo = <<>> THEN {[s EXCEPT !.state = "done", !.type = "", !.made = 0, !.val = << >>, !.saved = << >>]}
    ELSE LET op == Head(s.todo)
             On(ops) == Settled(c, [s EXCEPT !.todo = ops \o Tail(s.todo)])
             OneOf(xs) == UNION {Settled(c, With([s EXCEPT !.todo = Tail(@)], op[2], x)) : x \in xs}
         IN CASE op[1] \in {"return", "throw"} -> Settled(c, [s EXCEPT !.todo = <<>>])
              [] op[1] \in {"helper", "iter_new", "iter_next", "callback", "overwrite", "move_packet"} -> On(<<>>)
              [] op[1] \in {"ld_abs", "tail_call"} -> On(<<>>) \cup Settled(c, [s EXCEPT !.todo = <<>>])
              [] op[1] \in {"cast", "dyn_data"} -> OneOf({NULL, s.val[op[3]]})
              [] op[1] = "iter_destroy" -> IF op[2] \in DOMAIN s.val THEN OneOf({NULL}) ELSE On(<<>>)
              [] op[1] = "dyn_clone" -> OneOf({s.val[op[3]]})
              [] op[1] = "dyn_from" -> OneOf({NULL, Arg(c)})
              [] op[1] = "set" -> OneOf({IF op[3] = "null" THEN NULL ELSE Arg(c)})
              [] op[1] = "global" -> On(op[2])
              [] op[1] = "either" -> On(op[2]) \cup On(op[3])
              [] op[1] = "if" -> On(IF s.val[op[2]] # NULL THEN op[3] ELSE op[4])
              [] OTHER -> {s}

\* CPU c goes on as s; the objects in lost lose one reference each.
Continue(c, s, lost) ==
    \E t \in Settled(c, s) :
        LET dead == {o \in lost : refs[o] = 1} IN
        /\ cpu' = [cpu EXCEPT ![c] = t]
        /\ pins' = [o \in Objects |-> (IF o \in dead THEN {d \in Cpus : Reading(cpu[d])} ELSE pins[o])
                                      \ (IF Reading(t) THEN {} ELSE {c})]
Put(lost) == refs' = [o \in Objects |-> IF o \in lost THEN refs[o] - 1 ELSE refs[o]]
Get(o) == refs' = [refs EXCEPT ![o] = @ + 1]

Op(c) == Head(cpu[c].todo)
Is(c, o) == cpu[c].state = "run" /\ Op(c)[1] = o
Among(c, os) == cpu[c].state = "run" /\ Op(c)[1] \in os
Rest(c) == [cpu[c] EXCEPT !.todo = Tail(@)]
Val(c, v) == cpu[c].val[v]
NoWorld == UNCHANGED <<refs, slot, owner, kernel, kept>>

-----------------------------------------------------------------------------

\* The tag says which programs load, all of them before any runs; nothing
\* runs beside one that does not.  The maps of the file come with it.
Load(c) == cpu[c].state = "idle" /\ \E f \in Files : \E p \in f :
    LET s == [Idle EXCEPT !.prog = p.name, !.type = p.type, !.msg = p.msg] IN
    /\ \A d \in Cpus : \/ cpu[d].state = "idle"
                       \/ p.msg = "" /\ cpu[d].state = "loaded" /\ cpu[d].prog \in {q.name : q \in f}
    /\ cpu' = [cpu EXCEPT ![c] = [s EXCEPT !.state = IF p.msg = "" THEN "loaded" ELSE "refused",
                                           !.todo = p.body, !.errors = Errors(p.body, p.type)]]
    /\ IF f \in Filled THEN slot' = [slot EXCEPT ![FilledSlot] = InMap] /\ refs' = [refs EXCEPT ![InMap] = 1]
                       ELSE UNCHANGED <<slot, refs>>
    /\ UNCHANGED <<pins, owner, kernel, kept>>
Start(c) ==
    /\ cpu[c].state = "loaded" /\ \A d \in Cpus : cpu[d].state # "idle"
    /\ Continue(c, [cpu[c] EXCEPT !.state = "run", !.prog = ""], {})
    /\ NoWorld

IrqFlag(c) ==
    /\ \/ Is(c, "irq_save")
          /\ Continue(c, [Rest(c) EXCEPT !.saved = (Op(c)[2] :> cpu[c].irqs) @@ @, !.irqs = FALSE], {})
       \/ Is(c, "irq_restore") /\ Continue(c, [Rest(c) EXCEPT !.irqs = cpu[c].saved[Op(c)[2]]], {})
    /\ NoWorld
Preemption(c) ==
    /\ \/ Is(c, "preempt_disable") /\ Continue(c, [Rest(c) EXCEPT !.pre = @ + 1], {})
       \/ Is(c, "preempt_enable") /\ Continue(c, [Rest(c) EXCEPT !.pre = @ - 1], {})
    /\ NoWorld
Rcu(c) ==
    /\ \/ Is(c, "rcu_lock") /\ Continue(c, [Rest(c) EXCEPT !.rcu = @ + 1], {})
       \/ Is(c, "rcu_unlock") /\ Continue(c, [Rest(c) EXCEPT !.rcu = @ - 1], {})
    /\ NoWorld
\* The next of a walk is any object the kernel holds, or none: data decides.
Walk(c) ==
    /\ \/ Is(c, "walk_new") /\ Continue(c, With(Rest(c), Op(c)[2], IF Op(c)[3] = "" THEN NULL ELSE Val(c, Op(c)[3])), {})
       \/ /\ Is(c, "walk_next")
          /\ \E x \in kernel \cup {NULL} : Continue(c, With(With(Rest(c), Op(c)[3], x), Op(c)[2], x), {})
    /\ NoWorld
Run(c) == Among(c, {"sleep", "use", "deref", "edge", "dyn_use", "dyn_write"}) /\ Continue(c, Rest(c), {}) /\ NoWorld

\* A spin lock is waited for; a resilient one is refused when it is taken.
Lock(c) == LET l == LockOf(Op(c)[2]) IN
    /\ Is(c, "spin_lock") \/ Is(c, "res_lock")
    /\ \/ /\ owner[l] = Nobody
          /\ owner' = [owner EXCEPT ![l] = c]
          /\ LET s == [Rest(c) EXCEPT !.locks = @ \cup {l}]
                 f == Op(c)[3]
                 flagged == IF f = "" THEN s ELSE [s EXCEPT !.saved = (f :> cpu[c].irqs) @@ @, !.irqs = FALSE]
             IN IF Is(c, "spin_lock") THEN Continue(c, s, {})
                ELSE Continue(c, [flagged EXCEPT !.todo = Op(c)[4] \o @], {})
       \/ /\ Is(c, "res_lock") /\ owner[l] # Nobody
          /\ Continue(c, [Rest(c) EXCEPT !.todo = Op(c)[5] \o @], {})
          /\ UNCHANGED owner
    /\ UNCHANGED <<refs, slot, kernel, kept>>
LetGo(c) == LET l == LockOf(Op(c)[2])
                  s == [Rest(c) EXCEPT !.locks = @ \ {l}] IN
    /\ Is(c, "spin_unlock") \/ Is(c, "res_unlock")
    /\ owner' = [owner EXCEPT ![l] = Nobody]
    /\ Continue(c, IF Is(c, "res_unlock") /\ Op(c)[3] # "" THEN [s EXCEPT !.irqs = cpu[c].saved[Op(c)[3]]] ELSE s, {})
    /\ UNCHANGED <<refs, slot, kernel, kept>>

Lookup(c) ==
    /\ Is(c, "lookup")
    /\ \E x \in {NULL, Elem} : Continue(c, With(Rest(c), Op(c)[2], x), {})
    /\ NoWorld
LoadKptr(c) ==
    /\ Is(c, "load")
    /\ Continue(c, With(Rest(c), Op(c)[2], slot[SlotOf(c, Op(c)[3])]), {})
    /\ NoWorld

\* A reference to p, if p still has one; to any live object; to a new one.
Makes(c) == Is(c, "new") \/ Is(c, "dyn_reserve")
Sources(c) ==
    {o \in Objects : /\ Is(c, "acquire") \/ Is(c, "ref") => o = Val(c, Op(c)[3])
                     /\ Is(c, "find") => o \notin Locals
                     /\ IF Makes(c) THEN o = Local(c, cpu[c].made + 1) ELSE refs[o] > 0}
Take(c) ==
    /\ Is(c, "acquire") \/ Is(c, "ref") \/ Is(c, "find") \/ Makes(c)
    /\ \/ \E o \in Sources(c) : Get(o) /\ Continue(c, With([Rest(c) EXCEPT !.made = @ + (IF Makes(c) THEN 1 ELSE 0)], Op(c)[2], o), {})
       \/ /\ Is(c, "acquire") \/ Is(c, "ref") => Sources(c) = {}
          /\ Continue(c, With(Rest(c), Op(c)[2], NULL), {}) /\ UNCHANGED refs
    /\ UNCHANGED <<slot, owner, kernel, kept>>
\* The kernel's reference to the argument becomes the program's.
Given(c) ==
    /\ Is(c, "given")
    /\ kernel' = kernel \ {Arg(c)} /\ Continue(c, With(Rest(c), Op(c)[2], Arg(c)), {})
    /\ UNCHANGED <<refs, slot, owner, kept>>
\* A reservation that failed is submitted or discarded too.
Release(c) ==
    /\ Is(c, "release") \/ Is(c, "dyn_release")
    /\ LET lost == {Val(c, Op(c)[2])} \ {NULL} IN Put(lost) /\ Continue(c, Rest(c), lost)
    /\ UNCHANGED <<slot, owner, kernel, kept>>
\* What the object holds goes with it.
Drop(c) == LET s == SlotOf(c, Op(c)[3])
               lost == {Val(c, Op(c)[2]), slot[s]} \ {NULL} IN
    /\ Is(c, "drop")
    /\ Put(lost) /\ Continue(c, Rest(c), lost)
    /\ slot' = [slot EXCEPT ![s] = NULL]
    /\ UNCHANGED <<owner, kernel, kept>>
Xchg(c) == LET s == SlotOf(c, Op(c)[3]) IN
    /\ Is(c, "xchg")
    /\ slot' = [slot EXCEPT ![s] = IF Op(c)[4] = "" THEN NULL ELSE Val(c, Op(c)[4])]
    /\ Continue(c, With(Rest(c), Op(c)[2], slot[s]), {})
    /\ UNCHANGED <<refs, owner, kernel, kept>>
Delete(c) == LET s == SlotOf(c, Op(c)[2])
                 lost == {slot[s]} \ {NULL} IN
    /\ Is(c, "delete")
    /\ Put(lost) /\ Continue(c, Rest(c), lost)
    /\ slot' = [slot EXCEPT ![s] = NULL]
    /\ UNCHANGED <<owner, kernel, kept>>

\* A node is in one collection for each of its fields.
In(k) == {x[2] : x \in {y \in kept : y[1] = k}}
Insert(c) == LET v == Val(c, Op(c)[2])
                 k == Op(c)[3]
                 linked == \E x \in kept : x[1][2] = k[2] /\ x[2] = v
                 placed == ~linked /\ (Op(c)[4] # "" => Val(c, Op(c)[4]) \in In(k)) IN
    /\ Is(c, "insert")
    /\ kept' = IF placed THEN kept \cup {<<k, v>>} ELSE kept
    /\ LET lost == IF placed THEN {} ELSE {v} IN
          Put(lost) /\ Continue(c, [Rest(c) EXCEPT !.todo = (IF placed THEN Op(c)[5] ELSE Op(c)[6]) \o @], lost)
    /\ UNCHANGED <<slot, owner, kernel>>
\* Which node comes first, or is a child, depends on data.
Peek(c) == LET k == Op(c)[3]
               others == IF Is(c, "peek") THEN {} ELSE {Val(c, Op(c)[4])} IN
    /\ Is(c, "peek") \/ Is(c, "child")
    /\ \E x \in (IF others \subseteq In(k) THEN In(k) \ others ELSE {}) \cup {NULL} :
          /\ Is(c, "peek") /\ x = NULL => In(k) = {}
          /\ Continue(c, With(Rest(c), Op(c)[2], x), {})
    /\ NoWorld
\* The reference of the collection becomes the program's.
Remove(c) == LET k == Op(c)[3]
                 found == IF Is(c, "pop") THEN In(k) ELSE In(k) \cap {Val(c, Op(c)[4])} IN
    /\ Is(c, "pop") \/ Is(c, "remove")
    /\ \E x \in IF found = {} THEN {NULL} ELSE found :
          /\ kept' = kept \ {<<k, x>>}
          /\ Continue(c, With(Rest(c), Op(c)[2], x), {})
    /\ UNCHANGED <<refs, slot, owner, kernel>>

Lose(o) ==
    /\ Put({o})
    /\ pins' = IF refs[o] = 1 THEN [pins EXCEPT ![o] = {d \in Cpus : Reading(cpu[d])}] ELSE pins
    /\ UNCHANGED <<cpu, owner, kept>>
\* User space deletes a map element or writes over it.
UserDelete == \E s \in Shared :
    /\ slot[s] # NULL
    /\ \E c \in Cpus : cpu[c].state \in {"run", "done"}
    /\ Lose(slot[s]) /\ slot' = [slot EXCEPT ![s] = NULL] /\ UNCHANGED kernel
\* The kernel lets go of an object that is no running program's argument.
KernelPut == \E c \in Cpus :
    /\ cpu[c].state = "done" /\ Arg(c) \in kernel
    /\ Lose(Arg(c)) /\ kernel' = kernel \ {Arg(c)} /\ UNCHANGED slot
\* Every program has ended, the maps are empty and the kernel holds nothing:
\* the trees and lists are freed with their nodes.
Unload ==
    /\ kernel = {} /\ (\A c \in Cpus : cpu[c].state = "done") /\ \A s \in Shared : slot[s] = NULL
    /\ cpu' = [c \in Cpus |-> [cpu[c] EXCEPT !.state = "unloaded"]]
    /\ refs' = [o \in Objects |-> refs[o] - Cardinality({x \in kept : x[2] = o})]
    /\ kept' = {}
    /\ UNCHANGED <<pins, slot, owner, kernel>>
Over == (\E c \in Cpus : cpu[c].state \in {"refused", "unloaded"}) /\ UNCHANGED vars

Step(c) == \/ IrqFlag(c) \/ Preemption(c) \/ Rcu(c) \/ Walk(c) \/ Run(c) \/ Lock(c) \/ LetGo(c) \/ Lookup(c) \/ LoadKptr(c)
           \/ Take(c) \/ Given(c) \/ Release(c) \/ Drop(c) \/ Xchg(c) \/ Delete(c) \/ Insert(c) \/ Peek(c) \/ Remove(c)
Next == \/ \E c \in Cpus : Load(c) \/ Start(c) \/ Step(c)
        \/ UserDelete \/ KernelPut \/ Unload \/ Over
Spec == Init /\ [][Next]_vars

-----------------------------------------------------------------------------

Live(o) == o \in Objects /\ ~Gone(o)
\* No program whose tag lets it load sleeps where it may not, touches an
\* object that may have been freed, lets go of a reference or a lock that is
\* not held, or touches a tree or a list without its lock, whatever the other CPU, user space and the kernel do in
\* between.
SafeSteps == \A c \in Cpus :
    /\ Is(c, "sleep") => ~Reading(cpu[c])
    /\ Is(c, "acquire") \/ Is(c, "ref") => Live(Val(c, Op(c)[3]))
    /\ Among(c, {"use", "deref", "release", "drop", "insert"}) => Live(Val(c, Op(c)[2]))
    /\ Is(c, "walk_new") => Op(c)[3] = "" \/ Live(Val(c, Op(c)[3]))
    /\ Is(c, "walk_next") => Val(c, Op(c)[3]) = NULL \/ Live(Val(c, Op(c)[3]))
    /\ Among(c, {"release", "drop", "insert"}) => refs[Val(c, Op(c)[2])] > 0
    /\ Among(c, {"dyn_use", "dyn_write", "dyn_release"}) =>
          Val(c, Op(c)[2]) = NULL \/ (Live(Val(c, Op(c)[2])) /\ refs[Val(c, Op(c)[2])] > 0)
    /\ Among(c, OnCollection) =>
          owner[Op(c)[3][3]] = c /\ (Op(c)[4] # "" => Live(Val(c, Op(c)[4])))
    /\ Is(c, "spin_unlock") \/ Is(c, "res_unlock") => owner[LockOf(Op(c)[2])] = c

\* When every program has ended, each object has exactly the references of
\* the maps, of the trees and lists and of the kernel (none, once these are
\* gone too), no lock is held and no CPU is left with
\* interrupts or preemption off or in a read section.
NothingLeft == (\A c \in Cpus : cpu[c].state \in {"done", "unloaded"}) =>
    /\ \A o \in Objects : refs[o] = Cardinality({s \in Slots : slot[s] = o}) + (IF o \in kernel THEN 1 ELSE 0)
                                    + Cardinality({x \in kept : x[2] = o})
    /\ \A l \in Locks : owner[l] = Nobody
    /\ \A c \in Cpus : ~Atomic(cpu[c])

\* A program whose tag expects it to be refused breaks a rule on some path,
\* the one its tag quotes; a program that loads breaks none on any path.
DeclaredVerdict == \A c \in Cpus :
    /\ cpu[c].state = "refused" => cpu[c].errors # {} /\ cpu[c].msg \in cpu[c].errors \cup {"any"}
    /\ cpu[c].state = "unloaded" => cpu[c].errors = {}
=============================================================================
