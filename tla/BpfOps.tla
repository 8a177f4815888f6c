------------------------------- MODULE BpfOps -------------------------------
(***************************************************************************)
(* The operations of the translated selftests that take and give back      *)
(* kernel resources: locks, sections with interrupts or preemption off,    *)
(* RCU read sections, references to kernel objects, nodes of trees and     *)
(* lists.  A program is a sequence of operations; a branch holds the       *)
(* operations of its sides.                                                *)
(***************************************************************************)
EXTENDS Naturals, Sequences, FiniteSets, TLC

irq_save(f) == <<"irq_save", f>>                \* bpf_local_irq_save
irq_restore(f) == <<"irq_restore", f>>
overwrite(f) == <<"overwrite", f>>              \* a plain store to the flag, iterator or dynptr
read(f) == <<"read", f>>
preempt_disable == <<"preempt_disable">>
preempt_enable == <<"preempt_enable">>
rcu_lock == <<"rcu_lock">>                      \* bpf_rcu_read_lock
rcu_unlock == <<"rcu_unlock">>
spin_lock(l) == <<"spin_lock", l>>
spin_unlock(l) == <<"spin_unlock", l>>
\* A resilient lock may be refused; f is its irq flag, or "" without one.
res_lock(l, f, got, refused) == <<"res_lock", l, f, got, refused>>
res_unlock(l, f) == <<"res_unlock", l, f>>

helper == <<"helper">>                          \* neither sleeps nor owns anything
sleep_helper == <<"sleep", "helper">>           \* bpf_copy_from_user
sleep_kfunc == <<"sleep", "kfunc">>             \* bpf_copy_from_user_str
global(body) == <<"global", body>>              \* a function verified by itself

if(v, then, else) == <<"if", v, then, else>>    \* v is not NULL, v is NULL
either(a, b) == <<"either", a, b>>              \* depends on data
return == <<"return">>
ld_abs == <<"ld_abs">>                          \* a load from the packet: ends the program when it fails
tail_call == <<"tail_call">>                    \* does not come back when it succeeds
throw == <<"throw">>                            \* bpf_throw: ends the program

arg(v) == <<"set", v, "trusted">>               \* an argument, the current task
given(v) == <<"given", v>>                      \* an argument that is the program's to give back (__ref)
untrusted(v) == <<"set", v, "untrusted">>
stack(v) == <<"set", v, "stack">>
context(v) == <<"set", v, "ctx">>
null(v) == <<"set", v, "null">>
in_map(v) == <<"set", v, "map">>
lookup(v) == <<"lookup", v>>                    \* bpf_map_lookup_elem
load(v, slot) == <<"load", v, slot>>            \* reads a kptr without taking it
acquire(v, p) == <<"acquire", v, p>>            \* one more reference, or NULL
new(v) == <<"new", v>>                          \* bpf_obj_new
find(v) == <<"find", v>>                        \* bpf_task_from_pid
iter_new(v) == <<"iter_new", v>>                \* bpf_iter_num_new
iter_next(v) == <<"iter_next", v>>
\* Walks over tasks or cgroups, in a read section: bpf_iter_task_*, bpf_iter_css_*;
\* from p, or from the first.
walk_new(v, p) == <<"walk_new", v, p>>
walk_next(v, it) == <<"walk_next", v, it>>
iter_destroy(v) == <<"iter_destroy", v>>
release(v) == <<"release", v>>
drop(v, slot) == <<"drop", v, slot>>            \* bpf_obj_drop, with a kptr inside
xchg(v, slot, p) == <<"xchg", v, slot, p>>      \* bpf_kptr_xchg; p is "" for NULL
delete(slot) == <<"delete", slot>>              \* bpf_map_delete_elem
use(v) == <<"use", v>>                          \* an argument that must be trusted
deref(v) == <<"deref", v>>                      \* reads a field
ref(v, p) == <<"ref", v, p>>                    \* bpf_refcount_acquire
cast(v, p) == <<"cast", v, p>>                  \* bpf_tcp_sock, bpf_sk_fullsock: p by another type, or NULL

\* A tree or a list of nodes linked by one of their fields, under a lock.
collection(name, field, lock) == <<name, field, lock>>
\* bpf_rbtree_add, bpf_list_push_*, bpf_list_add: the collection takes over the
\* reference to v; it is dropped if v is in a collection, or prev not in this one.
insert(v, k, prev, done, failed) == <<"insert", v, k, prev, done, failed>>
push(v, k) == insert(v, k, "", <<>>, <<>>)
peek(v, k) == <<"peek", v, k, "">>              \* bpf_rbtree_first, bpf_rbtree_root, bpf_list_front
child(v, k, p) == <<"child", v, k, p>>          \* bpf_rbtree_left, bpf_rbtree_right
edge(k, p) == <<"edge", "", k, p>>              \* bpf_list_is_first, bpf_list_is_last
pop(v, k) == <<"pop", v, k, "">>                \* bpf_list_pop_*
remove(v, k, p) == <<"remove", v, k, p>>        \* bpf_rbtree_remove, bpf_list_del
callback(body) == <<"callback", body>>          \* what an insertion calls to compare

\* Dynptrs: a handle d of memory, on the stack of the program.
dyn_reserve(d) == <<"dyn_reserve", d>>          \* bpf_ringbuf_reserve_dynptr
dyn_from(d, kind) == <<"dyn_from", d, kind>>    \* of a map value ("dynptr"), of a packet ("packet")
dyn_of(d, p) == <<"dyn_of", d, p>>              \* bpf_dynptr_from_skb of a packet the program owns
dyn_clone(d, p) == <<"dyn_clone", d, p>>        \* d becomes a clone of p
dyn_data(v, d) == <<"dyn_data", v, d>>          \* bpf_dynptr_data, bpf_dynptr_slice: v points into d, or is NULL
dyn_use(d) == <<"dyn_use", d>>                  \* bpf_dynptr_read, bpf_dynptr_size, bpf_dynptr_adjust
dyn_write(d) == <<"dyn_write", d>>              \* bpf_dynptr_write, bpf_dynptr_memset
dyn_release(d) == <<"dyn_release", d>>          \* bpf_ringbuf_submit_dynptr, bpf_ringbuf_discard_dynptr
move_packet == <<"move_packet">>                \* bpf_skb_pull_data, bpf_xdp_adjust_head

if_null(v, ops) == if(v, <<>>, ops \o <<return>>)
if_some(v, ops) == if(v, ops, <<>>)
maybe(ops) == either(ops, <<>>)

\* A program of a file: its type ("sleepable", "atomic" or "kprobe"), what it
\* does, and the words of the message it must be refused with ("" if it loads).
prog(name, type, body, msg) == [name |-> name, type |-> type, body |-> body, msg |-> msg]
=============================================================================
