----------------------------- MODULE ProgsWalks -----------------------------
(***************************************************************************)
(* Walks over tasks and cgroups: progs/iters_task.rs, progs/iters_css.rs,  *)
(* progs/iters_css_task.rs and progs/iters_task_failure.rs; and arguments  *)
(* a program must give back: progs/struct_ops_refcounted.rs, its           *)
(* __ref_leak, and the four progs/bpf_qdisc_fail__invalid_dynptr*.rs.      *)
(* Left out: the program types a css_task iterator may be used in, and the *)
(* empty operations of the qdiscs.                                         *)
(***************************************************************************)
EXTENDS BpfVerifier

getpgid(name, body, msg) == prog(name, "sleepable", body, msg)
struct_ops(name, body, msg) == prog(name, "atomic", body, msg)

\* A loop over what the walk from p finds.  It runs at most once, goes on to
\* the next and leaves with none.
for_each(p, body) ==
    <<walk_new("it", p), walk_next("pos", "it"),
      if_some("pos", body \o <<walk_next("pos", "it"), null("pos")>>), iter_destroy("it")>>
reads == <<deref("pos")>>
from_id(v, else) == <<find(v), if_null(v, else)>>
cur_task == <<arg("cur_task"), deref("cur_task"), maybe(<<return>>)>>

iter_task_for_each_sleep ==
    getpgid("iter_task_for_each_sleep",
            cur_task \o <<rcu_lock>> \o for_each("", <<>>) \o for_each("", <<>>) \o for_each("", reads)
            \o for_each("cur_task", <<>>) \o for_each("", reads) \o <<rcu_unlock>>, "")
TaskWalks == {iter_task_for_each_sleep}

iter_css_for_each ==
    getpgid("iter_css_for_each",
            cur_task \o from_id("root", <<>>) \o from_id("leaf", <<release("root")>>) \o <<rcu_lock>>
            \o for_each("root", reads) \o for_each("root", reads) \o for_each("root", <<>>)
            \o for_each("leaf", <<>>) \o for_each("root", <<>>)
            \o <<rcu_unlock, release("root"), release("leaf")>>, "")
CssWalks == {iter_css_for_each}

\* This iterator needs no read section: it holds the task it is at.
css_tasks == <<use("cgrp"), iter_new("it"), iter_next("it"), maybe(<<iter_next("it")>>), iter_destroy("it")>>
iter_css_task_for_each ==
    prog("iter_css_task_for_each", "atomic",
         cur_task \o from_id("cgrp", <<>>) \o css_tasks \o <<release("cgrp")>>, "")
\* The iterator over cgroups has an epilogue, without a cgroup.
cgroup_id_printer ==
    prog("cgroup_id_printer", "atomic", <<maybe(<<return>>), arg("cgrp"), deref("cgrp")>> \o css_tasks, "")
iter_css_task_for_each_sleep ==
    getpgid("iter_css_task_for_each_sleep", from_id("cgrp", <<>>) \o css_tasks \o <<release("cgrp")>>, "")
CssTaskWalks == {iter_css_task_for_each, cgroup_id_printer, iter_css_task_for_each_sleep}

-----------------------------------------------------------------------------
(* iters_task_failure.rs *)

gap == <<rcu_unlock, rcu_lock>>
iter_tasks_without_lock == getpgid("iter_tasks_without_lock", for_each("", <<>>), NeedsSection)
iter_css_without_lock ==
    getpgid("iter_css_without_lock", from_id("cgrp", <<>>) \o for_each("cgrp", <<>>) \o <<release("cgrp")>>, NeedsSection)
iter_tasks_lock_and_unlock ==
    getpgid("iter_tasks_lock_and_unlock", <<rcu_lock>> \o for_each("", gap) \o <<rcu_unlock>>, LeftSection)
\* One path keeps the outer section, the other leaves it.
iter_tasks_rcu_state_pruning ==
    getpgid("iter_tasks_rcu_state_pruning",
            <<rcu_lock, walk_new("it", ""), either(<<rcu_lock, rcu_unlock>>, gap),
              walk_next("pos", "it"), iter_destroy("it"), rcu_unlock>>, LeftSection)
iter_css_lock_and_unlock ==
    getpgid("iter_css_lock_and_unlock",
            from_id("cgrp", <<>>) \o <<rcu_lock>> \o for_each("cgrp", gap) \o <<rcu_unlock, release("cgrp")>>, LeftSection)
WalksFail == {iter_tasks_without_lock, iter_css_without_lock, iter_tasks_lock_and_unlock,
              iter_tasks_rcu_state_pruning, iter_css_lock_and_unlock}

-----------------------------------------------------------------------------
(* Arguments to give back: a task, a packet and what points into it *)

refcounted == struct_ops("refcounted", <<given("task"), either(<<release("task")>>, <<release("task")>>)>>, "")
refcounted_fail__ref_leak == struct_ops("refcounted_fail__ref_leak", <<given("task")>>, Unreleased)

hdr_of(ptr) == <<dyn_of(ptr, "skb"), dyn_data("hdr", ptr)>>
proto == <<deref("hdr")>>
invalid_dynptr ==
    struct_ops("invalid_dynptr",
               <<given("skb"), dyn_of("ptr", "skb"), release("skb"), dyn_data("hdr", "ptr"), if_null("hdr", <<>>)>> \o proto,
               NoDynptr)
invalid_dynptr_slice ==
    struct_ops("invalid_dynptr_slice",
               <<given("skb")>> \o hdr_of("ptr") \o <<if_null("hdr", <<release("skb")>>), release("skb")>> \o proto,
               ScalarAccess)
free_skb == <<release("skb")>>
invalid_dynptr_cross_frame ==
    struct_ops("invalid_dynptr_cross_frame",
               <<given("skb")>> \o hdr_of("ptr") \o <<if_null("hdr", <<>>)>> \o free_skb \o proto, ScalarAccess)
\* The dynptr is gone with the frame it is in.
slice_in_subprog == hdr_of("local") \o <<overwrite("local")>>
invalid_dynptr_returned_slice ==
    struct_ops("invalid_dynptr_returned_slice",
               <<given("skb")>> \o slice_in_subprog \o <<if_null("hdr", <<release("skb")>>)>> \o proto \o <<release("skb")>>,
               ScalarAccess)
Arguments == {refcounted, refcounted_fail__ref_leak, invalid_dynptr, invalid_dynptr_slice,
              invalid_dynptr_cross_frame, invalid_dynptr_returned_slice}
=============================================================================
