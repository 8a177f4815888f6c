---------------------------- MODULE ProgsKfuncs ----------------------------
(***************************************************************************)
(* progs/task_kfunc_{success,failure}.rs and                               *)
(* progs/cgrp_kfunc_{success,failure}.rs: references to tasks and cgroups, *)
(* taken from arguments and map values and stored in map values.  A kfunc  *)
(* that does not resolve, err and the counters are left out; so are the    *)
(* programs refused for how they read comm or for the type they drop.      *)
(***************************************************************************)
EXTENDS BpfVerifier

\* Every caller of these returns at once when they fail.
tasks_kfunc_map_value_lookup == <<lookup("v"), if_null("v", <<>>)>>
tasks_kfunc_map_insert(p) ==
    <<maybe(<<return>>), lookup("v"), if_null("v", <<delete("task")>>),
      acquire("got", p), if_null("got", <<>>),
      xchg("old", "task", "got"), if_some("old", <<release("old"), return>>)>>
insert_lookup_task(p) == tasks_kfunc_map_insert(p) \o tasks_kfunc_map_value_lookup

task_acquires == {
    prog("task_kfunc_acquire_untrusted", "atomic",
         <<arg("task")>> \o insert_lookup_task("task")
         \o <<load("t", "task"), acquire("a", "t"), if_null("a", <<>>), release("a")>>, PossiblyNull),
    prog("task_kfunc_acquire_fp", "atomic",
         <<stack("fp"), acquire("a", "fp"), if_null("a", <<>>), release("a")>>, TypeFp),
    prog("task_kfunc_acquire_unsafe_kretprobe", "kprobe",
         <<untrusted("task"), acquire("a", "task"), if_null("a", <<>>), release("a")>>, NotAllowed),
    prog("task_kfunc_acquire_unsafe_kretprobe_rcu", "kprobe",
         <<untrusted("task"), rcu_lock, if_null("task", <<rcu_unlock>>), acquire("a", "task"),
           if_some("a", <<release("a")>>), rcu_unlock>>, NotAllowed),
    prog("task_kfunc_acquire_null", "atomic",
         <<null("n"), acquire("a", "n"), if_null("a", <<>>), release("a")>>, PossiblyNull),
    prog("task_kfunc_acquire_unreleased", "atomic", <<arg("task"), acquire("a", "task")>>, Unreleased),
    prog("task_kfunc_xchg_unreleased", "atomic",
         <<arg("task")>> \o insert_lookup_task("task") \o <<xchg("k", "task", ""), if_null("k", <<>>)>>,
         Unreleased)}
\* Mutant: the translation adds the null check the program is about.
no_null_checkC == prog("task_kfunc_acquire_release_no_null_check", "atomic",
    <<arg("task"), acquire("a", "task"), if_null("a", <<>>), release("a")>>, PossiblyNull)
task_kfunc_acquire_release_no_null_check == prog("task_kfunc_acquire_release_no_null_check", "atomic",
    <<arg("task"), acquire("a", "task"), release("a")>>, PossiblyNull)
task_releases == {
    task_kfunc_acquire_release_no_null_check,
    prog("task_kfunc_release_untrusted", "atomic",
         <<arg("task")>> \o insert_lookup_task("task") \o <<load("t", "task"), release("t")>>, PossiblyNull),
    prog("task_kfunc_release_fp", "atomic", <<stack("fp"), release("fp")>>, TypeFp),
    prog("task_kfunc_release_null", "atomic",
         <<arg("task"), maybe(<<return>>)>> \o tasks_kfunc_map_value_lookup
         \o <<acquire("a", "task"), if_null("a", <<>>), xchg("old", "task", "a"), release("old")>>, PossiblyNull),
    prog("task_kfunc_release_unacquired", "atomic", <<arg("task"), release("task")>>, NotReferenced)}
task_lookups == {
    prog("task_kfunc_from_pid_no_null_check", "atomic", <<arg("task"), find("a"), release("a")>>, PossiblyNull),
    prog("task_kfunc_from_vpid_no_null_check", "atomic", <<arg("task"), find("a"), release("a")>>, PossiblyNull),
    prog("task_kfunc_from_lsm_task_free", "atomic",
         <<untrusted("task"), acquire("a", "task"), if_null("a", <<>>), release("a")>>, NotRcu)}

lock_value == <<lookup("v"), if_null("v", <<>>)>>
\* Mutant: the reference is not given back.
acquire_releaseC(p) == <<acquire("a", p)>>
acquire_release(p) == <<acquire("a", p), if_some("a", <<release("a")>>)>>
under_lock == <<spin_lock("v"), load("t", "locked"), spin_unlock("v")>>
task_after_section == {
    prog("task_kfunc_release_in_map", "atomic",
         <<arg("task")>> \o insert_lookup_task("task")
         \o <<rcu_lock, load("t", "task"), if_null("t", <<rcu_unlock>>), release("t"), rcu_unlock>>, NotReferenced),
    prog("task_kfunc_acquire_after_final_spin_unlock", "sleepable",
         lock_value \o under_lock \o <<if_null("t", <<>>)>> \o acquire_release("t"), NotRcu),
    prog("task_kfunc_acquire_after_preempt_enable", "sleepable",
         lock_value \o <<preempt_disable, load("t", "locked"), preempt_enable, if_null("t", <<>>)>>
         \o acquire_release("t"), NotRcu),
    prog("task_kfunc_acquire_after_irq_restore", "sleepable",
         lock_value \o <<irq_save("f"), load("t", "locked"), irq_restore("f"), if_null("t", <<>>)>>
         \o acquire_release("t"), NotRcu)}

\* Only the thread of the test goes on.
is_test_kfunc_task == maybe(<<return>>)
test_acquire_release(p) == acquire_release(p)
task_arguments == {
    prog("test_task_kfunc_flavor_relo", "atomic", <<arg("task")>> \o acquire_release("task"), ""),
    prog("test_task_acquire_release_argument", "atomic",
         <<arg("task"), is_test_kfunc_task>> \o test_acquire_release("task"), ""),
    prog("test_task_acquire_release_current", "atomic",
         <<is_test_kfunc_task, arg("current")>> \o test_acquire_release("current"), ""),
    prog("test_task_acquire_leave_in_map", "atomic",
         <<arg("task"), is_test_kfunc_task>> \o tasks_kfunc_map_insert("task"), "")}
dropped == <<drop("local", "local")>>
test_task_xchg_release == prog("test_task_xchg_release", "sleepable",
    <<arg("task")>> \o insert_lookup_task("task")
    \o <<xchg("k", "task", ""), if_null("k", <<>>),
         new("local"), if_null("local", <<release("k")>>),
         xchg("k2", "local", "k"), if_some("k2", dropped \o <<release("k2"), return>>),
         xchg("k3", "local", ""), if_null("k3", dropped),
         acquire("a", "k3"), if_null("a", dropped \o <<release("k3")>>), use("a"),
         xchg("a2", "local", "a"), if_some("a2", dropped \o <<release("k3"), release("a2"), return>>)>>
    \o dropped \o <<use("k3"), maybe(<<release("k3"), return>>), release("k3")>>, "")

\* Looks a task up, compares it with the one it expects, and lets go of it.
lookup_compare_pid == <<find("a"), if_null("a", <<>>), use("a"), release("a")>>
\* A lookup that should find nothing: what it finds is still released.
is_pid_lookup_valid(v) == if_some(v, <<release(v), return>>)
task_maps == {
    prog("test_task_map_acquire_release", "atomic",
         <<arg("task"), is_test_kfunc_task>> \o insert_lookup_task("task")
         \o <<rcu_lock, load("k", "task"), if("k", acquire_release("k"), <<>>), rcu_unlock>>, ""),
    prog("test_task_current_acquire_release", "atomic",
         <<is_test_kfunc_task, arg("current")>> \o acquire_release("current"), ""),
    prog("test_task_from_pid_arg", "atomic", <<arg("task"), is_test_kfunc_task>> \o lookup_compare_pid, ""),
    prog("test_task_from_pid_current", "atomic", <<is_test_kfunc_task, arg("current")>> \o lookup_compare_pid, ""),
    prog("test_task_from_pid_invalid", "atomic",
         <<arg("task"), is_test_kfunc_task, find("a"), is_pid_lookup_valid("a"),
           find("b"), is_pid_lookup_valid("b")>>, ""),
    prog("task_kfunc_acquire_trusted_walked", "atomic", <<arg("leader")>> \o acquire_release("leader"), "")}
\* Mutant: preemption is left on.
spin_preempt_disabledC == prog("task_kfunc_acquire_after_spin_unlock_preempt_disabled", "sleepable",
    lock_value \o under_lock \o <<if_some("t", acquire_release("t"))>>, "")
spin_preempt_disabled == prog("task_kfunc_acquire_after_spin_unlock_preempt_disabled", "sleepable",
    lock_value \o <<preempt_disable>> \o under_lock
    \o <<if_some("t", acquire_release("t")), preempt_enable>>, "")
task_spin_sections == {
    spin_preempt_disabled,
    prog("task_kfunc_acquire_after_spin_unlock_non_sleepable", "atomic",
         lock_value \o under_lock \o <<if_null("t", <<>>)>> \o acquire_release("t"), ""),
    prog("task_kfunc_acquire_after_spin_unlock_explicit_rcu", "sleepable",
         lock_value \o <<rcu_lock>> \o under_lock \o <<if_some("t", acquire_release("t")), rcu_unlock>>, ""),
    prog("task_kfunc_acquire_after_spin_unlock_irq_disabled", "sleepable",
         lock_value \o <<irq_save("f")>> \o under_lock
         \o <<if_some("t", acquire_release("t")), irq_restore("f")>>, "")}
task_rcu_sections == {
    prog("task_kfunc_acquire_after_rcu_unlock_preempt_disabled", "sleepable",
         lock_value \o <<preempt_disable, rcu_lock, load("t", "locked"), rcu_unlock,
                         if_some("t", acquire_release("t")), preempt_enable>>, ""),
    prog("task_kfunc_acquire_after_rcu_unlock_irq_disabled", "sleepable",
         lock_value \o <<irq_save("f"), rcu_lock, load("t", "locked"), rcu_unlock,
                         if_some("t", acquire_release("t")), irq_restore("f")>>, ""),
    prog("task_kfunc_acquire_after_preempt_enable_explicit_rcu", "sleepable",
         lock_value \o <<preempt_disable, load("t", "locked"), rcu_lock, preempt_enable,
                         if_some("t", acquire_release("t")), rcu_unlock>>, ""),
    prog("task_kfunc_acquire_after_irq_restore_explicit_rcu", "sleepable",
         lock_value \o <<irq_save("f"), load("t", "locked"), rcu_lock, irq_restore("f"),
                         if_some("t", acquire_release("t")), rcu_unlock>>, "")}
task_vpids == {
    prog("test_task_from_vpid_current", "sleepable",
         <<find("a"), if_null("a", <<>>), arg("current"), release("a")>>, ""),
    prog("test_task_from_vpid_invalid", "sleepable",
         <<find("a"), is_pid_lookup_valid("a"), find("b"), is_pid_lookup_valid("b"),
           find("c"), is_pid_lookup_valid("c")>>, "")}

-----------------------------------------------------------------------------
(* cgroups *)

cgrps_kfunc_map_value_lookup == <<lookup("v"), if_null("v", <<>>)>>
cgrps_kfunc_map_insert(p) ==
    <<maybe(<<return>>), lookup("v"), if_null("v", <<delete("cgrp")>>),
      acquire("got", p), if_null("got", <<delete("cgrp")>>),
      xchg("old", "cgrp", "got"), if_some("old", <<release("old"), return>>)>>
insert_lookup_cgrp(p) == cgrps_kfunc_map_insert(p) \o cgrps_kfunc_map_value_lookup

cgrp_acquires == {
    prog("cgrp_kfunc_acquire_untrusted", "atomic",
         <<arg("cgrp")>> \o insert_lookup_cgrp("cgrp") \o <<load("c", "cgrp")>> \o acquire_release("c"),
         PossiblyNull),
    prog("cgrp_kfunc_acquire_no_null_check", "atomic",
         <<arg("cgrp"), acquire("a", "cgrp"), release("a")>>, PossiblyNull),
    prog("cgrp_kfunc_acquire_fp", "atomic", <<stack("fp")>> \o acquire_release("fp"), TypeFp),
    prog("cgrp_kfunc_acquire_unsafe_kretprobe", "kprobe", <<untrusted("cgrp")>> \o acquire_release("cgrp"),
         NotAllowed),
    \* Its tag quotes only the program's name.
    prog("cgrp_kfunc_acquire_trusted_walked", "atomic", <<untrusted("dom")>> \o acquire_release("dom"), "any"),
    prog("cgrp_kfunc_acquire_null", "atomic", <<null("n")>> \o acquire_release("n"), PossiblyNull),
    prog("cgrp_kfunc_acquire_unreleased", "atomic", <<arg("cgrp"), acquire("a", "cgrp")>>, Unreleased)}
cgrp_releases == {
    prog("cgrp_kfunc_xchg_unreleased", "atomic",
         <<arg("cgrp")>> \o insert_lookup_cgrp("cgrp") \o <<xchg("k", "cgrp", ""), if_null("k", <<>>)>>,
         Unreleased),
    prog("cgrp_kfunc_rcu_get_release", "atomic",
         <<arg("cgrp")>> \o insert_lookup_cgrp("cgrp")
         \o <<rcu_lock, load("k", "cgrp"), if_some("k", <<release("k")>>), rcu_unlock>>, NotReferenced),
    prog("cgrp_kfunc_release_untrusted", "atomic",
         <<arg("cgrp")>> \o insert_lookup_cgrp("cgrp") \o <<load("c", "cgrp"), release("c")>>, PossiblyNull),
    prog("cgrp_kfunc_release_fp", "atomic", <<stack("fp"), release("fp")>>, TypeFp),
    prog("cgrp_kfunc_release_null", "atomic",
         <<arg("cgrp"), maybe(<<return>>)>> \o cgrps_kfunc_map_value_lookup
         \o <<acquire("a", "cgrp"), if_null("a", <<>>), xchg("old", "cgrp", "a"), release("old")>>, PossiblyNull),
    prog("cgrp_kfunc_release_unacquired", "atomic", <<arg("cgrp"), release("cgrp")>>, NotReferenced)}

\* bpf_cgroup_ancestor: its argument must be trusted, its result is a reference.
ancestor(v, p) == <<use(p), find(v)>>
test_cgrp_kptrs == {
    prog("test_cgrp_acquire_release_argument", "atomic",
         <<is_test_kfunc_task, arg("cgrp")>> \o acquire_release("cgrp"), ""),
    prog("test_cgrp_acquire_leave_in_map", "atomic",
         <<is_test_kfunc_task, arg("cgrp")>> \o cgrps_kfunc_map_insert("cgrp"), ""),
    prog("test_cgrp_xchg_release", "atomic",
         <<is_test_kfunc_task, arg("cgrp")>> \o insert_lookup_cgrp("cgrp")
         \o <<load("k", "cgrp"), if_null("k", <<>>)>> \o ancestor("cg", "k")
         \o <<if_some("cg", <<release("cg")>>), xchg("k2", "cgrp", ""), if_null("k2", <<>>), release("k2")>>, ""),
    prog("test_cgrp_get_release", "atomic",
         <<is_test_kfunc_task, arg("cgrp")>> \o insert_lookup_cgrp("cgrp")
         \o <<rcu_lock, load("k", "cgrp"), rcu_unlock>>, "")}
test_cgrp_lookups == {
    prog("test_cgrp_get_ancestors", "atomic",
         <<is_test_kfunc_task, arg("cgrp")>>
         \o ancestor("self", "cgrp")
         \o <<if_null("self", <<>>), use("self"), maybe(<<release("self"), return>>), release("self")>>
         \o ancestor("up", "cgrp") \o <<if_null("up", <<>>), release("up")>>
         \o ancestor("far", "cgrp") \o <<is_pid_lookup_valid("far")>>
         \o ancestor("neg", "cgrp") \o <<is_pid_lookup_valid("neg")>>, ""),
    prog("test_cgrp_from_id", "atomic",
         <<is_test_kfunc_task, arg("cgrp")>> \o ancestor("parent", "cgrp")
         \o <<if_null("parent", <<>>), use("parent"), release("parent"),
              find("res"), if_null("res", <<>>), release("res"), maybe(<<return>>),
              find("none"), is_pid_lookup_valid("none")>>, ""),
    prog("test_cgrp_from_id_ns", "sleepable", <<find("cg"), if_null("cg", <<>>), release("cg")>>, "")}

Tasks == task_arguments \cup {test_task_xchg_release} \cup task_maps
         \cup task_spin_sections \cup task_rcu_sections \cup task_vpids
TasksFail == task_acquires \cup task_releases \cup task_lookups \cup task_after_section
Cgroups == test_cgrp_kptrs \cup test_cgrp_lookups
CgroupsFail == cgrp_acquires \cup cgrp_releases
=============================================================================
