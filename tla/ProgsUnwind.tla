----------------------------- MODULE ProgsUnwind -----------------------------
(***************************************************************************)
(* progs/verifier_spin_lock.rs, progs/test_spin_lock.rs and                *)
(* progs/test_spin_lock_fail.rs (which lock is taken and given back),      *)
(* progs/iters_state_safety.rs (iterators on the stack) and                *)
(* progs/exceptions_fail.rs (bpf_throw with something held).  Left out:    *)
(* direct accesses to a lock, bpf_this_cpu_ptr of a lock, and the shapes   *)
(* of exception callbacks.                                                 *)
(***************************************************************************)
EXTENDS BpfVerifier

cls(name, body, msg) == prog(name, "atomic", body, msg)
element == <<lookup("v"), if_null("v", <<>>)>>
\* Two lookups of one element: two pointers, for the verifier two locks.
two_elems == element \o element

spin_lock_test1_success == cls("spin_lock_test1_success", element \o <<spin_lock("elem"), spin_unlock("elem")>>, "")
spin_lock_regions == {
    cls("call_within_a_locked_region", element \o <<spin_lock("elem"), helper, spin_unlock("elem")>>, Calls),
    cls("spin_lock_test6_missing_unlock", element \o <<spin_lock("elem"), maybe(<<spin_unlock("elem")>>)>>, InSpin),
    cls("lock_test7_unlock_without_lock", element \o <<maybe(<<spin_lock("elem")>>), spin_unlock("elem")>>, WithoutLock),
    cls("spin_lock_test8_double_lock",
        element \o <<spin_lock("elem"), spin_lock("elem"), spin_unlock("elem")>>, Calls)}
spin_lock_pairs == {
    cls("spin_lock_test9_different_lock", two_elems \o <<spin_lock("elem1"), spin_unlock("elem2")>>, Different),
    cls("lock_in_subprog_without_unlock", element \o <<spin_lock("elem"), spin_unlock("elem")>>, ""),
    cls("test11_ld_abs_under_lock", element \o <<spin_lock("elem"), ld_abs, spin_unlock("elem")>>, InSpin)}
reg_id_for_map_value ==
    cls("reg_id_for_map_value",
        two_elems \o <<spin_lock("elem1"), either(<<spin_unlock("elem2")>>, <<spin_unlock("elem1")>>)>>, Different)
check_ids_similar_id_mappings ==
    cls("check_ids_similar_id_mappings",
        two_elems \o <<either(<<spin_lock("elem2"), spin_unlock("elem2")>>,
                              <<spin_lock("elem1"), spin_unlock("elem1")>>)>>, "")
bpf_loop_inside_locked_region ==
    cls("bpf_loop_inside_locked_region",
        element \o <<spin_lock("elem"), iter_new("it"), iter_next("it"), iter_destroy("it"), spin_unlock("elem")>>, "")
SpinLocks == {spin_lock_test1_success, reg_id_for_map_value, check_ids_similar_id_mappings,
              bpf_loop_inside_locked_region} \cup spin_lock_regions \cup spin_lock_pairs

-----------------------------------------------------------------------------
(* test_spin_lock.rs: an element of a hash map, of an array, of the storage *)
(* of a cgroup *)

bpf_spin_lock_test ==
    cls("bpf_spin_lock_test",
        <<lookup("val"), if("val", <<>>, <<helper, lookup("val"), if_null("val", <<>>)>>),
          spin_lock("elem"), spin_unlock("elem"),
          lookup("q"), if_null("q", <<>>), spin_lock("v"), spin_unlock("v"),
          spin_lock("lock"), spin_unlock("lock")>>, "")
static_subprog_lock == <<spin_lock("A")>>
static_subprog_unlock == <<spin_unlock("A")>>
lock_static_subprog == {
    cls("lock_static_subprog_call", <<spin_lock("A"), maybe(<<maybe(<<>>)>>), spin_unlock("A")>>, ""),
    cls("lock_static_subprog_lock", static_subprog_lock \o <<spin_unlock("A")>>, ""),
    cls("lock_static_subprog_unlock", <<spin_lock("A")>> \o static_subprog_unlock, "")}
SpinTests == {bpf_spin_lock_test} \cup lock_static_subprog

-----------------------------------------------------------------------------
(* test_spin_lock_fail.rs *)

\* A callback on one element inside a callback on another.
lock_different_value == <<spin_lock("elem1"), spin_unlock("elem2")>>
callback_value_lock_identity == cls("callback_value_lock_identity", <<helper>> \o lock_different_value, Different)
callback_inner_map_value_lock_identity ==
    cls("callback_inner_map_value_lock_identity", element \o <<helper>> \o element \o lock_different_value, Different)
\* a and b: an object's own lock, the one of an element, a global one.
lock_id_mismatch(name, a, b) ==
    cls(name, <<lookup("map"), if_null("map", <<>>), lookup("iv"), if_null("iv", <<>>), lookup("v"), if_null("v", <<>>),
                new("f1"), if_null("f1", <<>>), new("f2"), if_null("f2", <<release("f1")>>),
                spin_lock(a), spin_unlock(b)>>, Different)
lock_id_mismatch_kptr_global == {
    lock_id_mismatch("lock_id_mismatch_kptr_kptr", "f1", "f2"),
    lock_id_mismatch("lock_id_mismatch_kptr_global", "f1", "A"),
    lock_id_mismatch("lock_id_mismatch_kptr_mapval", "f1", "v"),
    lock_id_mismatch("lock_id_mismatch_kptr_innermapval", "f1", "iv"),
    lock_id_mismatch("lock_id_mismatch_global_global", "A", "B"),
    lock_id_mismatch("lock_id_mismatch_global_kptr", "A", "f1"),
    lock_id_mismatch("lock_id_mismatch_global_mapval", "A", "v"),
    lock_id_mismatch("lock_id_mismatch_global_innermapval", "A", "iv")}
lock_id_mismatch_mapval_mapval ==
    cls("lock_id_mismatch_mapval_mapval", two_elems \o <<spin_lock("elem1"), spin_unlock("elem2")>>, Different)
lock_id_mismatch_mapval == {
    lock_id_mismatch("lock_id_mismatch_mapval_kptr", "v", "f1"),
    lock_id_mismatch("lock_id_mismatch_mapval_global", "v", "B"),
    lock_id_mismatch("lock_id_mismatch_mapval_innermapval", "v", "iv")}
lock_id_mismatch_innermapval_innermapval == {
    cls("lock_id_mismatch_innermapval_innermapval1",
        element \o two_elems \o <<spin_lock("elem1"), spin_unlock("elem2")>>, Different),
    cls("lock_id_mismatch_innermapval_innermapval2",
        two_elems \o two_elems \o <<spin_lock("elem1"), spin_unlock("elem2")>>, Different)}
lock_id_mismatch_innermapval == {
    lock_id_mismatch("lock_id_mismatch_innermapval_kptr", "iv", "f1"),
    lock_id_mismatch("lock_id_mismatch_innermapval_global", "iv", "A"),
    lock_id_mismatch("lock_id_mismatch_innermapval_mapval", "iv", "v")}
\* A function verified by itself is not called with a lock held.
locked_call(body) == <<spin_lock("A"), maybe(body), spin_unlock("A")>>
lock_global_subprog_call == {
    cls("lock_global_subprog_call1", locked_call(<<global(<<>>)>>), Calls),
    cls("lock_global_subprog_call2", locked_call(<<maybe(<<global(<<>>)>>)>>), Calls)}
global_subprog_int == <<maybe(<<helper>>)>>
global_sleepable_helper_subprog_ == <<maybe(<<sleep_helper>>)>>
global_sleepable_kfunc_subprog_ == <<maybe(<<sleep_helper>>), global(global_subprog_int)>>
global_subprog_calling_sleepable_global_ == <<maybe(<<global(global_sleepable_kfunc_subprog_)>>)>>
lock_global_sleepable == {
    prog("lock_global_sleepable_helper_subprog", "sleepable",
         locked_call(<<global(global_sleepable_helper_subprog_)>>), Calls),
    prog("lock_global_sleepable_kfunc_subprog", "sleepable",
         locked_call(<<global(global_sleepable_kfunc_subprog_)>>), Calls),
    prog("lock_global_sleepable_subprog_indirect", "sleepable",
         locked_call(<<global(global_subprog_calling_sleepable_global_)>>), Calls)}
SpinFails == UNION {{callback_value_lock_identity, callback_inner_map_value_lock_identity, lock_id_mismatch_mapval_mapval},
    lock_id_mismatch_kptr_global, lock_id_mismatch_mapval, lock_id_mismatch_innermapval_innermapval,
    lock_id_mismatch_innermapval, lock_global_subprog_call, lock_global_sleepable}

-----------------------------------------------------------------------------
(* iters_state_safety.rs *)

raw_tp(name, body, msg) == prog(name, "atomic", body, msg)
create_and_destroy == {
    raw_tp("force_clang_to_emit_btf_for_externs", <<iter_new("it"), iter_next("it"), iter_destroy("it")>>, ""),
    raw_tp("create_and_destroy", <<iter_new("it"), iter_destroy("it")>>, "")}
create_and_forget_to_destroy == {
    raw_tp("create_and_forget_to_destroy_fail", <<iter_new("it")>>, Unreleased),
    raw_tp("destroy_without_creating_fail", <<iter_destroy("it")>>, Initialized)}
compromise_iter == {
    raw_tp("compromise_iter_w_direct_write_fail", <<iter_new("it"), overwrite("it"), iter_destroy("it")>>, Initialized),
    raw_tp("compromise_iter_w_direct_write_and_skip_destroy_fail", <<iter_new("it"), overwrite("it")>>, Unreleased),
    raw_tp("compromise_iter_w_helper_write_fail",
           <<iter_new("it"), helper, overwrite("it"), iter_destroy("it")>>, Initialized)}
subprog_with_iter == <<iter_new("it")>>
leak_iter_from_subprog_fail == raw_tp("leak_iter_from_subprog_fail", subprog_with_iter, Unreleased)
iter_reuse == {
    raw_tp("valid_stack_reuse", <<iter_new("it"), iter_destroy("it"), iter_new("it"), iter_destroy("it")>>, ""),
    raw_tp("double_create_fail", <<iter_new("it"), iter_new("it"), iter_destroy("it")>>, Uninitialized),
    raw_tp("double_destroy_fail", <<iter_new("it"), iter_destroy("it"), iter_destroy("it")>>, Initialized)}
next_outside == {
    raw_tp("next_without_new_fail", <<iter_next("it"), iter_destroy("it")>>, Initialized),
    raw_tp("next_after_destroy_fail", <<iter_new("it"), iter_destroy("it"), iter_next("it")>>, Initialized)}
read_from_iter_slot_fail ==
    raw_tp("read_from_iter_slot_fail", <<iter_new("it"), read("it"), read("it"), iter_destroy("it")>>, BadRead)
stacksafe_should_not_conflate_stack_spill_and_iter ==
    raw_tp("stacksafe_should_not_conflate_stack_spill_and_iter",
           <<helper, helper, either(<<overwrite("it")>>, <<iter_new("it"), overwrite("it")>>), overwrite("it")>>,
           Unreleased)
Iters == UNION {create_and_destroy, create_and_forget_to_destroy, compromise_iter, iter_reuse, next_outside,
    {leak_iter_from_subprog_fail, read_from_iter_slot_fail, stacksafe_should_not_conflate_stack_spill_and_iter}}

-----------------------------------------------------------------------------
(* exceptions_fail.rs *)

reject_exception_cb_type_4 == cls("reject_exception_cb_type_4", <<throw>>, "")
reject_async_callback_throw ==
    cls("reject_async_callback_throw", <<lookup("elem"), if_null("elem", <<>>), callback(<<throw>>)>>, ThrowInCallback)
subprog_lock == <<spin_lock("lock"), maybe(<<throw>>)>>
throwing_subprog == <<maybe(<<throw>>)>>
reject_in_region == {
    cls("reject_with_lock", <<spin_lock("lock"), throw>>, Calls),
    cls("reject_subprog_with_lock", subprog_lock, Calls),
    cls("reject_with_rcu_read_lock", <<rcu_lock, throw>>, InRcuRegion),
    cls("reject_subprog_with_rcu_read_lock", <<rcu_lock>> \o throwing_subprog \o <<rcu_unlock>>, InRcuRegion)}
rbtree == collection("rbtree", "node", "lock")
reject_with_rbtree_add_throw ==
    cls("reject_with_rbtree_add_throw",
        <<new("f"), if_null("f", <<>>), spin_lock("lock"), callback(<<throw>>), push("f", rbtree), spin_unlock("lock")>>,
        Calls)
subprog_cb_ref == <<throw>>
global_subprog_may_throw == <<maybe(<<throw>>)>>
reject_with_references == {
    cls("reject_with_reference", <<new("f"), if_null("f", <<>>), throw>>, Unreleased),
    cls("reject_global_subprog_throw_with_reference",
        <<new("f"), if_null("f", <<>>), maybe(<<global(global_subprog_may_throw)>>), release("f")>>, Unreleased),
    cls("reject_with_cb_reference",
        <<new("f"), if_null("f", <<>>), callback(subprog_cb_ref), release("f")>>, Unreleased),
    cls("reject_with_cb", <<callback(subprog_cb_ref)>>, ThrowInCallback),
    cls("reject_with_subprog_reference", <<new("f"), if_null("f", <<>>), throw>>, Unreleased)}
loop_cb1 == <<throw>>
reject_exception_throw_cbs == {
    cls("reject_exception_throw_cb", <<callback(loop_cb1)>>, ThrowInCallback),
    cls("reject_exception_throw_cb_diff", <<either(<<callback(loop_cb1)>>, <<callback(loop_cb1)>>)>>, ThrowInCallback)}
always_throws == <<throw>>
rcu_lock_then_throw == <<rcu_lock, throw>>
reject_subprog_throws == {
    cls("reject_subprog_rcu_lock_throw", rcu_lock_then_throw, InRcuRegion),
    cls("reject_subprog_throw_preempt_lock", <<preempt_disable>> \o always_throws \o <<preempt_enable>>, InPreempt),
    cls("reject_subprog_throw_irq_lock", <<irq_save("flags")>> \o always_throws \o <<irq_restore("flags")>>, InIrq)}
Throws == UNION {{reject_exception_cb_type_4, reject_async_callback_throw, reject_with_rbtree_add_throw},
    reject_in_region, reject_with_references, reject_exception_throw_cbs, reject_subprog_throws}
=============================================================================
