---------------------------- MODULE ProgsCpumask ----------------------------
(***************************************************************************)
(* progs/cpumask_success.rs and progs/cpumask_failure.rs: masks created,   *)
(* stored in map values and in globals, read under RCU.  The calls that    *)
(* read or write a mask are one use of it.  Left out: the programs refused *)
(* for the type of an argument, and the two that repeat                    *)
(* global_mask_array_rcu over dozens of fields.                            *)
(***************************************************************************)
EXTENDS BpfVerifier

is_test_task == maybe(<<return>>)
\* failed is what the caller does, before it returns, when there is no mask.
create_cpumask(m, failed) ==
    <<new(m), if_null(m, failed), use(m), maybe(<<release(m)>> \o failed \o <<return>>)>>
create_cpumask_set ==
    create_cpumask("m1", <<>>) \o create_cpumask("m2", <<release("m1")>>)
    \o create_cpumask("m3", <<release("m1"), release("m2")>>)
    \o create_cpumask("m4", <<release("m1"), release("m2"), release("m3")>>)
cpumask_map_value_lookup == <<lookup("v"), if_null("v", <<>>)>>
\* The update empties the element, and drops what it held.
cpumask_map_insert(m) ==
    <<either(<<release(m), return>>, <<delete("cpumask")>>), lookup("v"), if_null("v", <<release(m)>>),
      xchg("old", "cpumask", m), if_some("old", <<release("old"), return>>)>>

global_mask_array_rcu(mask0, mask1) ==
    <<is_test_task>> \o create_cpumask("l", <<>>)
    \o <<rcu_lock, xchg("x", mask0, "l"), if_some("x", <<release("x"), rcu_unlock, return>>),
         load("y", mask0), if_null("y", <<rcu_unlock>>),
         load("z", mask1), if_some("z", <<rcu_unlock, return>>)>>
    \o create_cpumask("l2", <<rcu_unlock>>)
    \o <<xchg("x2", mask1, "l2"), if_some("x2", <<release("x2")>>), rcu_unlock>>

one_mask == <<is_test_task>> \o create_cpumask("m", <<>>) \o <<use("m"), release("m")>>
test_one_mask == {
    prog("test_alloc_free_cpumask", "atomic", <<is_test_task>> \o create_cpumask("m", <<>>) \o <<release("m")>>, ""),
    prog("test_set_clear_cpu", "atomic", one_mask, ""),
    prog("test_setall_clear_cpu", "atomic", one_mask, ""),
    prog("test_first_firstzero_cpu", "atomic", one_mask, "")}
test_two_masks == {
    prog("test_firstand_nocpu", "atomic",
         <<is_test_task>> \o create_cpumask("m1", <<>>) \o create_cpumask("m2", <<release("m1")>>)
         \o <<use("m1"), use("m2"), release("m1"), release("m2")>>, ""),
    prog("test_test_and_set_clear", "atomic", one_mask, "")}
four_masks ==
    <<is_test_task>> \o create_cpumask_set
    \o <<use("m1"), use("m2"), use("m3"), use("m4"),
         release("m1"), release("m2"), release("m3"), release("m4")>>
test_four_masks == {
    prog("test_and_or_xor", "atomic", four_masks, ""),
    prog("test_intersects_subset", "atomic", four_masks, "")}
test_copies == {prog("test_copy_any_anyand", "atomic", four_masks, "")}

test_inserts == {
    prog("test_insert_leave", "atomic", create_cpumask("m", <<>>) \o cpumask_map_insert("m"), ""),
    prog("test_insert_remove_release", "atomic",
         create_cpumask("m", <<>>) \o cpumask_map_insert("m") \o cpumask_map_value_lookup
         \o <<xchg("m2", "cpumask", ""), if_some("m2", <<release("m2")>>)>>, "")}
test_globals == {
    prog("test_global_mask_rcu", "atomic",
         <<is_test_task>> \o create_cpumask("l", <<>>)
         \o <<xchg("prev", "mask", "l"), if_some("prev", <<release("prev"), return>>),
              rcu_lock, load("g", "mask"), if_null("g", <<rcu_unlock>>), use("g"), rcu_unlock>>, ""),
    prog("test_global_mask_array_one_rcu", "atomic",
         <<is_test_task>> \o create_cpumask("l", <<>>)
         \o <<xchg("prev", "mask", "l"), if_some("prev", <<release("prev"), return>>),
              rcu_lock, load("g", "mask"), if_null("g", <<rcu_unlock>>), rcu_unlock>>, ""),
    prog("test_global_mask_array_rcu", "atomic", global_mask_array_rcu("mask", "mask1"), ""),
    prog("test_global_mask_array_l2_rcu", "atomic", global_mask_array_rcu("mask", "mask1"), ""),
    prog("test_global_mask_nested_rcu", "atomic", global_mask_array_rcu("mask", "mask1"), "")}
test_more_masks == {
    prog("test_cpumask_weight", "atomic", one_mask, ""),
    prog("test_refcount_null_tracking", "atomic",
         <<new("m1"), new("m2"), if_some("m1", <<if_some("m2", <<use("m1"), use("m2")>>)>>),
           if_some("m1", <<release("m1")>>), if_some("m2", <<release("m2")>>)>>, ""),
    prog("test_populate_reject_small_mask", "atomic", one_mask, "")}
test_populates == {
    prog("test_populate_reject_unaligned", "atomic",
         <<is_test_task, maybe(<<return>>), new("m"), if_null("m", <<>>), use("m"), release("m")>>, ""),
    prog("test_populate", "atomic",
         <<is_test_task, new("m"), if_null("m", <<>>), use("m"),
           maybe(<<iter_new("it"), use("m"), iter_destroy("it")>>), release("m")>>, "")}

\* The mask, or NULL, as create_cpumask of cpumask_failure.rs returns it.
mask_or_null(m) == <<new(m), if_some(m, <<use(m), maybe(<<release(m), null(m)>>)>>)>>
cpumask_allocs == {
    prog("test_alloc_no_release", "atomic", mask_or_null("m"), Unreleased),
    prog("test_alloc_double_release", "atomic", mask_or_null("m") \o <<release("m"), release("m")>>, PossiblyNull)}
cpumask_refs == {
    prog("test_insert_remove_no_release", "atomic",
         create_cpumask("m", <<>>) \o cpumask_map_insert("m") \o cpumask_map_value_lookup
         \o <<xchg("m2", "cpumask", "")>>, Unreleased),
    prog("test_cpumask_null", "atomic", <<null("n"), use("n")>>, PossiblyNull)}
swap_in == create_cpumask("l", <<>>) \o <<xchg("prev", "mask", "l"), if_some("prev", <<release("prev"), return>>)>>
cpumask_globals == {
    prog("test_global_mask_out_of_rcu", "sleepable",
         swap_in \o <<rcu_lock, load("g", "mask"), if_null("g", <<rcu_unlock>>), rcu_unlock, use("g")>>, NotRcu),
    prog("test_global_mask_no_null_check", "atomic",
         swap_in \o <<rcu_lock, load("g", "mask"), use("g"), rcu_unlock>>, PossiblyNull),
    prog("test_global_mask_rcu_no_null_check", "atomic",
         <<new("l"), if_null("l", <<>>), xchg("prev", "mask", "l"), if_some("prev", <<release("prev")>>),
           rcu_lock, load("g", "mask"), xchg("p2", "mask", "g"), rcu_unlock,
           if_some("p2", <<release("p2")>>)>>, NotReferenced)}

\* The programs whose masks are their own, and the ones that share them.
Cpumasks == test_one_mask \cup test_two_masks \cup test_four_masks \cup test_copies \cup test_more_masks \cup test_populates
SharedCpumasks == test_inserts \cup test_globals
CpumasksFail == cpumask_allocs \cup cpumask_refs \cup cpumask_globals
=============================================================================
