----------------------------- MODULE ProgsGraph -----------------------------
(***************************************************************************)
(* progs/rbtree.rs, progs/rbtree_fail.rs, progs/refcounted_kptr.rs and     *)
(* progs/refcounted_kptr_fail.rs: objects linked into trees and lists.     *)
(* Keys are left out, so a tree or a list gives any of its nodes.  Left    *)
(* out too: rbtree_add_and_remove_array (six nodes) and                    *)
(* refcount_acquire_list_node_offset (an offset in a pointer).             *)
(***************************************************************************)
EXTENDS BpfVerifier

groot == collection("groot", "node", "glock")
groot2 == collection("groot2", "node", "glock")
groot_nested == collection("groot_nested", "node", "nested")
\* n and m become nodes of k.
new_node(v, failed) == <<new(v), if_null(v, failed)>>
alone(k, ops) == <<spin_lock(k[3])>> \o ops \o <<spin_unlock(k[3])>>

__add_three(k) ==
    new_node("n", <<>>) \o new_node("m", <<release("n")>>) \o alone(k, <<push("n", k), push("m", k)>>)
    \o new_node("n", <<>>) \o alone(k, <<push("n", k)>>)
rbtree_add_and_remove == prog("rbtree_add_and_remove", "atomic",
    new_node("n", <<>>) \o new_node("m", <<release("n")>>)
    \o alone(groot, <<push("n", groot), push("m", groot), remove("res", groot, "n")>>)
    \o <<if_null("res", <<>>), deref("res"), release("res")>>, "")
rbtree_first_and_remove == prog("rbtree_first_and_remove", "atomic",
    new_node("n", <<>>) \o new_node("m", <<release("n")>>) \o new_node("o", <<release("n"), release("m")>>)
    \o alone(groot, <<push("n", groot), push("m", groot), push("o", groot),
                      peek("o", groot), if_null("o", <<spin_unlock("glock")>>), deref("o"),
                      remove("res", groot, "o")>>)
    \o <<if_null("res", <<>>), deref("res"), release("res")>>
    \o alone(groot, <<peek("o", groot), if_null("o", <<spin_unlock("glock")>>), deref("o")>>), "")
\* m and o are one node: the second removal finds nothing.
rbtree_api_release_aliasing == prog("rbtree_api_release_aliasing", "atomic",
    new_node("n", <<>>) \o alone(groot, <<push("n", groot)>>)
    \o alone(groot, <<peek("o", groot), if_null("o", <<spin_unlock("glock")>>),
                      peek("m", groot), if_null("m", <<spin_unlock("glock")>>),
                      remove("res", groot, "m"), remove("res2", groot, "o")>>)
    \o <<if_some("res", <<deref("res"), release("res")>>), if_some("res2", <<deref("res2"), release("res2")>>)>>, "")
Trees == {prog("rbtree_add_nodes", "atomic", __add_three(groot), ""),
          prog("rbtree_add_nodes_nested", "atomic", __add_three(groot_nested), ""),
          rbtree_add_and_remove, rbtree_first_and_remove, rbtree_api_release_aliasing}

rbtree_nolock == {
    prog("rbtree_api_nolock_add", "atomic", new_node("n", <<>>) \o <<push("n", groot)>>, MustHold),
    prog("rbtree_api_nolock_remove", "atomic",
         new_node("n", <<>>) \o alone(groot, <<push("n", groot)>>) \o <<remove("r", groot, "n")>>, MustHold),
    prog("rbtree_api_nolock_first", "atomic", <<peek("f", groot)>>, MustHold)}
first_of(rest) == <<spin_lock("glock"), peek("res", groot), if_null("res", <<spin_unlock("glock")>>)>> \o rest
rbtree_removes == {
    prog("rbtree_api_remove_unadded_node", "atomic",
         new_node("n", <<>>) \o new_node("m", <<release("n")>>)
         \o alone(groot, <<push("n", groot), remove("rn", groot, "n"), remove("rm", groot, "m")>>)
         \o <<release("m"), if_some("rn", <<release("rn")>>), if_some("rm", <<release("rm")>>)>>, ""),
    prog("rbtree_api_remove_no_drop", "atomic",
         first_of(<<remove("own", groot, "res"), spin_unlock("glock")>>), Unreleased),
    prog("rbtree_api_add_to_multiple_trees", "atomic",
         new_node("n", <<>>) \o alone(groot, <<push("n", groot), push("n", groot2)>>), NotAllocated),
    prog("rbtree_api_use_unchecked_remove_retval", "atomic",
         first_of(<<remove("own", groot, "res"), spin_unlock("glock")>>) \o alone(groot, <<push("own", groot)>>),
         PossiblyNull)}
rbtree_escapes == {
    prog("rbtree_api_add_release_unlock_escape", "atomic",
         new_node("n", <<>>) \o alone(groot, <<push("n", groot)>>) \o alone(groot, <<remove("r", groot, "n")>>),
         TypeScalar),
    prog("rbtree_api_first_release_unlock_escape", "atomic",
         first_of(<<spin_unlock("glock")>>) \o alone(groot, <<remove("r", groot, "res")>>), TypeScalar)}
add_with_cb(name, cb, msg) ==
    prog(name, "atomic", new_node("n", <<>>) \o alone(groot, <<callback(cb), push("n", groot)>>), msg)
rbtree_callbacks == {
    add_with_cb("rbtree_api_add_bad_cb_bad_fn_call_add", <<push("a", groot)>>, NotAllocated),
    add_with_cb("rbtree_api_add_bad_cb_bad_fn_call_remove", <<remove("r", groot, "a")>>, NoRemove),
    add_with_cb("rbtree_api_add_bad_cb_bad_fn_call_first_unlock_after",
                <<peek("f", groot), spin_unlock("glock")>>, NoSpin)}
less__bad_subprog_unlock == <<spin_unlock("glock"), spin_lock("glock")>>
less__subprog_allowed == <<helper>>
rbtree_cb_locks == {
    prog("rbtree_api_add_bad_cb_res_spin_unlock", "atomic",
         new_node("n", <<>>)
         \o <<spin_lock("glock"),
              res_lock("res_glock", "", <<>>, <<spin_unlock("glock"), release("n"), return>>),
              callback(<<res_unlock("res_glock", "")>>), push("n", groot),
              res_unlock("res_glock", ""), spin_unlock("glock")>>, NoResSpin),
    add_with_cb("rbtree_api_add_bad_cb_subprog_unlock", less__bad_subprog_unlock, NoSpin),
    add_with_cb("rbtree_api_add_cb_subprog_allowed", less__subprog_allowed, "")}
TreesFail == rbtree_nolock \cup rbtree_removes \cup rbtree_escapes \cup rbtree_callbacks \cup rbtree_cb_locks

-----------------------------------------------------------------------------
(* objects with a count *)

head == collection("head", "l", "lock")
root == collection("root", "r", "lock")
aroot == collection("aroot", "node", "alock")
broot == collection("broot", "r", "block")
uninit_head == collection("uninit_head", "l", "uninit")
unlocked == <<spin_unlock("lock")>>

\* These return to programs that return at once when they fail.
__insert_in_tree_and_list ==
    new_node("n", <<>>)
    \o <<ref("m", "n"), deref("m"),
         spin_lock("lock"), insert("n", root, "", <<>>, unlocked \o <<release("m"), return>>), spin_unlock("lock"),
         spin_lock("lock"), insert("m", head, "", <<>>, unlocked \o <<return>>), spin_unlock("lock")>>
__stash_map_insert_tree ==
    <<lookup("val"), if_null("val", <<>>)>> \o new_node("n", <<>>)
    \o <<ref("m", "n"), xchg("old", "stash0", "n"), if_some("old", <<release("old"), release("m"), return>>),
         spin_lock("lock"), insert("m", root, "", <<>>, unlocked \o <<return>>), spin_unlock("lock")>>
__read_from_tree(rest) ==
    <<spin_lock("lock"), peek("rb", root), if_null("rb", unlocked), deref("rb")>> \o rest
leave_in_tree == unlocked
remove_from_tree == <<remove("rb", root, "rb"), spin_unlock("lock"), if_null("rb", <<>>), release("rb")>>
__read_from_list(rest) ==
    <<spin_lock("lock"), pop("l", head), if_null("l", unlocked), deref("l")>> \o rest
leave_in_list == <<insert("l", head, "", <<>>, unlocked \o <<return>>), spin_unlock("lock")>>
remove_from_list == <<spin_unlock("lock"), release("l")>>
__read_from_unstash ==
    <<lookup("val"), if_null("val", <<>>), xchg("u", "stash0", ""), if_null("u", <<>>), deref("u"), release("u")>>

\* One program for the four (or two) that differ in what they remove.
read_either_tree == __read_from_tree(<<either(leave_in_tree, remove_from_tree)>>)
read_either_list == __read_from_list(<<either(leave_in_list, remove_from_list)>>)
insert_read_both == prog("insert_and_remove_tree_*_list_*", "atomic",
    __insert_in_tree_and_list \o read_either_tree \o read_either_list, "")
insert_read_both_list_first == prog("insert_and_remove_lf_tree_*_list_*", "atomic",
    __insert_in_tree_and_list \o read_either_list \o read_either_tree, "")
insert_double_read_and_del == {
    prog("insert_double___read_from_tree_and_del_root", "atomic",
         __insert_in_tree_and_list \o __read_from_tree(remove_from_tree) \o __read_from_tree(remove_from_tree), ""),
    prog("insert_double___read_from_list_and_del_head", "atomic",
         __insert_in_tree_and_list \o __read_from_list(remove_from_list) \o __read_from_list(remove_from_list), "")}
insert_stash_read == prog("insert_rbtree_and_stash__del_tree_*", "atomic",
    __stash_map_insert_tree \o read_either_tree \o __read_from_unstash, "")
list_empty_test == prog("list_empty_test", "atomic",
    alone(head, <<peek("e", head), if_some("e", unlocked \o <<return>>)>>)
    \o new_node("new", <<>>)
    \o alone(head, <<push("new", head), peek("e", head), if_null("e", unlocked)>>), "")

__add_in_list(v, failed) ==
    new_node("new", failed) \o <<ref(v, "new")>> \o alone(head, <<push("new", head)>>)
list_edges == {
    prog("list_is_edge_test1", "atomic",
         __add_in_list("last", <<>>) \o __add_in_list("first", <<release("last")>>)
         \o alone(head, <<edge(head, "first"), maybe(<<edge(head, "last")>>)>>)
         \o <<release("first"), release("last")>>, ""),
    prog("list_is_edge_test2", "atomic",
         __add_in_list("a", <<>>) \o __add_in_list("b", <<release("a")>>)
         \o alone(head, <<peek("front", head), peek("back", head),
                          if_some("front", <<if_some("back",
                              <<edge(head, "front"), maybe(<<edge(head, "back")>>)>>)>>)>>)
         \o <<release("a"), release("b")>>, ""),
    prog("list_is_edge_test3", "atomic",
         __add_in_list("tmp", <<>>)
         \o alone(head, <<peek("node", head), if_null("node", unlocked \o <<release("tmp")>>), edge(head, "node")>>)
         \o <<release("tmp")>>, "")}
list_dels == {
    prog("list_del_test1", "atomic",
         __add_in_list("last", <<>>) \o __add_in_list("first", <<release("last")>>)
         \o alone(head, <<remove("l", head, "last"), remove("f", head, "first")>>)
         \o <<if_some("f", <<release("f")>>), if_some("l", <<release("l")>>), release("first"), release("last")>>, ""),
    prog("list_del_test2", "atomic",
         __insert_in_tree_and_list
         \o alone(head, <<peek("rb", root), if_null("rb", unlocked),
                          remove("n", root, "rb"), if_null("n", unlocked), remove("l", head, "n")>>)
         \o <<release("n"), if_null("l", <<>>), release("l")>>, ""),
    prog("list_del_test3", "atomic",
         __add_in_list("tmp", <<>>)
         \o alone(head, <<peek("node", head), if_null("node", unlocked \o <<release("tmp")>>),
                          remove("l", head, "node")>>)
         \o <<if_some("l", <<release("l")>>), release("tmp")>>, "")}
list_adds == {
    prog("list_add_test1", "atomic",
         __add_in_list("first", <<>>) \o new_node("new", <<release("first")>>)
         \o alone(head, <<insert("new", head, "first", <<>>, <<>>)>>) \o <<release("first")>>, ""),
    prog("list_add_test2", "atomic",
         __add_in_list("tmp", <<>>) \o new_node("new", <<release("tmp")>>)
         \o alone(head, <<peek("node", head), if_null("node", unlocked \o <<release("new"), release("tmp")>>),
                          insert("new", head, "node", <<>>, <<>>)>>)
         \o <<release("tmp")>>, ""),
    prog("list_push_back_uninit_head", "atomic",
         <<lookup("val"), if_null("val", <<>>)>> \o new_node("node", <<>>)
         \o alone(uninit_head, <<push("node", uninit_head)>>), "")}
lists_nolock == {
    prog("list_del_without_lock_fail", "atomic",
         new_node("n", <<>>) \o <<remove("l", head, "n"), release("n"), if_null("l", <<>>), release("l")>>, MustHold),
    prog("list_add_without_lock_fail", "atomic",
         new_node("n", <<>>) \o new_node("prev", <<release("n")>>)
         \o <<insert("n", head, "prev", <<>>, <<>>), release("prev")>>, MustHold)}

node_ref_escapes == {
    prog("rbtree_refcounted_node_ref_escapes", "atomic",
         new_node("n", <<>>) \o alone(aroot, <<push("n", aroot), ref("m", "n")>>)
         \o <<if_null("m", <<>>), deref("m"), release("m")>>, ""),
    prog("rbtree_refcounted_node_ref_escapes_owning_input", "atomic",
         new_node("n", <<>>) \o <<ref("m", "n"), deref("m")>> \o alone(aroot, <<push("n", aroot)>>)
         \o <<release("m")>>, "")}
__stash_map_empty_xchg(v, slot, failed) ==
    <<lookup("val"), if_null("val", <<release(v)>> \o failed),
      xchg("old", slot, v), if_some("old", <<release("old")>> \o failed \o <<return>>)>>
unstashed(v, slot) == <<lookup("val"), if_null("val", <<>>), xchg(v, slot, ""), if_null(v, <<>>)>>
rbtree_wrong_owner == {
    prog("rbtree_wrong_owner_remove_fail_a1", "atomic",
         new_node("n", <<>>) \o <<ref("m", "n")>>
         \o __stash_map_empty_xchg("n", "stash0", <<release("m")>>) \o __stash_map_empty_xchg("m", "stash1", <<>>), ""),
    prog("rbtree_wrong_owner_remove_fail_b", "atomic",
         unstashed("n", "stash0") \o alone(broot, <<push("n", broot)>>), ""),
    prog("rbtree_wrong_owner_remove_fail_a2", "atomic",
         unstashed("m", "stash1") \o alone(head, <<push("m", head), remove("res", root, "m")>>)
         \o <<if_some("res", <<release("res")>>)>>, "")}

first_removed ==
    alone(root, <<push("n", root), null("m"), peek("rb", root), if_some("rb", <<remove("m", root, "rb")>>)>>)
rbtree_sleepable == {
    prog("rbtree_sleepable_rcu", "sleepable",
         new_node("n", <<>>) \o <<rcu_lock>> \o first_removed
         \o <<rcu_unlock, if_some("m", <<release("m")>>)>>, ""),
    prog("rbtree_sleepable_rcu_no_explicit_rcu_lock", "sleepable",
         new_node("n", <<>>) \o first_removed \o <<if_some("m", <<release("m")>>)>>, "")}
\* Reading the count is a helper's read of any address.
probe_read_refcount == <<helper>>
percpu_hash == {
    prog("percpu_hash_refcount_leak", "atomic",
         <<lookup("val"), if_null("val", <<>>)>> \o new_node("new", <<>>)
         \o <<ref("node", "new"), xchg("old", "percpu", "new"),
              if_some("old", <<release("old"), release("node"), return>>)>>
         \o alone(head, <<push("node", head)>>) \o probe_read_refcount, ""),
    prog("clear_percpu_hash_kptr", "sleepable",
         unstashed("n", "percpu") \o <<release("n")>> \o probe_read_refcount, "")}
loaded(slot) == <<load("n", slot), if_null("n", <<rcu_unlock>>)>>
refcount_only == {
    prog("refcount_acquire_owning_input_no_null_check", "atomic",
         new_node("n", <<>>) \o <<ref("m", "n"), release("m"), release("n")>>, ""),
    prog("refcount_acquire_rcu_map_kptr_null_checked", "sleepable",
         <<lookup("val"), if_null("val", <<>>), rcu_lock>> \o loaded("only")
         \o <<ref("m", "n"), rcu_unlock, if_null("m", <<>>), release("m")>>, "")}
\* In two parts, which do not meet: what reads the tree and the list, and
\* what works on the list alone.
Counted == {insert_read_both, insert_read_both_list_first, insert_stash_read}
           \cup insert_double_read_and_del \cup node_ref_escapes \cup rbtree_wrong_owner \cup rbtree_sleepable
           \cup percpu_hash \cup refcount_only
CountedLists == {list_empty_test} \cup list_edges \cup list_dels \cup list_adds \cup lists_nolock

counted_owned == {
    prog("rbtree_refcounted_node_ref_escapes", "atomic",
         new_node("n", <<>>) \o alone(groot, <<push("n", groot), ref("m", "n")>>) \o <<if_null("m", <<>>), deref("m")>>,
         Unreleased),
    prog("refcount_acquire_maybe_null", "atomic",
         <<new("n"), ref("m", "n"), if_some("m", <<release("m")>>), if_some("n", <<release("n")>>)>>, PossiblyNull),
    prog("refcount_acquire_non_object", "atomic", <<context("ctx"), ref("m", "ctx")>>, TypeCtx),
    prog("rbtree_refcounted_node_ref_escapes_owning_input", "atomic",
         new_node("n", <<>>) \o <<ref("m", "n"), deref("m")>> \o alone(groot, <<push("n", groot)>>), Unreleased)}
counted_rcu == {
    prog("rbtree_fail_sleepable_lock_across_rcu", "sleepable",
         new_node("n", <<>>) \o <<rcu_lock, spin_lock("glock"), push("n", groot), rcu_unlock,
                                  rcu_lock, spin_unlock("glock"), rcu_unlock>>, Calls),
    prog("refcount_acquire_rcu_map_kptr_unchecked_drop", "sleepable",
         new_node("tmp", <<>>) \o <<release("tmp"), lookup("val"), if_null("val", <<>>), rcu_lock>> \o loaded("only")
         \o <<ref("m", "n"), rcu_unlock, release("m")>>, PossiblyNull)}
graph_root == collection("graph_root", "node", "graph_lock")
loaded_in_rcu(slot) ==
    <<lookup("val"), if_null("val", <<>>), rcu_lock>> \o loaded(slot) \o <<rcu_unlock>>
counted_escapes == {
    prog("rbtree_remove_after_rcu_unlock", "sleepable",
         loaded_in_rcu("graph") \o alone(graph_root, <<remove("rb", graph_root, "n")>>)
         \o <<if_some("rb", <<release("rb")>>)>>, TypeUntrusted),
    prog("refcount_acquire_after_rcu_unlock", "sleepable",
         loaded_in_rcu("only") \o <<ref("m", "n"), if_some("m", <<release("m")>>)>>, TypeUntrusted),
    prog("graph_kptr_after_spin_unlock", "sleepable",
         <<lookup("val"), if_null("val", <<>>)>>
         \o alone(graph_root, <<load("n", "graph"), if_null("n", <<spin_unlock("graph_lock")>>)>>)
         \o <<deref("n")>>, BadAccess)}
CountedFail == counted_owned \cup counted_rcu \cup counted_escapes
=============================================================================
