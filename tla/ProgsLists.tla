----------------------------- MODULE ProgsLists -----------------------------
(***************************************************************************)
(* progs/linked_list.rs, progs/linked_list_peek.rs and                     *)
(* progs/rbtree_search.rs: programs that fill a list or a tree in a loop   *)
(* and walk it.  NR_MULTIPLE (200), NR_NODES (16) and                      *)
(* MAX_LIST_CLEAR_NODES (256) are 2 here.                                  *)
(* linked_list.rs runs the same functions on several lists: the one of a   *)
(* map value and the global one are here.  Left out: its lists in lists    *)
(* and its arrays of lists.                                                *)
(***************************************************************************)
EXTENDS BpfVerifier

locked(k, ops) == <<spin_lock(k[3])>> \o ops \o <<spin_unlock(k[3])>>
fresh(v, failed) == <<new(v), if_null(v, failed)>>
popped(k, v) == locked(k, <<pop(v, k)>>)
\* The list should have been empty: what came off it goes.
none(v, others) == <<if_some(v, <<release(v)>> \o others \o <<return>>)>>

list_push_pop_leave(k) ==
    fresh("f", <<>>)
    \o popped(k, "n") \o none("n", <<release("f")>>)
    \o popped(k, "n") \o none("n", <<release("f")>>)
    \o locked(k, <<push("f", k)>>)
list_push_pop(k) ==
    list_push_pop_leave(k)
    \o popped(k, "f") \o <<if_null("f", <<>>), maybe(<<release("f"), return>>)>>
    \o locked(k, <<push("f", k)>>)
    \o popped(k, "f") \o <<if_null("f", <<>>), release("f")>>
    \o popped(k, "n") \o none("n", <<>>)
    \o popped(k, "n") \o none("n", <<>>)
\* The nodes go in two at a time; each is then moved to the other end.
moved(k) ==
    popped(k, "pf") \o <<if_null("pf", <<>>), deref("pf"), maybe(<<release("pf"), return>>)>>
    \o locked(k, <<push("pf", k)>>)
list_push_pop_multiple_leave(k) ==
    fresh("f", <<>>) \o fresh("f1", <<release("f")>>)
    \o locked(k, <<push("f", k), push("f1", k)>>)
    \o moved(k) \o moved(k)
taken(k) ==
    popped(k, "pf") \o <<if_null("pf", <<>>), deref("pf"), either(<<release("pf"), return>>, <<release("pf")>>)>>
list_push_pop_multiple(k) ==
    list_push_pop_multiple_leave(k)
    \o taken(k) \o taken(k)
    \o popped(k, "n") \o none("n", <<>>)
    \o popped(k, "n") \o none("n", <<>>)
clear_round(k) == popped(k, "n") \o <<if_null("n", <<>>), release("n")>>
clear_list(k) == clear_round(k) \o clear_round(k)
ghead == collection("ghead", "node2", "glock")
map_head == collection("map_head", "node2", "v")
map_value == <<lookup("v"), if_null("v", <<>>)>>
clear_global_list == prog("clear_global_list", "sleepable", clear_list(ghead), "")
clear_map_list == prog("clear_map_list", "sleepable", map_value \o clear_list(map_head), "")
\* The list is left empty, then with a node.
test_list_push_pop(k) == list_push_pop(k) \o list_push_pop_leave(k)
test_list_push_pop_multiple(k) == list_push_pop_multiple(k) \o list_push_pop_multiple_leave(k)
global_list_push_pop == prog("global_list_push_pop", "atomic", test_list_push_pop(ghead), "")
map_list_push_pop == prog("map_list_push_pop", "atomic", map_value \o test_list_push_pop(map_head), "")
global_list_push_pop_multiple ==
    prog("global_list_push_pop_multiple", "atomic", test_list_push_pop_multiple(ghead), "")
GlobalLists == {clear_global_list, global_list_push_pop, global_list_push_pop_multiple}
MapLists == {clear_map_list, map_list_push_pop}

-----------------------------------------------------------------------------
(* linked_list_peek.rs *)

fill == fresh("n", <<>>) \o locked(ghead, <<push("n", ghead)>>)
peeked == locked(ghead, <<peek("l", ghead)>>) \o <<if_some("l", <<return>>)>>
list_peek == prog("list_peek", "sleepable",
    peeked \o peeked \o <<maybe(fill \o <<maybe(fill)>>)>>
    \o locked(ghead, <<peek("l", ghead),
                       if_some("l", <<deref("l"), maybe(<<peek("l", ghead), if_some("l", <<deref("l")>>)>>)>>)>>), "")
\* The tags of the locked ones quote what is known of the node; the call they
\* make under the lock is what refuses them.
test_front_back == {
    prog("test_front_spinlock_true", "sleepable",
         locked(ghead, <<peek("l", ghead), if_some("l", <<helper>>)>>), "any"),
    prog("test_back_spinlock_true", "sleepable",
         locked(ghead, <<peek("l", ghead), if_some("l", <<helper>>)>>), "any"),
    prog("test_front_spinlock_false", "sleepable", <<peek("l", ghead), if_some("l", <<helper>>)>>, MustHold),
    prog("test_back_spinlock_false", "sleepable", <<peek("l", ghead), if_some("l", <<helper>>)>>, MustHold)}
Peeks == {list_peek} \cup test_front_back

-----------------------------------------------------------------------------
(* rbtree_search.rs: a node is in two trees, under two locks *)

groot0 == collection("groot0", "r0", "glock0")
groot1 == collection("groot1", "r1", "glock1")
search_fill ==
    fresh("n", <<>>) \o <<ref("m", "n"), deref("m")>>
    \o locked(groot0, <<push("n", groot0)>>) \o locked(groot1, <<push("m", groot1)>>)
give_up == <<spin_unlock("glock0"), return>>
\* n is found: the nodes passed on the way (gc) are removed, a reference to n
\* taken, and n removed from the other tree.
search_found(n, gc) ==
    (IF gc = "" THEN <<>> ELSE <<remove("gone", groot0, gc)>>)
    \o <<ref("m", n), spin_unlock("glock0")>>
    \o (IF gc = "" THEN <<>> ELSE <<if_some("gone", <<release("gone")>>)>>)
    \o <<if_null("m", <<>>)>> \o locked(groot1, <<remove("rb", groot1, "m")>>)
    \o <<release("m"), if_null("rb", <<>>), release("rb"), return>>
search_step(n, found, on) == <<if(n, <<deref(n), either(found, on)>>, give_up)>>
rbtree_search == prog("rbtree_search", "sleepable",
    <<maybe(search_fill \o <<maybe(search_fill)>>), spin_lock("glock0"), peek("n0", groot0), maybe(give_up)>>
    \o search_step("n0", search_found("n0", ""),
                   <<child("n1", groot0, "n0"), maybe(give_up)>>
                   \o search_step("n1", search_found("n1", "n0"), give_up)), "")

root_peeked == <<peek("rb", groot0), if_some("rb", <<helper>>)>>
test_roots == {
    prog("test_root_spinlock_true", "sleepable", locked(groot0, root_peeked), "any"),
    prog("test_root_spinlock_false", "sleepable", root_peeked, MustHold)}
test_lr_prologue ==
    <<spin_lock("glock0"), peek("rb", groot0), if_null("rb", <<spin_unlock("glock0")>>),
      ref("n", "rb"), spin_unlock("glock0"), if_null("n", <<>>)>>
child_peeked == <<child("rb", groot0, "n"), if_some("rb", <<helper>>)>>
test_left_right == {
    prog("test_left_spinlock_true", "sleepable", test_lr_prologue \o locked(groot0, child_peeked), "any"),
    prog("test_right_spinlock_true", "sleepable", test_lr_prologue \o locked(groot0, child_peeked), "any"),
    prog("test_left_spinlock_false", "sleepable", test_lr_prologue \o child_peeked, MustHold),
    prog("test_right_spinlock_false", "sleepable", test_lr_prologue \o child_peeked, MustHold)}
Searches == {rbtree_search} \cup test_roots \cup test_left_right
=============================================================================
