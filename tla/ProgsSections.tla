--------------------------- MODULE ProgsSections ---------------------------
(***************************************************************************)
(* progs/irq.rs, progs/preempt_lock.rs, progs/res_spin_lock.rs and         *)
(* progs/res_spin_lock_fail.rs: sections with interrupts or preemption     *)
(* off, and resilient spin locks.  Programs refused only for the shape of  *)
(* an argument (an offset, a type without a lock) are left out.            *)
(***************************************************************************)
EXTENDS BpfVerifier

irq_bad_args == {
    prog("irq_flag_direct_read", "atomic", <<irq_save("f"), read("f")>>, BadRead),
    prog("irq_save_bad_arg", "atomic", <<in_map("g"), irq_save("g")>>, TypeMap),
    prog("irq_restore_bad_arg", "atomic", <<in_map("g"), irq_restore("g")>>, TypeMap)}

local_irq_save(f) == irq_save(f)
local_irq_restore(f) == irq_restore(f)
save_3 == <<irq_save("f1"), irq_save("f2"), irq_save("f3")>>
restore_3 == <<irq_restore("f3"), irq_restore("f2"), irq_restore("f1")>>
irq_missing == {
    prog("irq_restore_missing_2", "atomic", <<irq_save("f1"), irq_save("f2")>>, InIrq),
    prog("irq_restore_missing_3", "atomic", save_3, InIrq),
    prog("irq_restore_missing_3_minus_2", "atomic",
         save_3 \o <<irq_restore("f3"), irq_restore("f2")>>, InIrq)}
irq_missing_subprog == {
    prog("irq_restore_missing_1_subprog", "atomic", <<local_irq_save("f")>>, InIrq),
    prog("irq_restore_missing_2_subprog", "atomic", <<local_irq_save("f1"), local_irq_save("f2")>>, InIrq),
    prog("irq_restore_missing_3_subprog", "atomic", save_3, InIrq),
    prog("irq_restore_missing_3_minus_2_subprog", "atomic",
         save_3 \o <<local_irq_restore("f3"), local_irq_restore("f2")>>, InIrq)}

local_irq_balance == <<local_irq_save("f"), local_irq_restore("f")>>
local_irq_balance_n == save_3 \o restore_3
global_local_irq_balance == global(local_irq_balance_n)
irq_balanced == {
    prog("irq_balance", "atomic", local_irq_balance, ""),
    prog("irq_balance_n", "atomic", local_irq_balance_n, ""),
    prog("irq_balance_subprog", "atomic", local_irq_balance, "")}
irq_sleeps == {
    prog("irq_sleepable_helper", "sleepable", <<irq_save("f"), sleep_helper, irq_restore("f")>>, Sleepable),
    prog("irq_sleepable_kfunc", "sleepable", <<irq_save("f"), sleep_kfunc, irq_restore("f")>>, SleepableWithin),
    prog("irq_global_subprog", "atomic", <<irq_save("f"), global_local_irq_balance, irq_restore("f")>>, "")}

irq_order == {
    prog("irq_restore_ooo", "atomic",
         <<irq_save("f1"), irq_save("f2"), irq_restore("f1"), irq_restore("f2")>>, OutOfOrder),
    prog("irq_restore_ooo_3", "atomic",
         <<irq_save("f1"), irq_save("f2"), irq_restore("f2"), irq_save("f3"),
           irq_restore("f1"), irq_restore("f3")>>, OutOfOrder),
    prog("irq_restore_3_subprog", "atomic", save_3 \o restore_3, ""),
    prog("irq_restore_4_subprog", "atomic",
         save_3 \o <<irq_restore("f3"), irq_save("f4"), irq_restore("f4"), irq_restore("f1")>>, OutOfOrder),
    prog("irq_restore_ooo_3_subprog", "atomic",
         save_3 \o <<irq_restore("f3"), irq_restore("f2"), irq_save("f3"), irq_restore("f1")>>, OutOfOrder)}
irq_slots == {
    prog("irq_restore_invalid", "atomic", <<stack("f"), irq_save("f1"), irq_restore("f")>>, Initialized),
    prog("irq_save_invalid", "atomic", <<irq_save("f1"), irq_save("f1")>>, Uninitialized),
    prog("irq_restore_iter", "atomic", <<iter_new("it"), irq_restore("it")>>, Initialized),
    prog("irq_save_iter", "atomic", <<iter_new("it"), irq_save("it"), irq_restore("it")>>, Unreleased),
    prog("irq_flag_overwrite", "atomic", <<irq_save("f"), overwrite("f"), irq_restore("f")>>, Initialized),
    prog("irq_flag_overwrite_partial", "atomic", <<irq_save("f"), overwrite("f"), irq_restore("f")>>, Initialized)}
irq_refs_array == {
    prog("irq_ooo_refs_array", "atomic",
         <<irq_save("f0"), new("p"), if_null("p", <<irq_restore("f0")>>), irq_save("f1"), irq_save("f2"),
           release("p"), irq_save("f3"), irq_restore("f3"),
           irq_restore("f1"), irq_restore("f2"), irq_restore("f0")>>, OutOfOrder)}

\* The global functions of irq.rs and preempt_lock.rs.
global_subprog == global(<<maybe(<<helper>>)>>)
global_sleepable_helper_subprog == global(<<maybe(<<sleep_helper>>)>>)
global_sleepable_kfunc_subprog == global(<<maybe(<<sleep_kfunc>>), global_subprog>>)
global_subprog_calling_sleepable_global == global(<<maybe(<<global_sleepable_kfunc_subprog>>)>>)
irq_globals == {
    prog("irq_non_sleepable_global_subprog", "sleepable",
         <<irq_save("f"), global_subprog, irq_restore("f")>>, ""),
    prog("irq_sleepable_helper_global_subprog", "sleepable",
         <<irq_save("f"), global_sleepable_helper_subprog, irq_restore("f")>>, SleepableGlobal),
    prog("irq_sleepable_global_subprog_indirect", "sleepable",
         <<irq_save("f"), global_subprog_calling_sleepable_global, irq_restore("f")>>, SleepableGlobal)}
irq_locks == {
    prog("irq_ooo_lock_cond_inv", "atomic",
         <<res_lock("A", "f1", <<>>, <<return>>),
           res_lock("B", "f2", <<>>, <<res_unlock("A", "f1"), return>>),
           res_unlock("B", "f1"), res_unlock("A", "f2")>>, OutOfOrder),
    prog("irq_wrong_kfunc_class_1", "atomic",
         <<res_lock("A", "f1", <<>>, <<return>>), irq_restore("f1"), res_unlock("A", "f1")>>, Calls),
    prog("irq_wrong_kfunc_class_2", "atomic",
         <<irq_save("f1"), res_lock("A", "f2", <<>>, <<return>>), irq_restore("f2"), res_unlock("A", "f1")>>,
         Calls)}

-----------------------------------------------------------------------------
(* progs/preempt_lock.rs *)

disable_3 == <<preempt_disable, preempt_disable, preempt_disable>>
preempt_missing == {
    prog("preempt_lock_missing_1", "atomic", <<preempt_disable>>, InPreempt),
    prog("preempt_lock_missing_2", "atomic", <<preempt_disable, preempt_disable>>, InPreempt),
    prog("preempt_lock_missing_3", "atomic", disable_3, InPreempt),
    prog("preempt_lock_missing_3_minus_2", "atomic",
         disable_3 \o <<preempt_enable, preempt_enable>>, InPreempt)}
preempt_missing_subprog == {
    prog("preempt_lock_missing_1_subprog", "atomic", <<preempt_disable>>, InPreempt),
    prog("preempt_lock_missing_2_subprog", "atomic", <<preempt_disable, preempt_disable>>, InPreempt),
    prog("preempt_lock_missing_2_minus_1_subprog", "atomic",
         <<preempt_disable, preempt_disable, preempt_enable>>, InPreempt)}
\* Mutant: preemption is enabled once too often.
preempt_balance_subprogC == <<preempt_disable, preempt_enable, preempt_enable>>
preempt_balance_subprog == <<preempt_disable, preempt_enable>>
preempt_balanced == {
    prog("preempt_balance", "atomic", <<preempt_disable, preempt_enable>>, ""),
    prog("preempt_balance_subprog_test", "atomic", preempt_balance_subprog, "")}
preempt_sleeps == {
    prog("preempt_sleepable_helper", "sleepable", <<preempt_disable, sleep_helper, preempt_enable>>, Sleepable),
    prog("preempt_sleepable_get_stack", "sleepable", <<preempt_disable, sleep_helper, preempt_enable>>, Sleepable),
    prog("preempt_sleepable_get_task_stack", "sleepable",
         <<arg("task"), preempt_disable, sleep_helper, preempt_enable>>, Sleepable),
    prog("sleepable_get_stack", "sleepable", <<sleep_helper>>, ""),
    prog("sleepable_get_task_stack", "sleepable", <<arg("task"), sleep_helper>>, ""),
    prog("preempt_sleepable_kfunc", "sleepable", <<preempt_disable, sleep_kfunc, preempt_enable>>, SleepableWithin),
    prog("non_sleepable_kfunc", "atomic", <<sleep_kfunc>>, MustBeSleepable),
    prog("sleepable_kfunc_in_rcu", "sleepable", <<rcu_lock, sleep_kfunc, rcu_unlock>>, SleepableWithin)}
preempt_global_subprog == global(preempt_balance_subprog)
preempt_globals == {
    prog("preempt_global_subprog_test", "atomic", <<preempt_disable, preempt_global_subprog, preempt_enable>>, ""),
    prog("preempt_global_sleepable_helper_subprog", "sleepable",
         <<preempt_disable, maybe(<<global_sleepable_helper_subprog>>), preempt_enable>>, SleepableGlobal),
    prog("preempt_global_sleepable_kfunc_subprog", "sleepable",
         <<preempt_disable, maybe(<<global_sleepable_kfunc_subprog>>), preempt_enable>>, SleepableGlobal),
    prog("preempt_global_sleepable_subprog_indirect", "sleepable",
         <<preempt_disable, maybe(<<global_subprog_calling_sleepable_global>>), preempt_enable>>, SleepableGlobal)}

-----------------------------------------------------------------------------
(* progs/res_spin_lock.rs and progs/res_spin_lock_fail.rs *)

\* Two lookups of one element: the same lock at run time, two for the verifier.
res_spin_lock_test == prog("res_spin_lock_test", "atomic",
    <<lookup("elem1"), if_null("elem1", <<>>), lookup("elem2"), if_null("elem2", <<>>),
      res_lock("elem1", "", <<>>, <<return>>),
      res_lock("elem2", "", <<res_unlock("elem2", ""), res_unlock("elem1", ""), return>>, <<>>),
      res_unlock("elem1", "")>>, "")
res_spin_lock_test_AB == prog("res_spin_lock_test_AB", "atomic",
    <<res_lock("A", "", <<>>, <<return>>),
      res_lock("B", "", <<res_unlock("B", "")>>, <<>>), res_unlock("A", "")>>, "")
res_spin_lock_test_BA == prog("res_spin_lock_test_BA", "atomic",
    <<res_lock("B", "", <<>>, <<return>>),
      res_lock("A", "", <<res_unlock("A", "")>>, <<>>), res_unlock("B", "")>>, "")

elem == <<lookup("elem"), if_null("elem", <<>>)>>
res_deadlocks == {
    prog("res_spin_lock_AA", "atomic",
         elem \o <<res_lock("elem", "", <<>>, <<>>), res_lock("elem", "", <<>>, <<>>)>>, Deadlock),
    prog("res_spin_lock_cond_AA", "atomic",
         elem \o <<res_lock("elem", "", <<>>, <<return>>), res_lock("elem", "", <<>>, <<>>)>>, Deadlock),
    prog("res_spin_lock_mismatch_1", "atomic",
         elem \o <<res_lock("elem", "", <<>>, <<return>>), res_unlock("lock", "")>>, Different),
    prog("res_spin_lock_mismatch_2", "atomic",
         elem \o <<res_lock("lock", "", <<>>, <<return>>), res_unlock("elem", "")>>, Different),
    prog("res_spin_lock_irq_mismatch_1", "atomic",
         elem \o <<irq_save("f1"), res_lock("lock", "", <<>>, <<return>>), res_unlock("lock", "f1")>>, Different),
    prog("res_spin_lock_irq_mismatch_2", "atomic",
         elem \o <<res_lock("lock", "f1", <<>>, <<return>>), res_unlock("lock", "")>>, Different)}
res_orders == {
    prog("res_spin_lock_ooo", "atomic",
         elem \o <<res_lock("lock", "", <<>>, <<return>>),
                   res_lock("elem", "", <<>>, <<res_unlock("lock", ""), return>>),
                   res_unlock("elem", ""), res_unlock("lock", "")>>, ""),
    prog("res_spin_lock_ooo_irq", "atomic",
         elem \o <<res_lock("lock", "f1", <<>>, <<return>>),
                   res_lock("elem", "f2", <<>>, <<res_unlock("lock", "f1"), return>>),
                   res_unlock("elem", "f2"), res_unlock("lock", "f1")>>, ""),
    prog("res_spin_lock_ooo_unlock", "atomic",
         <<res_lock("lock1", "", <<>>, <<return>>),
           res_lock("lock2", "", <<>>, <<res_unlock("lock1", ""), return>>),
           res_unlock("lock1", ""), res_unlock("lock2", "")>>, UnlockOrder)}

Irq == irq_bad_args \cup irq_missing \cup irq_missing_subprog \cup irq_balanced \cup irq_sleeps \cup irq_order
       \cup irq_slots \cup irq_refs_array \cup irq_globals \cup irq_locks
Preempt == preempt_missing \cup preempt_missing_subprog \cup preempt_balanced \cup preempt_sleeps \cup preempt_globals
ResLocks == {res_spin_lock_test, res_spin_lock_test_AB, res_spin_lock_test_BA}
ResLocksFail == res_deadlocks \cup res_orders
=============================================================================
