------------------------------ MODULE MCBpfRun ------------------------------
EXTENDS BpfRun, ProgsSections, ProgsKfuncs, ProgsCpumask, ProgsGraph, ProgsLists, ProgsTracking, ProgsUnwind, ProgsDynptr, ProgsDynptrUse, ProgsWalks

Corpus == {Irq, Preempt, ResLocks, ResLocksFail, Tasks, TasksFail, Cgroups, CgroupsFail, Cpumasks, SharedCpumasks,
           CpumasksFail,
           Trees, TreesFail, Counted, CountedLists, CountedFail, GlobalLists, MapLists, Peeks, Searches,
           Tracking, SpinLocks, SpinTests, SpinFails, Iters, Throws,
           DynptrsFail, DynptrUses, DynptrSizes, DynptrCopies, DynptrMemsets, DynptrProbes, DynptrUserCopies,
           TaskWalks, CssWalks, CssTaskWalks, WalksFail, Arguments}
FindAnObject == {Tasks, TasksFail, Cgroups, CgroupsFail, Tracking, CssWalks, CssTaskWalks, WalksFail}
AnyCpu == Permutations(Cpus)
=============================================================================
