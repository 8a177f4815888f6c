SPECIFICATION FairSpec
CONSTANTS
    f1 = f1
    f2 = f2
    f3 = f3
    FlowId = {f1, f2, f3}
    Hash = {0, 1}
    PktLen = {2}
    Prio = Prio
    Absent = Absent
    Limit = 3
    FlowPlimit = 2
    Quantum = 1
    InitialQuantum = 2
    FlowRefillDelay = 0
    Horizon = 1
    HorizonDrop = TRUE
    GcAge = 0
    FQ_GC_MAX = 1
    NUM_QUEUE = 1
    U32 = 8
    MaxPkts = 3
    LastArrival = 2
    MaxResets = 1
    MaxAttach = 2
INVARIANTS TypeOK FlowQlenCountsPackets OnePlace AgeTellsPlace NoStrandedPacket QlenCountsPackets CountersCountFlows LooksInTime NeverSleepsOnWork CreditBounded HandedOutOnce
PROPERTIES NoSilentLoss Drains
CHECK_DEADLOCK FALSE
