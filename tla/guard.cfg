SPECIFICATION Spec
CONSTANTS
    Names <- OneName
    Skel <- WithSkeleton
    Unused <- Nobody
    NoName <- None
    MaxRuns = 0
    MaxTests = 2
    MaxInterrupts = 1
    MaxKills = 1
    MaxFaults = 1
    MaxGuards = 3
    MaxEdits = 1
INVARIANTS
    TypeOK
    EquivIsOfC

    
CHECK_DEADLOCK FALSE
