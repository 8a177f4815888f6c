SPECIFICATION Spec
CONSTANTS
    Names <- OneName
    Skel <- WithSkeleton
    Unused <- Nobody
    NoName <- None
    MaxRuns = 2
    MaxTests = 0
    MaxInterrupts = 1
    MaxKills = 0
    MaxFaults = 0
    MaxGuards = 0
    MaxEdits = 0
INVARIANTS
    PristineKept
CHECK_DEADLOCK FALSE
