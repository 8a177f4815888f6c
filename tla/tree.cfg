SPECIFICATION Spec
CONSTANTS
    Names <- TwoNames
    Skel <- WithSkeleton
    Unused <- NotTested
    NoName <- None
    MaxRuns = 2
    MaxTests = 1
    MaxInterrupts = 1
    MaxKills = 1
    MaxFaults = 1
    MaxGuards = 0
    MaxEdits = 0
INVARIANTS
    PassIsOfRust
    Restored
    BackupIsNotRust
CHECK_DEADLOCK FALSE
