SPECIFICATION TreeFairSpec
CONSTANTS
    NoChild = NoChild
    Children = {c1, c2}
    Cap = 1
    MaxCrashes = 1
    MaxAttempts = 1
VIEW Family
INVARIANTS
    NoLostWake
    CapHolds
    GatherSound
    CancelTakesAll
PROPERTIES
    WaitEnds
CHECK_DEADLOCK FALSE
