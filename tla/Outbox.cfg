SPECIFICATION FairSpec
CHECK_DEADLOCK FALSE
CONSTANTS
    N = 2
    GapWait = 3
    MaxOpen = 2
    MaxPass = 1
    Batch = 1
    Workers = {w1, w2}
    MaxBatches = 2
    MaxFaults = 1
INVARIANTS
    PublishedOnce
    ExactlyOnce
PROPERTIES
    TabsHear
    CatchesUp
