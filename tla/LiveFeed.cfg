SPECIFICATION FeedFairSpec
CONSTANTS
    NumEvents = 4
    QueueSize = 2
    ReplayLimit = 2
    MaxLosses = 1
CHECK_DEADLOCK FALSE
INVARIANTS
    NoOtherGap
    OverflowTold
PROPERTIES
    AccessEnds
