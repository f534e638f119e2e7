SPECIFICATION FairSpec
CONSTANTS
    Jobs = {j1, j2}
    MaxEvents = 2
    MaxTurns = 2
CHECK_DEADLOCK FALSE
INVARIANTS
    HeardWakes
PROPERTIES
    DecisionsStand
    WaitsEnd
