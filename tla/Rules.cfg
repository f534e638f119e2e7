SPECIFICATION FairSpec
CONSTANTS
    r1 = r1
    r2 = r2
    moved = moved
    filled = filled
    RuleIds = {r1, r2}
    Kinds = {moved, filled}
    On <- PingPongOn
    Does <- PingPongDoes
    AiStep = {r1, r2}
    Workers = {w1, w2}
    MaxDepth = 2
    MaxActions = 4
    Batch = 2
    MaxPeople = 1
    MaxFaults = 1
CHECK_DEADLOCK FALSE
INVARIANTS
    RunsExact
    StepOnce
PROPERTIES
    ComesToRest
