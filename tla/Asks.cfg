SPECIFICATION FairSpec
CHECK_DEADLOCK FALSE
CONSTANTS
    Answers = {yes, no}
    Default = default
    NoAnswer = none
    MaxAsks = 3
    MaxCrashes = 2
    MaxAttempts = 2
INVARIANTS
    NoLostAnswer
    UsedIsOnRecord
PROPERTIES
    Settled
    WaitEnds
