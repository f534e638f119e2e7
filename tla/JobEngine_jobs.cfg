SPECIFICATION FairSpec
CONSTANTS
    j1 = j1
    j2 = j2
    p1 = p1
    p2 = p2
    task1 = task1
    NoSlot = NoSlot
    NoJob = NoJob
    Jobs = {j1}
    Passes = {p1, p2}
    NumSteps = 2
    Sleeps <- OneSleep
    SlotOf <- SharedSlot
    ClaimLimit = 2
    MaxCrashes = 2
    MaxAttempts = 2
VIEW Visible
INVARIANTS
    StepsRunOnce
    ReplayIsCurrent
    TickNeverConflicts
PROPERTIES
    KeepsPromise
    RunsEnd

