SPECIFICATION Spec
CONSTANTS
    j1 = j1
    j2 = j2
    p1 = p1
    p2 = p2
    task1 = task1
    NoSlot = NoSlot
    NoJob = NoJob
    Jobs = {j1, j2}
    Passes = {p1, p2}
    NumSteps = 1
    Sleeps = {}
    SlotOf <- SharedSlot
    ClaimLimit = 2
    MaxCrashes = 1
    MaxAttempts = 1
SYMMETRY Symmetry
VIEW Decisive
INVARIANTS
    SlotExclusive
PROPERTIES
    DecisionsStand
