SPECIFICATION Spec
CONSTANTS
    t1 = t1
    t2 = t2
    a1 = a1
    a2 = a2
    Tasks = {t1, t2}
    Actions = {a1, a2}
    Does <- TwoActions
    Requests = {r1, r2}
    MaxEdits = 1
SYMMETRY Symmetry
INVARIANTS
    AppliedAsDecided
    OnceAndWhole
CHECK_DEADLOCK FALSE
