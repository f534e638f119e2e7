SPECIFICATION Spec
CONSTANTS
    Tasks = {t1, t2, t3}
    Requests = {r1, r2}
    Titles = {x, y}
    Untitled = x
    MaxChanges = 2
SYMMETRY Symmetry
CHECK_DEADLOCK FALSE
INVARIANTS
    NoCycle
    OneOccurrence
PROPERTIES
    HandOffReaches
    UndoSound
