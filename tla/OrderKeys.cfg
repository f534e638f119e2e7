SPECIFICATION Spec
CONSTANTS
    r1 = r1
    r2 = r2
    Items = {1, 2, 3}
    Sections = {1, 2}
    Starts <- SomeStarts
    Requests = {r1, r2}
    Base = 3
    Jitter = 1
    MaxLength = 4
    Closing = {1}
    MaxMoves = 2
    MaxDead = 1
VIEW Told
SYMMETRY Symmetry
CHECK_DEADLOCK FALSE
INVARIANTS
    KeysSound
PROPERTIES
    KeepsPlace
    UndoRestores
