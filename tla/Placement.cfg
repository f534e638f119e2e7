SPECIFICATION PlaceSpec
CONSTANTS
    s1 = s1
    s2 = s2
    s3 = s3
    p1 = p1
    p2 = p2
    None = None
    NumTasks = 3
    Sections = {s1, s2, s3}
    Projects = {p1, p2}
    ProjectOf <- TwoProjects
    Existing = {s1, s3}
    Sessions = {r1, r2}
    MaxDepth = 3
    MaxRequests = 4
SYMMETRY Symmetry
CHECK_DEADLOCK FALSE
INVARIANTS
    InSight
    Homes
