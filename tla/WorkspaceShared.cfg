SPECIFICATION Spec
CONSTANTS
    w1 = w1
    w2 = w2
    p1 = p1
    p2 = p2
    Workers = {w1, w2}
    Projects = {p1}
    NoProject = NoProject
    SymlinksOk = {TRUE}
    MaxFaults = 0
    MaxCrashes = 0
INVARIANT PreparedIsUsable
