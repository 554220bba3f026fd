SPECIFICATION OwnSpec
CONSTANTS
    w1 = w1
    w2 = w2
    p1 = p1
    p2 = p2
    Workers = {w1, w2}
    Projects = {p1, p2}
    NoProject = NoProject
    SymlinksOk = {TRUE, FALSE}
    MaxFaults = 2
    MaxCrashes = 2
SYMMETRY Symmetry
INVARIANTS TypeOK ModuleIntact LinkedIsUsable UndisturbedIsUsable OwnTfvars
