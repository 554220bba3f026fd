SPECIFICATION Spec
CONSTANTS
    p1 = p1
    p2 = p2
    w1 = w1
    w2 = w2
    j1 = j1
    j2 = j2
    NoId = NoId
    Procs = {p1, p2}
    Workers = {w1, w2}
    Jobs = {j1}
    ProcOf <- TwoProcess
    InitialJobs <- NoJunk
    SlowJobs = {}
    Deletable = {}
    StallTicks = 1
    MaxLag = 0
    MaxFaults = 0
    MaxDowns = 1
CHECK_DEADLOCK FALSE
CONSTRAINT FewEntries
INVARIANT NoSilentLoss
