SPECIFICATION FairSpec
CONSTANTS
    p1 = p1
    p2 = p2
    w1 = w1
    w2 = w2
    j1 = j1
    j2 = j2
    NoId = NoId
    Procs = {p1}
    Workers = {w1, w2}
    Jobs = {j1}
    ProcOf <- OneProcess
    InitialJobs <- NoJunk
    SlowJobs = {j1}
    Deletable = {}
    StallTicks = 1
    MaxLag = 0
    MaxFaults = 1
    MaxDowns = 1
CHECK_DEADLOCK FALSE
PROPERTIES Concludes Leaves
