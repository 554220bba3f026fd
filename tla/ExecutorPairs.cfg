SPECIFICATION FairSpec
CONSTANTS
    a = a
    d = d
    v1 = v1
    v2 = v2
    NoExec = NoExec
    Execs = {a, d}
    Mixes <- Pairs
    VMs = {v1, v2}
    Refusable = {v2}
    MaxFaults = 1
    MaxCrashes = 1
CHECK_DEADLOCK FALSE
INVARIANTS TypeOK StatusIsLastCommand OkIsRegistered
PROPERTY Returns
