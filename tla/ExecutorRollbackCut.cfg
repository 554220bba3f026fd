SPECIFICATION Spec
CONSTANTS
    a = a
    d = d
    v1 = v1
    v2 = v2
    NoExec = NoExec
    Execs = {a}
    Mixes <- OneApply
    VMs = {v1}
    Refusable = {v1}
    MaxFaults = 0
    MaxCrashes = 1
CHECK_DEADLOCK FALSE
INVARIANT NoUnregisteredLeft
