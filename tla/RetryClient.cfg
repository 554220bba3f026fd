SPECIFICATION FairSpec
CONSTANTS
    Scripts <- ExecutionCalls
    N = 2
    MaxRetries = 3
    BaseDelay = 1000
    MaxDelay = 30000
    Jitters = {0, 99}
    RefusalCodes = {400, 499}
    FailureCodes = {500}
    MaxLate = 2
CHECK_DEADLOCK FALSE
INVARIANTS TypeOK ClearIsExact WaitsAsDocumented
PROPERTIES OnlyUnclearOvertakes RefusalEndsCall AtLeastOnce CallsReturn
