SPECIFICATION FairSpec
CONSTANTS
    Scripts <- Outputs
    MaxDetails = 5
    PipeSize = 2
    TokenSize = 2
    None = None
CHECK_DEADLOCK FALSE
INVARIANTS TypeOK NothingLost ReportedCode ReportIsReference BlocksAreShort ErrorsReported
PROPERTIES OnlyLongLinesHang EndsAtDeadline
