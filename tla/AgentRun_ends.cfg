CONSTANTS
    None = None
    r1 = r1
    r2 = r2
    Runs = {r1, r2}
    MaxEvents = 1
    MaxWire = 1
    MaxLosses = 2
    QueueSize = 2
    Approvals = TRUE
    Interactive = FALSE
    MayTimeout = FALSE
    Retries = TRUE
SPECIFICATION FairSpec
PROPERTY FinishedRunsEnd
PROPERTY GivenUpEnds
CHECK_DEADLOCK FALSE
