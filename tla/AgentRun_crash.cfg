CONSTANTS
    None = None
    r1 = r1
    Runs = {r1}
    MaxEvents = 1
    MaxWire = 2
    MaxLosses = 0
    QueueSize = 4
    Approvals = FALSE
    Interactive = FALSE
    MayTimeout = FALSE
    Retries = TRUE
SPECIFICATION Spec
INVARIANT ReaderSurvives
CHECK_DEADLOCK FALSE
