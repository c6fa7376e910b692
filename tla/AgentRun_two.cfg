CONSTANTS
    None = None
    r1 = r1
    r2 = r2
    Runs = {r1, r2}
    MaxEvents = 2
    MaxWire = 2
    MaxLosses = 1
    QueueSize = 2
    Approvals = TRUE
    Interactive = TRUE
    MayTimeout = TRUE
    Retries = TRUE
SPECIFICATION Spec
SYMMETRY Symmetry
INVARIANT TypeOK
INVARIANT InOrder
INVARIANT NothingLostMidRun
INVARIANT NoLeftovers
INVARIANT FinalFromGateway
PROPERTY KeepsPromise
CHECK_DEADLOCK FALSE
