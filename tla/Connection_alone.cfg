CONSTANTS
    None = None
    c1 = c1
    s1 = s1
    s2 = s2
    s3 = s3
    Callers = {c1}
    Sockets = {s1, s2, s3}
    MaxReconnect = 2
    MayClose = FALSE
    MayStop = FALSE
SPECIFICATION FairSpec
INVARIANT NoHalfOpenSocket
INVARIANT ConnectedHasSocket
PROPERTY InterruptedRunsEnd
PROPERTY WaitsEnd
