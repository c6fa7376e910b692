CONSTANTS
    None = None
    c1 = c1
    c2 = c2
    s1 = s1
    s2 = s2
    Callers = {c1, c2}
    Sockets = {s1, s2}
    MaxReconnect = 1
    MayClose = FALSE
    MayStop = FALSE
SPECIFICATION FairSpec
PROPERTY InterruptedRunsEnd
CHECK_DEADLOCK FALSE
