CONSTANTS
    None = None
    c1 = c1
    s1 = s1
    s2 = s2
    Callers = {c1}
    Sockets = {s1, s2}
    MaxReconnect = 1
    MayClose = TRUE
    MayStop = FALSE
SPECIFICATION Spec
INVARIANT ConnectedHasSocket
CHECK_DEADLOCK FALSE
