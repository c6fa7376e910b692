CONSTANTS
    None = None
    c1 = c1
    c2 = c2
    s1 = s1
    s2 = s2
    s3 = s3
    Callers = {c1, c2}
    Sockets = {s1, s2, s3}
    MaxReconnect = 2
    MayClose = TRUE
    MayStop = TRUE
SPECIFICATION Spec
SYMMETRY Symmetry
INVARIANT TypeOK
INVARIANT GaugeMatches
INVARIANT SingleReader
INVARIANT OneBuilder
PROPERTY OnlyLostRunsFail
CHECK_DEADLOCK FALSE
