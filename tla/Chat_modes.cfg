CONSTANTS
    NoRequest = NoRequest
    a1 = a1
    a2 = a2
    Requests = {a1, a2}
    Modes = {"auto_approve", "auto_deny", "interactive", "render"}
    ApprovalTimeout = 1
    RequestTimeout = 2
    MaxEvents = 3
    QueueSize = 1
SPECIFICATION FairSpec
INVARIANT TypeOK
INVARIANT NeverGarbled
INVARIANT CompleteMeansComplete
INVARIANT OnlyConsented
INVARIANT NotesAreTrue
INVARIANT DeniedBeforeTimeout
PROPERTY RequestsAnswered
CHECK_DEADLOCK FALSE
