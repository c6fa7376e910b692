CONSTANTS
    None = None
    Requests = {p1, p2}
    Eager = eager
    Settings = {g1, g2}
    Models = {default, coder}
    Default = default
    AutoList = auto
    AgentLists = {auto, {coder}}
    MaxEdits = 1
SPECIFICATION Spec
SYMMETRY Symmetry
INVARIANT TypeOK
INVARIANT OutcomeOnce
INVARIANT ClientsKept
INVARIANT KeepsItsSettings
INVARIANT StaticListEnforced
INVARIANT SelectorNeverEmpty
CHECK_DEADLOCK FALSE
