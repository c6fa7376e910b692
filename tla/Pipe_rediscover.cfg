CONSTANTS
    None = None
    Requests = {p1, p2}
    Eager = eager
    Settings = {g1}
    Models = {default, coder}
    Default = default
    AutoList = auto
    AgentLists = {auto}
    MaxEdits = 0
SPECIFICATION Spec
PROPERTY LazyDiscovery
CHECK_DEADLOCK FALSE
