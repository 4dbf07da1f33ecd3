CONSTANTS
    Nodes = {n1}
    MaxSessions = 1
    ExpectedConcurrentSessions = 1
    None = None
SPECIFICATION Spec
INVARIANTS
    EndedHasNoTimer
CHECK_DEADLOCK FALSE
