CONSTANTS
    Nodes = {n1}
    MaxSessions = 2
    ExpectedConcurrentSessions = 1
    None = None
SPECIFICATION Spec
INVARIANTS
    TypeOK
    ReleasedOnce
    TimersFollowSessions
CHECK_DEADLOCK FALSE
PROPERTIES
    LiveIsTicked
    CallbackEnds
    ConnectorEnds
    CloseEndsAll
