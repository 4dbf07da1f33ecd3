CONSTANTS
    None = None
    Nodes = {1, 2}
    Times = {1, 2}
    MaxCalls = 2
SPECIFICATION ThreeCalls
CHECK_DEADLOCK FALSE
INVARIANTS
    TypeOK
    ActiveSuccessBacked
    SessionHasPeer
PROPERTIES
    KeepSameConnection
    ConnectSucceeds
    SplitHeals
    AttemptsSettle
