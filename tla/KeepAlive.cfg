CONSTANTS
    Configs <- SomeConfigs
    MaxDelay = 1
    MaxLag = 1
    MaxUnderWay = 1
    Traffic <- Requests
    Lookers = {"passive"}
SPECIFICATION Spec
INVARIANTS
    TypeOK
    DeadlineMeansCut
PROPERTIES
    InactiveCloseLosesNothing
    IdleIsClosed
    LossIsNoticed
CHECK_DEADLOCK FALSE
