CONSTANTS
    Configs <- SomeConfigs
    MaxDelay = 1
    MaxLag = 1
    MaxUnderWay = 1
    Traffic <- Nothing
    Lookers = {"active"}
SPECIFICATION Spec
INVARIANTS
    DeadlineMeansCut
CHECK_DEADLOCK FALSE
