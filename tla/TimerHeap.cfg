CONSTANTS
    None = None
    MaxTimers = 2
    Delays = {1, 2}
    MaxTime = 3
SPECIFICATION Spec
INVARIANTS
    TypeOK
    SysTimerCovers
PROPERTIES
    DueTimersFire
    ImplementsTimerSystem
CHECK_DEADLOCK FALSE
