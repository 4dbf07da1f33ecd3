CONSTANTS
    None = None
    MaxTimers = 2
    Delays = {1, 2}
    MaxTime = 3
SPECIFICATION Spec
PROPERTY StopEndsLoop
CHECK_DEADLOCK FALSE
