CONSTANTS
    None = None
    c1 = c1
    c2 = c2
    p1 = p1
    p2 = p2
    Callers <- OneCaller
    Conns <- OneConn
    Times = {1}
    LocalIsLess = TRUE
SPECIFICATION Spec
PROPERTY EndedLeavesMap
CHECK_DEADLOCK FALSE
