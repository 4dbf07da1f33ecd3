CONSTANTS
    None = None
    c1 = c1
    c2 = c2
    p1 = p1
    p2 = p2
    Callers <- TwoCallers
    Conns <- TwoConns
    Times = {1}
    LocalIsLess = TRUE
SPECIFICATION AnyTwo
PROPERTY EveryCallReturns
CHECK_DEADLOCK FALSE
