CONSTANTS
    None = None
    c1 = c1
    c2 = c2
    p1 = p1
    p2 = p2
    Callers <- TwoCallers
    Conns <- TwoConns
    Times = {1, 2}
    LocalIsLess = TRUE
SPECIFICATION AnyThree
SYMMETRY Symmetry
INVARIANTS
    TypeOK
    AtMostOneLive
    LiveReachable
    CloseLeavesNothing
    PassiveRecheckFindsNothing
    SettledAtEnd
    ConnOwned
CHECK_DEADLOCK FALSE
