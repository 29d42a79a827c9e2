SPECIFICATION Spec
CONSTANTS
    p1 = p1
    p2 = p2
    p3 = p3
    Peers = {p1, p2, p3}
    PerTurn = 2
    HandlersListen = FALSE
    Broadcasts = FALSE
    MaxOps = 8
    MaxDepth = 4
PROPERTY CloseAllComplete
CHECK_DEADLOCK FALSE
