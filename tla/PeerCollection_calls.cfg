SPECIFICATION FairSpec
CONSTANTS
    p1 = p1
    p2 = p2
    p3 = p3
    Peers = {p1, p2, p3}
    PerTurn = 1
    HandlersListen = TRUE
    Broadcasts = TRUE
    MaxOps = 5
    MaxDepth = 5
INVARIANTS
    OwnershipConsistent
PROPERTIES
    CloseAllComplete
    CallsReturn
CHECK_DEADLOCK FALSE
