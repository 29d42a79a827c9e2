SPECIFICATION FairSpec
CONSTANTS
    Producers = {p1, p2}
    Sizes = {0, 1, 2}
    Limits = {1, 3}
    DefaultLimit = 3
    CoalesceLimit = 2
    Budget = 3
    IntMax = 2
    MaxInterrupts = 1
    SizeMax = 7
    MaxBytes = 3
    MaxConns = 2
    MaxDepth = 1
INVARIANTS
    BytesWithinLimit
    QueueConsistent
    WireIsStream
    DrainExact
    ConnectionIsolation
PROPERTIES
    ImplementsStream
    OutputLeaves
