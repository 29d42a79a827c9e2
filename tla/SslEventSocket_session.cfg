SPECIFICATION FairSpec
CONSTANTS
    Server = FALSE
    Producers = {p1}
    Numbers = {3, 4}
    Sizes = {1, 2}
    Budget = 2
    MaxBytes = 3
    MaxConns = 2
    MaxOps = 1
INVARIANTS
    RetrySame
    DirectDoesNotOvertake
PROPERTIES
    NotifyIsLast
    StepsEnd
    QueuedOutputLeaves
CHECK_DEADLOCK FALSE
