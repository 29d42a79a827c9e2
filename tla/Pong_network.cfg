SPECIFICATION FairSpec
CONSTANTS
    c1 = c1
    o1 = o1
    o2 = o2
    NoOne = NoOne
    Clients = {c1}
    Others = {o1, o2}
    Width = 24
    Height = 12
    PaddleHeight = 3
    StartY = 4
    ViewWidth = 24
    ViewHeight = 12
    ViewTop = 9
    IdleTicks = 2
    MaxNet = 2
    MaxDups = 1
    MaxStops = 1
INVARIANTS
    SeatsDistinct
    SnapshotsParse
PROPERTIES
    GhostsExpire
    ClientFollows
