SPECIFICATION FairSpec
CONSTANTS
    s1 = s1
    s2 = s2
    Sockets = {s1, s2}
    TicksPerMs = 3
    Timeouts <- PollTimeouts
    Grace = {1, 2}
INVARIANTS
    NeverOversleeps
PROPERTIES
    ReturnsForAReason
    NoBusyLoop
    DeadlineServed
