SPECIFICATION FairSpec
CONSTANTS
    Sizes = {2, 4}
    BufferSize = 4
    MaxAddresses = 2
    MaxBytes = 3
    MaxConns = 1
    MaxOps = 1
INVARIANTS
    ReadsAreTheStream
    EofIsReal
    FailureExplained
    ModeRestored
    LineBoundary
PROPERTIES
    UntilReturns
CHECK_DEADLOCK FALSE
