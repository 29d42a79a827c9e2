SPECIFICATION SslFairSpec
CONSTANTS
    MaxFds = 3
    MaxSettings = 1
PROPERTY AcceptReturns
CHECK_DEADLOCK FALSE
