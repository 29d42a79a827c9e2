SPECIFICATION SslSpec
CONSTANTS
    MaxFds = 4
    MaxSettings = 3
INVARIANTS
    SessionOnOwnDescriptor
    UsableIsVerified
CHECK_DEADLOCK FALSE
