SPECIFICATION Spec
CONSTANTS
    h1 = h1
    Hosts = {h1}
    Scopes = {0, 1}
    MaxFds = 4
    MaxOps = 3
INVARIANTS
    DescriptorsOwned
    PeersAreCurrent
    EndpointsAgree
PROPERTIES
    RebindAllOrNothing
CHECK_DEADLOCK FALSE
