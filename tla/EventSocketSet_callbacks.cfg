SPECIFICATION FairSpec
CONSTANTS
    s1 = s1
    s2 = s2
    l1 = l1
    d1 = d1
    Streams = {s1, s2}
    Listeners = {l1}
    Datagrams = {d1}
    Tls = {s2}
    Reuse = TRUE
    Threads = TRUE
    CanDestroy = TRUE
    MaxTokens = 3
    MaxOps = 4
INVARIANTS
    RegistryConsistent
    NoUseAfterDestroy
PROPERTIES
    FanoutIsRegistered
    ActsOnWatched
    PollEnds
