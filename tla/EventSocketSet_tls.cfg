SPECIFICATION Spec
CONSTANTS
    s1 = s1
    s2 = s2
    l1 = l1
    d1 = d1
    Streams = {s1}
    Listeners = {}
    Datagrams = {}
    Tls = {s1}
    Reuse = FALSE
    Threads = FALSE
    CanDestroy = FALSE
    MaxTokens = 2
    MaxOps = 4
PROPERTIES
    ClosesWhatItWatched
