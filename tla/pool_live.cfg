SPECIFICATION FairClientSpec
CONSTANTS
    None = None
    Threads = {r1, r2}
    Uris <- MCUris
    Names <- MCNames
    Responses <- MCResponses
    MaxCalls = 3
    MaxTime = 1
    Requests = {r1, r2}
    Keys = {k1}
    Conns = {c1, c2, c3}
    H2Keys = {}
    ConfigH2 = TRUE
    AlpnH2 = {TRUE}
    RetryCanceled = TRUE
    MaxIdlePerHost = 1
    MaxPoolSize = 1
    IdleTimeout = 1
    Followed = {"pool"}
PROPERTIES
    WaitEnds
    DeadIdleEvicted
