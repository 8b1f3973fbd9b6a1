SPECIFICATION ClientSpec
CONSTANTS
    None = None
    Threads = {r1, r2}
    Uris <- MCUris
    Names <- MCNames
    Responses <- MCResponses
    MaxCalls = 3
    MaxTime = 1
    Requests = {r1, r2}
    Keys = {k1, k2}
    Conns = {c1, c2, c3}
    H2Keys = {k1}
    ConfigH2 = FALSE
    AlpnH2 = {TRUE, FALSE}
    RetryCanceled = TRUE
    MaxIdlePerHost = 2
    MaxPoolSize = 1
    IdleTimeout = 1
    Followed = {"jar", "pool"}
SYMMETRY Symmetry
VIEW ClientState
INVARIANTS
    UniqueOwner
    BusyNotOffered
    SentIsAwaited
    NoIdleWhileWaiting
    PoolBounded
    LockHeldByOne
    NoStrandedCheckout
    ScopeRespected
    SnapshotFaithful
PROPERTIES
    SecureCookieKept
    SecureCookieNotShadowed
CHECK_DEADLOCK FALSE
