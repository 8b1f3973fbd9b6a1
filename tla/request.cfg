SPECIFICATION RequestSpec
CONSTANTS
    Uris <- MCUris
    Configs <- MCConfigs
    Requests <- MCRequests
    ReferrerHeaders <- MCReferrerHeaders
    MaxHops = 2
    MaxTokens = 2
    None = None
    MaxAddrs = 4
    MaxParallel = 2
    Lists <- MCLists
INVARIANTS
    CredentialsStayHome
    PayloadMatchesBody
    ChainBounded
    RetriesBounded
    HeadInTime
    TriesAll
    ErrorIsEarliest
    SocketsBounded
PROPERTIES
    CallEnds
    HungAddressBypassed
    DeadlineEnds
CHECK_DEADLOCK FALSE
