SPECIFICATION Spec
CONSTANTS
    Uris <- MCUris
    Configs <- MCConfigs
    Requests <- MCRequests
    ReferrerHeaders <- MCReferrerHeaders
    MaxHops = 2
    MaxTokens = 2
    None = None
INVARIANT ScopedRetries
CHECK_DEADLOCK FALSE
