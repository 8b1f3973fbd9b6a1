SPECIFICATION Spec
CONSTANTS
    None = None
    a1 = a1
    a2 = a2
    Attempts <- MCAttempts
    Descriptors <- MCDescriptors
    Configs <- MCConfigs
    Profiles <- MCProfiles
    Answers <- MCAnswers
    Capacity = 1
    MaxHeaders = 1
    SessionIds <- MCSessionIds
    MaxSessions = 2
    MaxAttempts = 3
INVARIANT RouteRespected
INVARIANT SessionsWellUsed
INVARIANT TunnelHeadConsumed
PROPERTY AttemptEnds
CHECK_DEADLOCK FALSE
