SPECIFICATION Spec
CONSTANTS
    Requests = {r1, r2}
    Keys = {k1}
    Conns = {c1, c2}
    H2Keys = {}
    ConfigH2 = FALSE
    AlpnH2 = {TRUE, FALSE}
    RetryCanceled = TRUE
    MaxIdlePerHost = 1
    MaxPoolSize = 1
    IdleTimeout = 1
PROPERTY
    CanceledCheckoutWaitsForConnect
