CONSTANTS
    noval = noval
    marker = marker
    k1 = k1
    p1 = p1
    p2 = p2
    t1 = t1
    t2 = t2
    h1 = h1
    h2 = h2
    h3 = h3
    Handler = {h1, h2, h3}
    Batch <- ThreeWays
    Refused = {2}
    TooLong = {}
    RateLimit = 9
    MaxRetry = 4
    MaxFaults = 1
SPECIFICATION EventualSpec
INVARIANTS
    WaitsGoUp
PROPERTIES
    AcknowledgedIsStored
    EventuallySynced
    ValidIsStoredInJava
    RowFollowsHooks
CHECK_DEADLOCK FALSE
