CONSTANTS
    noval = noval
    marker = marker
    k1 = k1
    p1 = p1
    p2 = p2
    h1 = h1
    h2 = h2
    None = noval
    Marker = marker
    Key = {k1}
    Event <- TwoEdits
    Repo <- MayDetach
    Suspicious <- NoEvents
    Whitelist = {}
    EnforceWhitelist = FALSE
    Fault = {"count", "save", "abort"}
    Proc = {p1, p2}
    Handler = {h1, h2}
    MaxRetry = 2
    FetchLimit = 2
    MaxSynced = 1
    MaxPending = 2
    MaxUnuploadable = 1
    MaxExhausted = 1
    MaxRows = 2
    MaxClock = 0
    RateLimit = 3
    Hour = 9
    RawWindow = 9
    MaxRawRows = 1
    MaxBatch = 2
    MaxFaults = 2
    MaxOutages = 2
SPECIFICATION Spec
SYMMETRY Symmetry
INVARIANTS
    SyncedIsStored
PROPERTIES
    ImplementsDelivery
CHECK_DEADLOCK FALSE
