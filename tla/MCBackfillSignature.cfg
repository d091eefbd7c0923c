CONSTANTS
    noval = noval
    marker = marker
    k1 = k1
    p1 = p1
    p2 = p2
    h1 = h1
    h2 = h2
    None = noval
    Marker = marker
    Key = {k1}
    Event <- OneEdit
    Repo <- MayBackfill
    Suspicious <- NoEvents
    Whitelist = {}
    EnforceWhitelist = FALSE
    Fault = {}
    Proc = {p1}
    Handler = {h1, h2}
    MaxRetry = 2
    FetchLimit = 2
    MaxSynced = 1
    MaxPending = 2
    MaxUnuploadable = 1
    MaxExhausted = 1
    MaxRows = 2
    MaxClock = 0
    RateLimit = 3
    Hour = 9
    RawWindow = 9
    MaxRawRows = 1
    MaxBatch = 2
    MaxFaults = 0
    MaxOutages = 1
SPECIFICATION PipelineSpec
SYMMETRY HandlerSymmetry
INVARIANTS
    UploadsVerify
CHECK_DEADLOCK FALSE
