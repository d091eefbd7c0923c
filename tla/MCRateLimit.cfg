CONSTANTS
    noval = noval
    marker = marker
    k1 = k1
    h1 = h1
    h2 = h2
    None = noval
    Marker = marker
    Key = {k1}
    Event <- Events
    Repo <- Repos
    MaxRetry = 5
    FetchLimit = 200
    MaxSynced = 10000
    MaxPending = 1000
    MaxUnuploadable = 250
    MaxExhausted = 100
    Handler = {h1, h2}
    Suspicious <- NoEvents
    Whitelist = {"r1"}
    EnforceWhitelist = FALSE
    RateLimit = 1
    Hour = 1
    RawWindow = 1
    MaxRawRows = 1
    MaxBatch = 1
    Edit <- GoodEdits
    Fault <- NoFaults
    MaxFaults = 0
    MaxNow = 0
SPECIFICATION IngestSpec
SYMMETRY HandlerSymmetry
INVARIANTS
    RateLimitHolds
