CONSTANTS
    noval = noval
    marker = marker
    k1 = k1
    h1 = h1
    h2 = h2
    j1 = j1
    j2 = j2
    None = noval
    Marker = marker
    Key = {k1}
    Event <- Events
    Repo <- Repos
    MaxRetry = 5
    FetchLimit = 200
    MaxSynced = 10000
    MaxPending = 1000
    MaxUnuploadable = 250
    MaxExhausted = 100
    Handler = {h1, h2}
    Suspicious <- Flagged
    Whitelist = {"r1"}
    EnforceWhitelist = FALSE
    RateLimit = 1
    Hour = 0
    RawWindow = 0
    MaxRawRows = 1
    MaxBatch = 2
    Edit <- MixedEdits
    Fault <- AllFaults
    MaxFaults = 2
    MaxNow = 1
SPECIFICATION Spec
SYMMETRY HandlerSymmetry
INVARIANTS
    StoredOnce
    StoredIsSigned
    AcknowledgedIsStored
    OneVerdictEach
    RawTextIsBounded
    RatesAreBounded
PROPERTIES
    StoredIsFinal
