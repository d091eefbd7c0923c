CONSTANTS
    noval = noval
    marker = marker
    k1 = k1
    p1 = p1
    p2 = p2
    None = noval
    Marker = marker
    Key = {k1}
    Proc = {p1}
    Event <- OneEvent
    Repo <- Contexts
    MaxRetry = 2
    FetchLimit = 2
    MaxSynced = 1
    MaxPending = 2
    MaxUnuploadable = 1
    MaxExhausted = 1
    MaxRows = 2
    MaxClock = 1
SPECIFICATION ClientSpec
INVARIANTS
    NoDuplicateInWindow
CHECK_DEADLOCK FALSE
