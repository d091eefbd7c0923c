CONSTANTS
    noval = noval
    marker = marker
    k1 = k1
    p1 = p1
    p2 = p2
    p3 = p3
    None = noval
    Marker = marker
    Key = {k1}
    Proc = {p1, p2}
    Event <- TwoEvents
    Repo <- MoreContexts
    MaxRetry = 2
    FetchLimit = 2
    MaxSynced = 1
    MaxPending = 2
    MaxUnuploadable = 1
    MaxExhausted = 1
    MaxRows = 4
    MaxClock = 2
SPECIFICATION Spec
SYMMETRY ProcSymmetry
INVARIANTS
    ClientTypeOK
    UploadableIsIntact
    UploadsOriginalText
    HeldIdIsSameRecord
    SignaturesUnique
    RetryIsBounded
    RacingPrunesAreBounded
PROPERTIES
    RepositoryIsStable
    PruneKeepsRows
CHECK_DEADLOCK FALSE
