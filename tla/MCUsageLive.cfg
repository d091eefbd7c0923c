CONSTANTS
    none = none
    v1 = v1
    v2 = v2
    f1 = f1
    f2 = f2
    f3 = f3
    f4 = f4
    p1 = p1
    p2 = p2
    Proc = {p1}
    File = {f1, f2, f3, f4}
    Day = {1, 2, 3}
    Today0 = 1
    Content <- Various
    First <- Empty
    Upgraded = FALSE
    Explicit <- NoWindows
    Lookback = 2
    Retention = 1
    Position <- Walk
    MaxEntries = 4
    MaxCandidates = 2
    MaxFiles = 1
    MaxRollups = 9
    MaxSources = 9
    MaxCache = 3
    MaxWrites = 2
    MaxCrashes = 1
SPECIFICATION LiveSpec
PROPERTIES
    RollupsSettle
    EveryFileIsCounted
    EveryEventIsOffered
CHECK_DEADLOCK FALSE
