CONSTANTS
    f1 = f1
    f2 = f2
    p1 = p1
    p2 = p2
    p3 = p3
    None = None
    m1 = m1
    m2 = m2
    unknown = unknown
    Proc = {p1, p2}
    File = {f1}
    Stamped <- AnyLine
    InRepo = FALSE
    MaxWindow = 2
    MaxSeen = 1
    MaxRecords = 9
    MaxLines = 3
    MaxCaptures = 0
    MaxCrashes = 0
SPECIFICATION ScanSpec
SYMMETRY ProcSymmetry
INVARIANTS
    RollupIsSumOfSources
    SkippedIsCounted
    CompactionComesFirst
    EventsAreAccountedFor
    StampedEventIsRecordedOnce
    RolloutIsCounted
CHECK_DEADLOCK FALSE
