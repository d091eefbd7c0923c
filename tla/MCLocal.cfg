CONSTANTS
    p1 = p1
    p2 = p2
    p3 = p3
    q1 = q1
    q2 = q2
    q3 = q3
    t1 = t1
    t2 = t2
    url = url
    cred = cred
    nothing = nothing
    tornfile = tornfile
    Absent = Absent
    Broken = Broken
    Missing = Missing
    Null = Null
    Proc = {q1, q2}
    Tool = {t1, t2}
    Interval = 4
    MaxChanges = 2
    MaxBacks = 0
SPECIFICATION LocalSpec
SYMMETRY Symmetry
INVARIANTS
    HookedOnce
    OthersStay
    JournalIsSound
    ThrottleFollowsSuccess
PROPERTIES
    SavedStays
CHECK_DEADLOCK FALSE
