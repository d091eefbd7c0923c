CONSTANTS
    none = none
    v1 = v1
    v2 = v2
    s1 = s1
    p1 = p1
    p2 = p2
    None = none
    Value = {v1, v2}
    Proc = {p1, p2}
    Rollup <- TwoRollups
    Sub = {s1}
    MaxItems = 2
    MaxRetry = 2
    Ttl = 0
    MaxRows = 2
    MaxWeight = 3
    MaxTime = 1
    MaxChanges = 3
    MaxFails = 3
    MaxCrashes = 1
SPECIFICATION SyncSpec
SYMMETRY ProcSymmetry
INVARIANTS
    CleanIsCurrent
    SubscriptionIsPending
PROPERTIES
    ImplementsUsageDelivery
CHECK_DEADLOCK FALSE
