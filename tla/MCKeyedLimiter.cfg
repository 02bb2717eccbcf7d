SPECIFICATION Spec
CONSTANTS
    Keys = {k1}
    Threads = {t1, t2}
    Cost = 2
    TTL = 3
    CleanupInterval = 2
    GlobalLimits <- TwoLimits
    TokenLimit <- Unlimited
    MaxClock = 5
    MaxLag = 1
    MaxBuckets = 3
    MaxGranted = 3
SYMMETRY Symmetry
CHECK_DEADLOCK FALSE
INVARIANTS
    WindowBound
    KeyBound
    RetryAfterHonest
