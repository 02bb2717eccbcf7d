SPECIFICATION Spec
CONSTANTS
    Keys = {k1}
    Threads = {t1, t2, t3}
    MinimumRequests = 2
    RatioNum = 1
    RatioDen = 2
    MaxHalfOpenRequests = 2
    MaxGeneration = 6
    MaxCount = 4
    StatusCodes = {200, 429, 503}
    RetryableStatusCodes = {503}
CHECK_DEADLOCK FALSE
INVARIANTS
    CountsExact
    GaugeShowsState
PROPERTIES
    TripsInTime
    ImplementsContract
    TrialEnds
