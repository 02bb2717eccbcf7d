SPECIFICATION Spec
CONSTANTS
    p1 = p1
    p2 = p2
    t1 = t1
    t2 = t2
    Candidates <- TwoCandidates
    Threads = {t1, t2}
    MaxHalfOpenRequests = 1
    Attempts = 1
    Changing = {p1}
    Probed = {p1}
    Casts <- MCCasts
    Poller = poller
PROPERTIES
    ReadinessMatchesRouting
    ReadyAgain
    RecoveryCompletes
