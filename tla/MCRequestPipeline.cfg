SPECIFICATION FairSpec
CONSTANTS
    r1 = r1
    r2 = r2
    Requests <- TwoRequests
INVARIANTS
    TypeOK
    InFlightExact
    LogTellsTruth
    CountTellsWire
    OnlyAdmitted
    PanicContained
PROPERTY
    DrainCompletes
