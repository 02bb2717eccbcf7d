SPECIFICATION Spec
CONSTANTS
    p1 = p1
    p2 = p2
    Providers <- MCProviders
    HasHealthPath <- MCHasHealthPath
    Ticker = ticker
    StatusCodes = {200, 404}
    RetryableStatusCodes = {503}
    Configurations <- OneOfTwo
    Answers <- ThreeAnswers
    Sweepers = {ticker}
    Requests = {r1}
INVARIANT TypeOK
PROPERTIES
    RecoveryNoticed
    OutageNoticed
