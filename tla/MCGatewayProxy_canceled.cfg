SPECIFICATION Spec
CONSTANTS
    p1 = p1
    p2 = p2
    p3 = p3
    Providers <- MCProviders
    MaxRetries <- MCMaxRetries
    DefaultMaxRetries = 0
    Adapter <- MCAdapter
    CandidateLists <- MCCandidateLists
    StatusCodes = {200, 401, 429, 501, 503}
    RetryableStatusCodes = {429, 500, 502, 503, 504}
INVARIANT CanceledMeansClientGone
