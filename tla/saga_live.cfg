SPECIFICATION LiveSpec
CONSTANTS
    Users = {u1}
    Sweeper = sweeper
    Formats <- DoubleAndGroup
    MaxRetries = 1
    MaxSagas = 4
    MaxReviews = 1
    MaxResults = 1
    Serial = TRUE
    AllowReject = FALSE
    MaxRequests = 3
    MaxErrors = 2
    MaxCrashes = 1
CHECK_DEADLOCK FALSE
INVARIANTS
    StatsOncePerResult
PROPERTIES
    SagaSettles
