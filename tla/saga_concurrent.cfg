SPECIFICATION Spec
CONSTANTS
    Users = {u1, u2}
    Sweeper = sweeper
    Formats <- DoubleAndGroup
    MaxRetries = 1
    MaxSagas = 3
    MaxReviews = 1
    MaxResults = 2
    Serial = FALSE
    AllowReject = TRUE
    MaxRequests = 2
    MaxErrors = 0
    MaxCrashes = 1
CHECK_DEADLOCK FALSE
INVARIANTS
    OneRunner
    FullMatchIsReady
PROPERTIES
    SagaAppliesItsResult
SYMMETRY HandlerSymmetry
