SPECIFICATION FairSpec
CONSTANTS
    Users = {u1}
    Sweeper = sweeper
    ClaimIds = {c1, c2}
    DisputeIds = {d1, d2}
    None = None
    Features <- Routed
    Serial = TRUE
    MaxRequests = 4
    MaxFaults = 1
CHECK_DEADLOCK FALSE
INVARIANTS
    NothingIsOpenTwice
    CompletedHasWinner
PROPERTIES
    PendingClaimSettles
