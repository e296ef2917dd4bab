SPECIFICATION Spec
CONSTANTS
    Users = {u1, u2}
    Sweeper = sweeper
    ClaimIds = {c1, c2}
    DisputeIds = {d1}
    None = None
    Features <- Everything
    Serial = FALSE
    MaxRequests = 3
    MaxFaults = 1
CHECK_DEADLOCK FALSE
INVARIANTS
    SagaOncePerClaim
    DisputedHasOpenDispute
    ConfirmedByOpponent
PROPERTIES
    ClaimSettledOnce
SYMMETRY ClaimSymmetry
