SPECIFICATION Spec
CONSTANTS
    Users = {u1, u2}
    Sweeper = sweeper
    VetoRequired = TRUE
    AdminTargets <- AnyStatusButScheduled
    AdminDoubleForfeit = TRUE
    AllowRematch = TRUE
    Serial = FALSE
    MaxRequests = 3
    MaxFaults = 1
CHECK_DEADLOCK FALSE
INVARIANTS
    RowIsCoherent
SYMMETRY UserSymmetry
