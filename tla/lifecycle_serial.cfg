SPECIFICATION FairSpec
CONSTANTS
    Users = {u1}
    Sweeper = sweeper
    VetoRequired = FALSE
    AdminTargets <- AnyStatus
    AdminDoubleForfeit = FALSE
    AllowRematch = FALSE
    Serial = TRUE
    MaxRequests = 4
    MaxFaults = 1
CHECK_DEADLOCK FALSE
INVARIANTS
    LogExplainsStatus
    NoLostAdvance
PROPERTIES
    CheckInEnds
