SPECIFICATION FairSpec
CONSTANTS
    Cases <- SmallCases
    MaxCrashes = 1
INVARIANTS
    DrawIsSound
    SeatsAreSound
PROPERTIES
    ImplementsTree
    ChampionEmerges
CHECK_DEADLOCK FALSE
