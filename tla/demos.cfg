SPECIFICATION FairSpec
CONSTANTS
    Users = {"u1", "u2"}
    Scenarios <- MCScenarios
    DcMatches = {"m1", "m2"}
    DcTournamentOf <- MCDcTournamentOf
    DcTeamOf <- MCDcTeamOf
    DcSides <- MCDcSides
    MaxEvidence = 2
    DpPlayers = {"p1", "p2"}
    DpEnrichers = {"b1", "b2"}
    DpPoller = "poller"
    MAX_RETRIES = 2
    DEMO_MAX_RETRIES = 2
    MaxAuthCodes = 2
    PrMatches = {"m1", "m2"}
    PrPlayers = {"a", "b", "x"}
    PrDemos <- MCPrDemos
    DvFilm <- MCDvFilm
    DvPool = {"m", "n"}
    DvOverCap = {{"a", "x"}}
    PrRatings = {1400, 1600}
    MaxRatings = 2
INVARIANTS
    EvidenceIsSound
    PipelineTellsTruth
    RecordsFollowGames
PROPERTIES
    StepsKeepTheRecord
    DemosMoveOn
CHECK_DEADLOCK FALSE
