SPECIFICATION Spec
CONSTANTS
    Users = {"u1", "u2"}
    Scenarios <- SwissScenario
    Entrants = {"e1", "e2", "e3", "e4"}
    Leagues = {"l1", "l2"}
    MinParticipants = 2
    WIN_POINTS = 3
    SpScores = {1}
    LtPlayers = {"a", "b", "c"}
    LtEligible = {"a", "b"}
    LtRating <- MCLtRating
    LtTeams = {"t1", "t2"}
    LtSeasons = {"s1", "s2", "s3"}
    LtLeagueOf <- MCLtLeagueOf
    team_size_max = 2
    max_substitutes = 1
    max_teams = 1
    LtLimits = {1, 2}
    MaxInvites = 2
    LgUsers = {"ann", "bob", "cat"}
    LgLeagues = {"l1", "l2"}
    LgData <- MCLgData
    LgRules <- MCLgRules
    MaxLgInvites = 2
    AcLocal = {"ann"}
    AcSteam = {"sue"}
    AcRoles = {"user", "crew", "platform_admin", "super_admin"}
    AcCallers = {"root", "chief"}
    MaxNames = 2
    AwCups = {"cup", "plate"}
    AwSeason = "season"
    AwMatchCup <- MCAwMatchCup
    AwDemos = {"d1", "d2"}
    AwPlayers <- MCAwPlayers
    AwTemplates <- MCAwTemplates
    AwCatalog = {"kills", "deaths", "rounds_played"}
    AwSheets <- MCAwSheets
    FINALIZE_CANDIDATE_LIMIT = 4
    MaxAwards = 2
    GmMaps = {"dust", "nuke", "cache"}
    GmPluginMaps <- MCGmPluginMaps
    GmCups = {"cup"}
    GmTierLists <- MCGmTierLists
    GmRatings = {0, 1, 2}
    MaxGmPools = 3
    SxNames = {"n1", "n2"}
    SxAdmins = {"n1", "n2"}
INVARIANTS SwissGoesOn
CHECK_DEADLOCK FALSE
