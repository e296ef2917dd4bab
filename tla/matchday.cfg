SPECIFICATION Spec
CONSTANTS
    Users = {"u1", "u2"}
    Scenarios <- MCScenarios
    VetoSetups <- MCVetoSetups
    Sides = {"ct", "t"}
    Sockets = {"k1", "k2", "k3"}
    SocketRole <- MCSocketRole
    MaxLobbies = 3
    ChSockets = {"k1", "k2"}
    ChSides <- MCChSides
    ChUsers = {"cap", "rival", "staff", "fan"}
    ChSpeaks <- MCChSpeaks
    ChStaff = {"staff"}
    MAX_HISTORY = 2
    BROADCAST_CAPACITY = 2
    PugPlayers = {"a", "b"}
    PugCreator = "a"
    PugTeamSize = 1
    BENCH_SLOTS = 1
    MAX_ACTIVE_CREATED = 1
    MaxPugs = 2
    GsServers = {"s1"}
    GsMatches = {"m1", "m2"}
    MAX_LOAD_RETRIES = 2
    MaxReservations = 3
    SoRosters <- MCSoRosters
    SoSteam = {"a", "b", "x", "y"}
    SoSockets = 3
    MaxCerts = 2
    MaxSubs = 2
    MaxRounds = 2
    MaxSoRes = 2
    SdRoster <- MCSdRoster
    SdCaptains <- MCSdCaptains
    SdOwner <- MCSdOwner
    SdStaff = {"z"}
    SdTimes = {1, 2}
    MaxProposals = 3
    MaxDelegations = 2
    AvPlayer = "p"
    AvCallers = {"c1", "c3", "z"}
    AvTicks = 4
    AvTickMinutes = 30
    AvMinTicks = 2
    MaxAvRows = 3
INVARIANTS
    VetoIsFair
    LobbyIsSound
    PugIsSound
    ReservationsAreSound
    OperationsAreSound
    SidesUnderstandEachOther
CHECK_DEADLOCK FALSE
