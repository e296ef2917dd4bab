--------------------------- MODULE MCOrganisation ---------------------------
(***************************************************************************)
(* What surrounds a competition: entering and starting a tournament, the   *)
(* play of its Swiss and group stages, league teams, league membership     *)
(* with its entry rules, accounts, awards, the catalog of a game, and the  *)
(* seeded data of a development stack.  A scenario exercises one of them.  *)
(***************************************************************************)
EXTENDS TournamentEntry, StagePlay, LeagueTeams, Leagues, Accounts, Awards, GameCatalog,
        SeedData

Scenario(of, n, c, s, ops) ==
    [of |-> of, requests |-> n, crashes |-> c, serial |-> s, ops |-> ops]

EntryScenario(n, c, s, ops, kind, status, check_in_on, format, entered, max) ==
    Scenario("entry", n, c, s, ops) @@
        [kind |-> kind, status |-> status, check_in |-> check_in_on, format |-> format,
         entered |-> entered, max |-> max, advance |-> 2]
Two(a, b) == ("e1" :> a) @@ ("e2" :> b)
Three(a, b, c) == Two(a, b) @@ ("e3" :> c)
EntryOps == {"register", "approve", "withdraw", "invite", "check_in", "seed", "manual seed",
             "organise", "close", "cancel", "update", "move", "start"}
EntryScenarios ==
    {EntryScenario(3, 0, FALSE, {"register", "approve", "withdraw", "invite"}, "invite_only",
                   "registration", FALSE, "swiss", Three("pending", "approved", "none"), 2),
     EntryScenario(3, 0, FALSE, {"register", "approve", "withdraw"}, "open", "registration",
                   FALSE, "swiss", Three("approved", "approved", "withdrawn"), 2),
     EntryScenario(3, 1, FALSE, {"start", "cancel", "withdraw"}, "open", "registration",
                   FALSE, "double_elimination", Two("approved", "approved"), 2),
     EntryScenario(3, 1, TRUE, EntryOps, "approval", "draft", TRUE, "single_elimination",
                   Two("none", "none"), 2),
     EntryScenario(3, 0, TRUE, EntryOps, "invite_only", "registration", TRUE, "round_robin",
                   Two("checked_in", "pending"), 2),
     EntryScenario(4, 0, TRUE, EntryOps \ {"check_in", "manual seed", "organise", "invite"},
                   "open", "registration", FALSE, "swiss", Two("approved", "approved"), 2),
     EntryScenario(2, 1, TRUE, {"start", "withdraw", "organise", "update"}, "open", "scheduled",
                   FALSE, "groups_and_playoffs",
                   Three("approved", "checked_in", "approved") @@ ("e4" :> "approved"), 4),
     [EntryScenario(2, 1, TRUE, {"start"}, "open", "scheduled", FALSE, "groups_and_playoffs",
                    Three("approved", "approved", "approved") @@ ("e4" :> "approved"), 4)
        EXCEPT !.advance = 3]}

StageScenario(n, c, s, ops, format, size, groups, rounds, advance, playoff, entered) ==
    Scenario("stages", n, c, s, ops) @@
        [format |-> format, n |-> size, groups |-> groups, rounds |-> rounds,
         advance |-> advance, playoff |-> playoff, entered |-> entered, seeded |-> TRUE]
Swiss(n, c, s, ops, size, rounds, entered) ==
    StageScenario(n, c, s, ops, "swiss", size, 1, rounds, 0, "single", entered)
Groups(n, c, s, ops, advance, playoff) ==
    StageScenario(n, c, s, ops, "round_robin", 4, 2, 0, advance, playoff, "approved")
StageScenarios ==
    {Swiss(3, 0, FALSE, {"confirm", "next_round"}, 4, 3, "approved"),
     Groups(2, 0, FALSE, {"confirm", "edit", "forfeit"}, 1, "single"),
     Swiss(8, 0, TRUE, {"confirm", "next_round"}, 4, 3, "approved"),
     Swiss(6, 0, TRUE, {"confirm", "next_round", "leave"}, 5, 3, "approved"),
     Swiss(3, 1, TRUE, {"confirm", "next_round", "repair", "cancel"}, 3, 3, "approved"),
     Groups(2, 0, TRUE, {"confirm"}, 2, "double"),
     Groups(3, 1, TRUE, {"confirm", "edit"}, 1, "single"),
     Groups(3, 0, TRUE, {"confirm", "repair"}, 1, "single"),
     Swiss(2, 0, FALSE, {"confirm", "next_round", "repair"}, 3, 3, "approved")}

\* A Swiss tournament whose participants checked in, planned for two rounds.
SwissScenario == {Swiss(4, 0, TRUE, {"confirm", "next_round"}, 4, 2, "checked_in")}

MCLtRating == [x \in LtPlayers |-> 2]
MCLtLeagueOf == [s \in LtSeasons |-> IF s = "s3" THEN "l2" ELSE "l1"]
TeamScenario(n, s, ops, status, lock, mates) ==
    Scenario("teams", n, 0, s, ops) @@
        [team |-> "t1", season |-> "s1", status |-> status, lock |-> lock, owner |-> "a",
         mates |-> mates, total_cap |-> 9]
OneCaptain == "a" :> "captain"
TwoCaptains == OneCaptain @@ ("b" :> "captain")
CaptainAndSub == OneCaptain @@ ("b" :> "substitute")
TeamScenarios ==
    {TeamScenario(2, FALSE, {"create", "register", "add"}, "registration", "open", OneCaptain),
     TeamScenario(3, FALSE, {"transfer", "archive", "add", "promote"}, "registration", "open",
                  CaptainAndSub),
     TeamScenario(2, FALSE, {"move", "create", "disband"}, "registration", "open", OneCaptain),
     TeamScenario(3, TRUE, {"create", "archive", "disband"}, "registration", "open", OneCaptain),
     TeamScenario(3, TRUE, {"invite", "accept", "refuse", "expire", "leave_league"},
                  "registration", "open", OneCaptain),
     TeamScenario(3, TRUE, {"promote", "demote", "leave", "remove"}, "registration", "open",
                  TwoCaptains),
     TeamScenario(2, TRUE, {"season", "archive", "add"}, "active", "open", TwoCaptains),
     TeamScenario(3, TRUE, {"override", "add", "remove", "promote"}, "active", "hard_lock",
                  CaptainAndSub),
     TeamScenario(2, TRUE, {"override", "season", "remove"}, "playoffs", "soft_lock",
                  CaptainAndSub),
     [TeamScenario(3, TRUE, {"limits", "create", "add"}, "registration", "open", OneCaptain)
        EXCEPT !.total_cap = 3],
     TeamScenario(3, TRUE, {"archive", "register"}, "registration", "open", OneCaptain),
     TeamScenario(2, TRUE, {"cup", "disband", "archive", "move", "create", "season_archive"},
                  "registration", "open", TwoCaptains)}

Rule(axis, bound) == [Unrestricted EXCEPT ![axis] = bound]
MCLgRules ==
    {Rule("allowed_rank_tiers", {"gold"}), Rule("allowed_rank_tiers", {"silver", "unranked"}),
     Rule("max_team_total_rating", {3100}), Rule("min_team_total_rating", {3100}),
     Rule("min_team_total_rating", {4600}),
     [Rule("max_team_average_rating", {1550}) EXCEPT !["min_rating_per_player"] = {1500}]}
MCLgData ==
    "ann" :> [rating |-> 1600, peak |-> 1700, matches |-> 3, tier |-> "gold", avg |-> {1600}]
    @@ "bob" :> [rating |-> 1500, peak |-> 1500, matches |-> 1, tier |-> "silver", avg |-> {}]
    @@ "cat" :> NoProfile
LeagueScenario(n, c, s, ops, access, members) ==
    Scenario("leagues", n, c, s, ops) @@
        [league |-> "l1", access |-> access, members |-> members, staff |-> {"ann"}]
Ann == "ann" :> "admin"
LeagueScenarios ==
    {LeagueScenario(3, 0, FALSE, {"join", "invite", "accept"}, "open", Ann),
     LeagueScenario(3, 0, FALSE, {"apply", "approve", "accept"}, "application", Ann),
     LeagueScenario(3, 1, TRUE, {"create", "join", "leave", "manage", "archive"}, "open",
                    Ann @@ ("bob" :> "admin")),
     LeagueScenario(4, 0, TRUE, {"invite", "accept", "archive"}, "invite_only", Ann),
     LeagueScenario(4, 0, TRUE, {"apply", "approve", "update"}, "application", Ann),
     LeagueScenario(4, 0, TRUE, {"create", "apply", "approve"}, "application", Ann),
     LeagueScenario(4, 0, TRUE, {"update", "cup"}, "invite_only", Ann)}

AccountScenario(n, c, s, ops, people, callers) ==
    Scenario("accounts", n, c, s, ops) @@ [people |-> people, callers |-> callers]
NoCallers == << >>
Staff == ("root" :> "super_admin") @@ ("chief" :> "platform_admin")
AccountScenarios ==
    {AccountScenario(3, 1, FALSE, {"register", "steam", "profile"}, {}, NoCallers),
     AccountScenario(4, 0, FALSE, {"refresh", "logout", "login"}, {"ann"}, NoCallers),
     AccountScenario(2, 0, FALSE, {"assign", "revoke", "role", "permission"}, {}, Staff),
     AccountScenario(3, 0, FALSE, {"assign", "role"}, {}, "root" :> "super_admin"),
     AccountScenario(3, 1, TRUE, {"register", "steam", "profile", "login"}, {}, NoCallers),
     AccountScenario(3, 1, TRUE, {"ban", "lift", "refresh", "login", "ban ends"}, {"ann"}, NoCallers),
     AccountScenario(3, 0, TRUE, {"ban", "lift", "user ban", "user unban", "ban ends"}, {"ann"},
                     NoCallers),
     AccountScenario(3, 0, TRUE, {"create user", "disable", "enable", "ban create", "ban lift"},
                     {}, NoCallers),
     AccountScenario(2, 0, TRUE, {"cli role"}, {"ann"}, NoCallers),
     AccountScenario(2, 0, TRUE, {"assign", "revoke", "role", "permission"}, {"ann"}, Staff)}

AwardScenario(n, c, s, ops, scopes, awards, shapes, links) ==
    Scenario("awards", n, c, s, ops) @@
        [scopes |-> scopes, names |-> {"n1", "n2"}, awards |-> awards, shapes |-> shapes, links |-> links,
         demos |-> {l[1] : l \in links}]
MCAwMatchCup == ("m1" :> "cup") @@ ("m2" :> "cup") @@ ("m3" :> "plate")
Shape(stat, agg, dir, type, value) ==
    [stat_key |-> stat, weapon |-> stat = "kills.weapon.mag7", aggregation |-> agg, direction |-> dir,
     min |-> [type |-> type, value |-> value]]
MCAwPlayers == <<"ann", "bob", "cat", "dan", "eve">>
MCAwTemplates == "mvp" :> Shape("kills", "sum", "desc", "none", 0)
CustomShapes == {Shape("kills", "avg_per_demo", "desc", "matches", 1), Shape("kills.weapon.mag7", "sum", "desc", "none", 0),
    Shape("deaths", "max_single_demo", "asc", "rounds", 20), Shape("flashes", "sum", "desc", "none", 0)}
Fact(steam, stat, value) == [steam |-> steam, stat |-> stat, value |-> value]
MCAwSheets ==
    {<<Fact("ann", "kills", 2), Fact("bob", "kills", 2), Fact("cat", "kills", 1), Fact("dan", "kills", 1), Fact("ghost", "kills", 9)>>,
     <<Fact("ann", "kills", 5), Fact("ann", "kills", 1), Fact("cat", "kills", 3), Fact("bob", "kills", 1), Fact("eve", "kills", 1),
       Fact("ann", "deaths", 2), Fact("ann", "rounds_played", 10), Fact("bob", "deaths", 1), Fact("bob", "rounds_played", 20),
       Fact("cat", "kills.weapon.mag7", 1)>>}
OneAward == <<CreateAward("cup", "n1", MCAwTemplates["mvp"])>>
TwoAwards == OneAward \o <<CreateAward("cup", "n2", MCAwTemplates["mvp"])>>
AwardScenarios ==
  {AwardScenario(2, 0, TRUE, {"create", "finalize", "facts"}, {"cup", "season"}, << >>, CustomShapes, {<<"d1", "m1">>, <<"d2", "m2">>}),
   AwardScenario(3, 1, TRUE, {"void", "update", "finalize", "complete", "lock", "facts"}, {"cup"}, TwoAwards, {}, {<<"d1", "m1">>}),
   AwardScenario(1, 0, TRUE, {"facts", "link", "finalize", "update", "void"}, {},
                 <<CreateAward("plate", "n1", MCAwTemplates["mvp"]), CreateAward("season", "n1", MCAwTemplates["mvp"])>>, {}, {<<"d1", "m1">>, <<"d2", "m3">>}),
   AwardScenario(3, 0, FALSE, {"void", "update", "finalize", "complete", "lock"}, {"cup"}, OneAward, {}, {<<"d1", "m1">>}),
   AwardScenario(3, 0, FALSE, {"create", "update", "finalize", "facts"}, {"cup"}, OneAward, {}, {<<"d1", "m1">>})}

GameScenario(n, c, s, ops) == Scenario("games", n, c, s, ops)
MCGmPluginMaps == <<"dust", "nuke">>
MCGmTierLists ==
    {<<[min |-> a, max |-> x], [min |-> b, max |-> y]>> :
        a \in 0 .. 1, b \in 1 .. 2, x \in {{}, {1}, {2}}, y \in {{}, {1}, {2}}}
GameScenarios ==
  {GameScenario(2, 0, FALSE, {"catalog", "size", "status"}),
   GameScenario(3, 0, FALSE, {"create", "cup pool"}),
   GameScenario(2, 0, TRUE, {"tiers"}),
   GameScenario(4, 1, TRUE, {"catalog", "pool", "cup pool", "create"})}

SeedScenario(n, c, s, ops) == Scenario("seed", n, c, s, ops)
SeedScenarios ==
  {SeedScenario(4, 0, TRUE, {"seed", "reset", "proposal", "override", "own_cup", "cup_1"}),
   SeedScenario(4, 0, TRUE, {"seed", "reset", "open_cup", "guests", "season", "key"}),
   SeedScenario(4, 0, TRUE, {"seed", "reset", "squat", "pug", "invite", "guests_play", "clear"}),
   SeedScenario(3, 1, FALSE, {"bootstrap", "test users", "import"})}

MCScenarios == EntryScenarios \cup StageScenarios \cup TeamScenarios \cup LeagueScenarios
                \cup AccountScenarios \cup AwardScenarios \cup GameScenarios \cup SeedScenarios

-----------------------------------------------------------------------------
tables == <<entryTables, spTables, ltTables, lgTables, acTables, awTables, gmTables, sxTables>>
vars == <<requestVars, tables>>

Init ==
    /\ RequestsInit /\ EntryInit /\ SpInit /\ LtInit /\ LgInit /\ AcInit
    /\ AwInit /\ GmInit /\ SxInit

Next ==
    \/ /\ scenario.of = "entry" /\ EntryNext
       /\ UNCHANGED <<spTables, ltTables, lgTables, acTables, awTables, gmTables, sxTables>>
    \/ /\ scenario.of = "stages" /\ SpNext
       /\ UNCHANGED <<entryTables, ltTables, lgTables, acTables, awTables, gmTables, sxTables>>
    \/ /\ scenario.of = "teams" /\ LtNext
       /\ UNCHANGED <<entryTables, spTables, lgTables, acTables, awTables, gmTables, sxTables>>
    \/ /\ scenario.of = "leagues" /\ LgNext
       /\ UNCHANGED <<entryTables, spTables, ltTables, acTables, awTables, gmTables, sxTables>>
    \/ /\ scenario.of = "accounts" /\ AcNext
       /\ UNCHANGED <<entryTables, spTables, ltTables, lgTables, awTables, gmTables, sxTables>>
    \/ /\ scenario.of = "awards" /\ AwNext
       /\ UNCHANGED <<entryTables, spTables, ltTables, lgTables, acTables, gmTables, sxTables>>
    \/ /\ scenario.of = "games" /\ GmNext
       /\ UNCHANGED <<entryTables, spTables, ltTables, lgTables, acTables, awTables, sxTables>>
    \/ /\ scenario.of = "seed" /\ SxNext
       /\ UNCHANGED <<entryTables, spTables, ltTables, lgTables, acTables, awTables, gmTables>>

Spec == Init /\ [][Next]_vars
FairSpec == Spec /\ EntryFairness /\ SpFairness

\* What a game offers, what its players are honoured for and what a
\* development stack is filled with can be relied on (games.rs, award.rs,
\* seed/mod.rs, reset.rs).
HonoursMapsAndSeedAreSound == AwardsAreSound /\ CatalogIsSound /\ SeedIsSound

\* No step of a request takes what was given or gives what is not there: no
\* place beyond the last, no cup entered against a rule, no league without
\* an admin, no seat for a lost invitation, no finished roster or podium
\* rewritten.
StepsKeepTheRules ==
    [][/\ CapacityHolds /\ EntryMeetsBothRules
       /\ AcceptSeats /\ LeagueKeepsAdmin
       /\ FinishedRosterIsHistory /\ SeasonWithinCapacity
       /\ PodiumIsRanking /\ FinalizedIsHistory /\ CompletionSettlesAwards]_vars

\* A tournament that was started is drawn, and one whose groups are played
\* goes on to its playoffs, wherever a task dies.
TournamentMovesOn == StartBuilds /\ GroupsReachPlayoffs

=============================================================================
