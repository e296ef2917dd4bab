------------------------------ MODULE SeedData ------------------------------
(***************************************************************************)
(* What the administration client does to a whole database: the seed of a  *)
(* development stack and its reset, the first administrator, test users,   *)
(* the import of Steam players, and clearing.  A row is its id,            *)
(* <<table, ...>>, what must be unique besides, and the rows it refers to  *)
(* by column; the rest of it is left out.                                  *)
(***************************************************************************)
EXTENDS Requests, Integers, Sequences, FiniteSets

CONSTANTS
    SxNames,    \* the accounts that are imported, bootstrapped or made for tests
    SxAdmins    \* those of them that bootstrap makes administrators

VARIABLES
    sx_rows,    \* the rows of the database
    sx_last,    \* what the last command came to
    sx_acts     \* what people have done since the database was made or cleared

sxTables == <<sx_rows, sx_last, sx_acts>>
sxVars == <<requestVars, sxTables>>

ASSUME SeedDataAssumption == SxAdmins \subseteq SxNames

SxAllowed(op) == scenario.of = "seed" /\ op \in scenario.ops

-----------------------------------------------------------------------------
(* The database: foreign keys, and statements in a transaction.             *)

Named(id, key, refs) == [id |-> id, key |-> <<id[1], key>>, refs |-> refs]
Row(id, refs) == Named(id, id, refs)
Rows(table, rows) == {r \in rows : r.id[1] = table}
Ids(rows) == {r.id : r \in rows}
Refers(r, column, ids) == \E ref \in r.refs : ref[1] = column /\ ref[2] \in ids

\* Columns ON DELETE CASCADE and SET NULL; the other ones forbid it.
Cascading ==
    {<<"players", "user">>, <<"user_roles", "user">>, <<"league_seasons", "league">>,
     <<"league_members", "league">>, <<"league_invitations", "league">>, <<"league_teams", "league">>,
     <<"league_team_seasons", "team">>, <<"league_team_seasons", "season">>,
     <<"league_team_members", "team_season">>, <<"availability_windows", "player">>,
     <<"tournament_stages", "tournament">>, <<"tournament_map_pools", "tournament">>,
     <<"tournament_brackets", "stage">>, <<"tournament_brackets", "tournament">>,
     <<"tournament_registrations", "tournament">>, <<"tournament_registrations", "team_season">>,
     <<"tournament_matches", "bracket">>, <<"tournament_matches", "stage">>,
     <<"tournament_matches", "tournament">>, <<"veto_sessions", "match">>,
     <<"schedule_proposals", "match">>, <<"tournament_invitations", "tournament">>}
Nulling ==
    {<<"tournaments", "league">>, <<"tournaments", "season">>, <<"tournament_matches", "participant">>,
     <<"tournament_matches", "winner_progresses_to">>, <<"entity_changes", "changed_by">>}

Committed(rows) == [ok |-> TRUE, rows |-> rows]
Failed(tx) == [tx EXCEPT !.ok = FALSE]

\* ON CONFLICT DO NOTHING; no row may refer to one that is not there.
Insert(tx, new) ==
    LET fresh == {r \in new : \A x \in tx.rows : x.id # r.id /\ x.key # r.key}
        rows == tx.rows \cup fresh
    IN  IF tx.ok /\ \A r \in fresh : \A ref \in r.refs : ref[2] \in Ids(rows)
        THEN Committed(rows) ELSE Failed(tx)

\* What goes with the rows that are deleted.
Doomed(rows, ids) ==
    LET D[n \in 0 .. 6] ==
            IF n = 0 THEN ids
            ELSE LET gone == D[n - 1] IN
                 gone \cup {r.id : r \in {r \in rows : \E ref \in r.refs :
                                    <<r.id[1], ref[1]>> \in Cascading /\ ref[2] \in gone}}
    IN D[6]

\* NO ACTION is checked when the statement ends.
Delete(tx, ids) ==
    LET gone == Doomed(tx.rows, ids)
        rest == {r \in tx.rows : r.id \notin gone}
        lost(r) == {ref \in r.refs : ref[2] \in gone}
    IN  IF tx.ok /\ \A r \in rest : \A ref \in lost(r) : <<r.id[1], ref[1]>> \in Nulling
        THEN Committed({[r EXCEPT !.refs = @ \ lost(r)] : r \in rest}) ELSE Failed(tx)

DeleteWhere(tx, table, column, ids) ==
    Delete(tx, Ids({r \in Rows(table, tx.rows) : Refers(r, column, ids)}))

\* UPDATE table SET column = NULL.
Blank(tx, table, column, ids) ==
    [tx EXCEPT !.rows = {IF r.id \in ids /\ r.id[1] = table
                         THEN [r EXCEPT !.refs = {ref \in @ : ref[1] # column}] ELSE r : r \in @}]

-----------------------------------------------------------------------------
(* The scenario.                                                            *)

Squad(captain, members) == [captain |-> captain, members |-> members]
TEAMS ==
    [alpha   |-> Squad("captain_alpha", {"player_1", "player_2", "player_3", "player_4"}),
     bravo   |-> Squad("captain_bravo", {"player_5", "player_6", "player_7", "player_8"}),
     charlie |-> Squad("captain_charlie", {"player_9", "player_10", "player_11", "player_12"}),
     delta   |-> Squad("captain_delta", {"player_13", "player_14", "player_15", "player_16"})]
Teams == DOMAIN TEAMS
Roster(t) == TEAMS[t].members \cup {TEAMS[t].captain}
PERSONAS == {"admin", "organizer", "spectator", "newbie"} \cup UNION {Roster(t) : t \in Teams}

\* [base, trend]; the first of a roster is its captain.
Profile(persona, base, trend) == [persona |-> persona, base |-> base, trend |-> trend]
RATING_PROFILES ==
    <<Profile("captain_alpha", 25500, 80), Profile("player_1", 23000, 60), Profile("player_2", 26800, 40),
      Profile("player_3", 21500, 100), Profile("player_4", 24200, 50),
      Profile("captain_bravo", 19500, 60), Profile("player_5", 17200, 80), Profile("player_6", 20800, 30),
      Profile("player_7", 18000, 50), Profile("player_8", 16500, 70),
      Profile("captain_charlie", 14500, 40), Profile("player_9", 12000, 60), Profile("player_10", 15800, 20),
      Profile("player_11", 13200, 50), Profile("player_12", 11500, 30),
      Profile("captain_delta", 6500, 30), Profile("player_13", 4000, 50), Profile("player_14", 7200, 20),
      Profile("player_15", 5500, 40), Profile("player_16", 3200, 60)>>
RATING_HISTORY_COUNT == 15

deterministic_wobble(player, entry) ==
    LET sign == IF (player + entry) % 3 = 0 THEN -1 ELSE 1
        factor == <<3, 8, 1, 6, 5>>[(entry % 5) + 1]
    IN  sign * ((400 * factor) \div 10)

\* Entry i of player k, both from 0.
SeededRating(k, i) ==
    LET r == RATING_PROFILES[k + 1].base + RATING_PROFILES[k + 1].trend * i + deterministic_wobble(k, i) IN
    IF r < 0 THEN 0 ELSE r

\* Days are 0 .. 6 from Sunday, hours local.
Window(personas, day, from, to, preferred, zone) ==
    [personas |-> personas, day |-> day, from |-> from, to |-> to, preferred |-> preferred, zone |-> zone]
Night(t, day, from, to, zone) == Window(Roster(t), day, from, to, TRUE, zone)
Own(persona, day, from, to, zone) == Window({persona}, day, from, to, FALSE, zone)
AVAILABILITY_WINDOWS ==
    {Night("alpha", 2, 18, 22, "Stockholm"), Night("alpha", 4, 18, 22, "Stockholm"),
     Own("captain_alpha", 6, 14, 20, "Stockholm"), Own("player_1", 3, 19, 22, "Stockholm"),
     Own("player_2", 6, 15, 21, "Stockholm"),
     Night("bravo", 1, 18, 22, "Berlin"), Night("bravo", 3, 18, 22, "Berlin"),
     Own("captain_bravo", 6, 16, 22, "Berlin"), Own("player_5", 2, 19, 22, "Berlin"),
     Own("player_6", 5, 18, 22, "Berlin"),
     Night("charlie", 3, 19, 23, "Paris"), Night("charlie", 0, 14, 18, "Paris"),
     Own("captain_charlie", 1, 19, 22, "Paris"), Own("player_9", 4, 19, 22, "Paris"),
     Own("player_10", 6, 14, 18, "Paris"),
     Night("delta", 2, 19, 23, "London"), Night("delta", 6, 14, 18, "London"),
     Own("captain_delta", 4, 19, 22, "London"), Own("player_13", 3, 18, 21, "London"),
     Own("player_14", 0, 15, 19, "London")}

TOURNAMENT_2_SEED_ORDER == <<"alpha", "bravo", "charlie", "delta">>
team_seed_rating == [alpha |-> 25000, bravo |-> 18000, charlie |-> 14000, delta |-> 5000]

user_id(p) == <<"users", p>>
player_id(p) == <<"players", p>>
team_id(t) == <<"league_teams", t>>
league_id == <<"leagues", "competitive">>
premier_league_id == <<"leagues", "premier">>
tournament_id(c) == <<"tournaments", c>>
stage_id(c) == <<"tournament_stages", c>>
bracket_id(c) == <<"tournament_brackets", c>>
match_id(m) == <<"tournament_matches", m>>
registration_id(c, t) == <<"tournament_registrations", c, t>>
season_id(l, n) == <<"league_seasons", l, n>>
TeamSeason(t, s) == <<"league_team_seasons", t, s>>
all_user_ids == {user_id(p) : p \in PERSONAS}
all_player_ids == {player_id(p) : p \in PERSONAS}

UserRow(p) == Row(user_id(p), {})
SxPlayer(p) == Row(player_id(p), {<<"user", user_id(p)>>})
RoleRow(p, role) == Row(<<"user_roles", p, role>>, {<<"user", user_id(p)>>})
ApiKey(refs) == Row(<<"api_keys", "e2e">>, refs)
\* Trigger: a league comes with its first season, the current one.
LeagueRows(l, by) ==
    {Row(l, {<<"created_by", user_id(by)>>, <<"current_season", season_id(l, 1)>>}),
     Row(season_id(l, 1), {<<"league", l>>, <<"created_by", user_id(by)>>})}
LeagueMember(l, p) == Row(<<"league_members", l, p>>, {<<"league", l>>, <<"user", user_id(p)>>})
Application(l, p) == Row(<<"league_invitations", l, p>>, {<<"league", l>>, <<"user", user_id(p)>>})
TeamRow(t, l, owner) == Row(team_id(t), {<<"league", l>>, <<"owner", player_id(owner)>>})
TeamSeasonRow(t, s) == Row(TeamSeason(t, s), {<<"team", team_id(t)>>, <<"season", s>>})
TeamMember(t, s, p, by) ==
    Row(<<"league_team_members", t, s, p>>,
        {<<"team_season", TeamSeason(t, s)>>, <<"season", s>>, <<"player", player_id(p)>>,
         <<"added_by", user_id(by)>>})
CupRow(c, by, refs) == Row(tournament_id(c), refs \cup {<<"created_by", user_id(by)>>})
SxStage(c) == Row(stage_id(c), {<<"tournament", tournament_id(c)>>})
PoolRow(c) == Row(<<"tournament_map_pools", c>>, {<<"tournament", tournament_id(c)>>})
BracketRow(c) == Row(bracket_id(c), {<<"stage", stage_id(c)>>, <<"tournament", tournament_id(c)>>})
RegistrationRow(c, t, s, by) ==
    Row(registration_id(c, t), {<<"tournament", tournament_id(c)>>, <<"team_season", TeamSeason(t, s)>>,
                                <<"registered_by", user_id(by)>>})
SxMatch(m, c, refs) ==
    Row(match_id(m), refs \cup {<<"bracket", bracket_id(c)>>, <<"stage", stage_id(c)>>,
                                <<"tournament", tournament_id(c)>>})
Between(c, t, u) == {<<"participant", registration_id(c, t)>>, <<"participant", registration_id(c, u)>>}
ProposalRow(m, c, t, by) ==
    Row(<<"schedule_proposals", m>>, {<<"match", match_id(m)>>, <<"user", user_id(by)>>,
                                      <<"registration", registration_id(c, t)>>})

-----------------------------------------------------------------------------
(* The seed and its reset, each a transaction.                              *)

seed_users(tx) ==
    LET users == Insert(tx, {UserRow(p) : p \in PERSONAS})
        players == Insert(users, {SxPlayer(p) : p \in PERSONAS})
        role == Insert(players, {RoleRow("admin", "super_admin")})
    IN  Insert(role, {ApiKey({<<"created_by", user_id("admin")>>})})

seed_leagues(tx) ==
    LET league == Insert(tx, LeagueRows(league_id, "organizer"))
        members == Insert(league, {LeagueMember(league_id, p) : p \in PERSONAS})
        premier == Insert(members, LeagueRows(premier_league_id, "organizer"))
        few == Insert(premier, {LeagueMember(premier_league_id, p) :
                                    p \in {"organizer", "captain_alpha", "captain_bravo"}})
    IN  Insert(few, {Application(premier_league_id, p) : p \in {"captain_charlie", "captain_delta"}})

current_season(rows) == {ref[2] : ref \in {ref \in UNION {r.refs : r \in {r \in rows : r.id = league_id}} :
                                            ref[1] = "current_season"}}

seed_teams(tx, s) ==
    LET teams == Insert(tx, {TeamRow(t, league_id, TEAMS[t].captain) : t \in Teams})
        seasons == Insert(teams, {TeamSeasonRow(t, s) : t \in Teams})
        members == Insert(seasons, UNION {{TeamMember(t, s, p, TEAMS[t].captain) : p \in Roster(t)} : t \in Teams})
        ratings == Insert(members, {Row(<<"player_rating_history", p.persona>>, {<<"player", player_id(p.persona)>>}) :
                                        p \in {RATING_PROFILES[i] : i \in DOMAIN RATING_PROFILES}})
    IN  Insert(ratings, UNION {{Row(<<"availability_windows", p, w.day, w.from>>, {<<"player", player_id(p)>>}) :
                                    p \in w.personas} : w \in AVAILABILITY_WINDOWS})

seed_tournament(tx, c, s) ==
    LET cup == Insert(tx, {CupRow(c, "organizer", {<<"league", league_id>>, <<"season", s>>})})
    IN  Insert(Insert(cup, {SxStage(c)}), {PoolRow(c)})

\* The final comes first: the matches before it refer to it.
seed_tournament_2_registrations_and_matches(tx, s) ==
    LET final == {<<"winner_progresses_to", match_id("R2M1")>>}
        entered == Insert(tx, {RegistrationRow("cup 2", t, s, TEAMS[t].captain) : t \in Teams})
        last == Insert(entered, {SxMatch("R2M1", "cup 2", {})})
        first == Insert(last, {SxMatch("R1M1", "cup 2", Between("cup 2", "alpha", "delta") \cup final)})
        veto == Insert(first, {Row(<<"veto_sessions", "R1M1">>, {<<"match", match_id("R1M1")>>})})
    IN  Insert(veto, {SxMatch("R1M2", "cup 2", Between("cup 2", "bravo", "charlie") \cup final)})

seed_full(rows) ==
    LET leagues == seed_leagues(seed_users(Committed(rows))) IN
    IF ~leagues.ok \/ current_season(leagues.rows) = {} THEN Failed(leagues)
    ELSE LET s == CHOOSE s \in current_season(leagues.rows) : TRUE
             cup_1 == seed_tournament(seed_teams(leagues, s), "cup 1", s)
             cup_2 == Insert(seed_tournament(cup_1, "cup 2", s), {BracketRow("cup 2")})
         IN  seed_tournament_2_registrations_and_matches(cup_2, s)

SeedIds == Ids(seed_full({}).rows)

\* The seeded cups, by id.
ResetCups(tx) ==
    LET cup(c) == {tournament_id(c)}
        m2 == DeleteWhere(tx, "tournament_matches", "tournament", cup("cup 2"))
        b2 == DeleteWhere(m2, "tournament_brackets", "tournament", cup("cup 2"))
        s2 == DeleteWhere(b2, "tournament_stages", "tournament", cup("cup 2"))
        r2 == DeleteWhere(s2, "tournament_registrations", "tournament", cup("cup 2"))
        t2 == Delete(r2, cup("cup 2"))
        history == DeleteWhere(t2, "player_rating_history", "player", all_player_ids)
        windows == DeleteWhere(history, "availability_windows", "player", all_player_ids)
        s1 == Delete(windows, {stage_id("cup 1")})
        r1 == DeleteWhere(s1, "tournament_registrations", "tournament", cup("cup 1"))
    IN  Delete(r1, cup("cup 1"))

\* What teams have entered elsewhere.
DeleteEntries(tx, teams) ==
    LET seasons == Ids({r \in Rows("league_team_seasons", tx.rows) : Refers(r, "team", teams)})
        entries == Ids({r \in Rows("tournament_registrations", tx.rows) : Refers(r, "team_season", seasons)})
    IN  DeleteWhere(DeleteWhere(tx, "tournament_matches", "participant", entries),
                    "tournament_registrations", "team_season", seasons)

\* The teams, then the leagues they play in.
ResetLeagues(tx) ==
    LET teams == {team_id(t) : t \in Teams}
        leagues == {league_id, premier_league_id}
        entries == DeleteEntries(tx, teams)
        seasons == Ids({r \in Rows("league_team_seasons", entries.rows) : Refers(r, "team", teams)})
        members == DeleteWhere(entries, "league_team_members", "team_season", seasons)
        gone == Delete(DeleteWhere(members, "league_team_seasons", "team", teams), teams)
        invitations == DeleteWhere(gone, "league_invitations", "league", leagues)
        blank == Blank(invitations, "leagues", "current_season", leagues)
        played == DeleteWhere(blank, "league_seasons", "league", leagues)
    IN  Delete(DeleteWhere(played, "league_members", "league", leagues), leagues)

\* The cups and leagues the seeded users have made.
ResetMade(tx) ==
    LET cups == Ids({r \in Rows("tournaments", tx.rows) : Refers(r, "created_by", all_user_ids)})
        stages == DeleteWhere(tx, "tournament_stages", "tournament", cups)
        entries == DeleteWhere(stages, "tournament_registrations", "tournament", cups)
        held == Delete(entries, cups)
        own == Ids({r \in Rows("leagues", held.rows) : Refers(r, "created_by", all_user_ids)})
        in_own == Ids({r \in Rows("league_teams", held.rows) : Refers(r, "league", own)})
    IN  Delete(Blank(DeleteEntries(held, in_own), "leagues", "current_season", own), own)

\* What they did elsewhere, and themselves.
ResetPeople(tx) ==
    LET proposals == DeleteWhere(tx, "schedule_proposals", "user", all_user_ids)
        members == DeleteWhere(proposals, "league_members", "user", all_user_ids)
        applied == DeleteWhere(members, "league_invitations", "user", all_user_ids)
        keys == DeleteWhere(applied, "api_keys", "created_by", all_user_ids)
        roles == DeleteWhere(keys, "user_roles", "user", all_user_ids)
        rosters == DeleteWhere(roles, "league_team_members", "player", all_player_ids)
        ratings == DeleteWhere(rosters, "player_rating_history", "player", all_player_ids)
        changes == DeleteWhere(ratings, "entity_changes", "changed_by", all_player_ids)
    IN  Delete(Delete(changes, all_player_ids), all_user_ids)

reset_seed_data(rows) == ResetPeople(ResetMade(ResetLeagues(ResetCups(Committed(rows)))))

-----------------------------------------------------------------------------
(* What people do with the seeded data, as far as rows are concerned.       *)

\* An account made by "test", "import" or "admin".
AccountRows(how, n) ==
    LET user == <<"users", how, n>> IN
    {Named(user, IF how = "import" THEN user ELSE <<"name", n>>, {}),
     Row(<<"players", how, n>>, {<<"user", user>>})}
AccountRole(how, n, role) == Row(<<"user_roles", how, n, role>>, {<<"user", <<"users", how, n>>>>})

Stranger == {UserRow("stranger"), SxPlayer("stranger")}
SxPlayed(c, m, t, s, by) ==
    {SxStage(c), BracketRow(c), RegistrationRow(c, t, s, by),
     SxMatch(m, c, {<<"participant", registration_id(c, t)>>}), ProposalRow(m, c, t, by)}
OpenCup == Stranger \cup {CupRow("open", "stranger", {})}
GuestTeam(s) ==
    Stranger \cup {LeagueMember(league_id, "stranger"), TeamRow("guests", league_id, "stranger"),
                   TeamSeasonRow("guests", s), TeamMember("guests", s, "stranger", "stranger")}
Doings(s) ==
    [proposal  |-> {ProposalRow("R1M2", "cup 2", "bravo", "captain_bravo")},
     override  |-> {Row(<<"entity_changes", "alpha">>, {<<"changed_by", player_id("captain_alpha")>>})},
     own_cup   |-> {CupRow("own", "organizer", {<<"league", league_id>>, <<"season", s>>})}
                       \cup SxPlayed("own", "O1", "alpha", s, "captain_alpha"),
     cup_1     |-> SxPlayed("cup 1", "C1", "delta", s, "captain_delta") \ {SxStage("cup 1")},
     open_cup  |-> OpenCup \cup SxPlayed("open", "X1", "bravo", s, "captain_bravo"),
     guests    |-> GuestTeam(s),
     guests_play |-> GuestTeam(s) \cup OpenCup \cup SxPlayed("open", "X2", "guests", s, "stranger"),
     pug       |-> {Row(<<"pugs", "p">>, {<<"created_by", user_id("captain_delta")>>})},
     invite    |-> OpenCup \cup {Row(<<"tournament_invitations", "open">>,
                      {<<"tournament", tournament_id("open")>>, <<"invited_by", user_id("admin")>>})},
     squat     |-> {Named(user_id("stranger"), user_id("admin"), {})},
     key       |-> {ApiKey({})}]

\* What refers to seeded people or teams and is not removed before them.
Unswept == {"guests_play", "pug", "invite"}

Migrated == {Row(<<"roles", "super_admin">>, {}),
             Row(<<"role_permissions", "super_admin">>, {<<"role", <<"roles", "super_admin">>>>})}

SxInit == sx_rows = Migrated /\ sx_last = "none" /\ sx_acts = {}

\* A command, or what somebody does, in one transaction.
Command(p) ==
    /\ p \in Serving /\ MayStart(p) /\ requests < scenario.requests
    /\ requests' = requests + 1
    /\ UNCHANGED <<scenario, req, crashes>>

Outcome(tx, done, failed) ==
    /\ sx_rows' = IF tx.ok THEN tx.rows ELSE sx_rows
    /\ sx_last' = IF tx.ok THEN done ELSE failed

People(p, a) ==
    /\ SxAllowed(a) /\ a \notin sx_acts /\ Command(p)
    /\ \E s \in current_season(sx_rows) \cup {season_id(league_id, 1)} :
         LET tx == Insert(Committed(sx_rows), Doings(s)[a]) IN
         /\ tx.ok /\ Ids(Doings(s)[a]) \subseteq Ids(tx.rows)
         /\ Outcome(tx, "other", "other")
    /\ sx_acts' = sx_acts \cup {a}

\* The organizer opens another season of the league.
NewSeason(p) ==
    /\ SxAllowed("season") /\ Command(p)
    /\ \E r \in sx_rows :
         /\ r.id = league_id /\ <<"current_season", season_id(league_id, 1)>> \in r.refs
         /\ sx_rows' = (sx_rows \ {r})
                \cup {[r EXCEPT !.refs = (@ \ {<<"current_season", season_id(league_id, 1)>>})
                                            \cup {<<"current_season", season_id(league_id, 2)>>}],
                      Row(season_id(league_id, 2), {<<"league", league_id>>, <<"created_by", user_id("organizer")>>})}
    /\ sx_last' = "other" /\ UNCHANGED sx_acts

SeedFull(p) ==
    /\ SxAllowed("seed") /\ Command(p)
    /\ Outcome(seed_full(sx_rows), "seeded", "seed failed")
    /\ UNCHANGED sx_acts

Reset(p) ==
    /\ SxAllowed("reset") /\ Command(p)
    /\ Outcome(reset_seed_data(sx_rows), "reset", "reset failed")
    /\ UNCHANGED sx_acts

\* Truncating users reaches every table that refers to an account, and the
\* grants of the roles with them.
clear_database(p) ==
    /\ SxAllowed("clear") /\ Command(p)
    /\ sx_rows' = Rows("roles", sx_rows) /\ sx_last' = "cleared" /\ sx_acts' = {}

\* Only a repeated address is passed over; a taken name fails the lot.
seed_database(p) ==
    /\ SxAllowed("test users") /\ Command(p)
    /\ LET new == UNION {AccountRows("test", n) : n \in {n \in SxNames : <<"users", "test", n>> \notin Ids(sx_rows)}}
           free == \A r \in new : \A x \in sx_rows : r.key # x.key
       IN  Outcome([ok |-> free, rows |-> sx_rows \cup new], "other", "other")
    /\ UNCHANGED sx_acts

SuperAdmins == {r \in Rows("user_roles", sx_rows) : r.id[Len(r.id)] = "super_admin"}

bootstrap_admin(p) ==
    /\ SxAllowed("bootstrap")
    /\ \E n \in SxAdmins, force \in BOOLEAN :
         /\ force \/ SuperAdmins = {}
         /\ Request(p, [pc |-> "bootstrap", name |-> n])
    /\ UNCHANGED sxTables

CreateAdmin(p) ==
    /\ At(p, "bootstrap")
    /\ LET n == req[p].name
           new == AccountRows("admin", n) \cup {AccountRole("admin", n, "super_admin")}
           free == \A r \in new : \A x \in sx_rows : r.key # x.key
       IN  Outcome([ok |-> free, rows |-> sx_rows \cup new], "other", "other")
    /\ Finish(p) /\ UNCHANGED sx_acts

import_steam_players(p) ==
    /\ SxAllowed("import")
    /\ Request(p, [pc |-> "import", left |-> SxNames])
    /\ UNCHANGED sxTables

\* As at a sign-in; who is there already is passed over.
ImportPlayer(p) ==
    /\ At(p, "import")
    /\ \E n \in req[p].left :
         IF <<"users", "import", n>> \in Ids(sx_rows)
         THEN /\ IF req[p].left = {n} THEN Finish(p) ELSE Continue(p, [req[p] EXCEPT !.left = @ \ {n}])
              /\ UNCHANGED sxTables
         ELSE /\ sx_rows' = sx_rows \cup AccountRows("import", n)
              /\ Continue(p, [pc |-> "import role", name |-> n, left |-> req[p].left \ {n}])
              /\ UNCHANGED <<sx_last, sx_acts>>

ImportRole(p) ==
    /\ At(p, "import role")
    /\ sx_rows' = sx_rows \cup {AccountRole("import", req[p].name, "user")}
    /\ IF req[p].left = {} THEN Finish(p) ELSE Continue(p, [pc |-> "import", left |-> req[p].left])
    /\ UNCHANGED <<sx_last, sx_acts>>

SxDie(p) == Die(p) /\ UNCHANGED sxTables

SxNext ==
    \E p \in Tasks :
        \/ \E a \in DOMAIN Doings(season_id(league_id, 1)) : People(p, a)
        \/ NewSeason(p) \/ SeedFull(p) \/ Reset(p) \/ clear_database(p) \/ seed_database(p)
        \/ bootstrap_admin(p) \/ CreateAdmin(p)
        \/ import_steam_players(p) \/ ImportPlayer(p) \/ ImportRole(p) \/ SxDie(p)

-----------------------------------------------------------------------------
(* Properties.                                                              *)

\* A seed is there as a whole or not at all, whatever of it was there before,
\* and seeding again changes nothing (seed_full).
SeedIsWhole ==
    /\ sx_last = "seeded" =>
         /\ SeedIds \subseteq Ids(sx_rows)
         /\ seed_full(sx_rows).rows = sx_rows
    /\ sx_last = "seed failed" => "squat" \in sx_acts

\* A reset leaves nothing of the seed and nothing that names its people but a
\* key that was minted on its own, and takes no stranger's account along; it
\* fails exactly on the references reset.rs does not sweep (reset_seed_data).
ResetClears ==
    /\ sx_last = "reset" =>
         /\ Unswept \cap sx_acts = {}
         /\ Ids(sx_rows) \cap SeedIds \subseteq {<<"api_keys", "e2e">>}
         /\ \A r \in sx_rows : \A ref \in r.refs : ref[2] \notin SeedIds
         /\ sx_acts \cap {"open_cup", "guests", "squat"} # {} => user_id("stranger") \in Ids(sx_rows)
    /\ sx_last = "reset failed" => Unswept \cap sx_acts # {}

\* Unless the import dies, whoever it brings has the default role
\* (import_steam_players).
ImportedHaveRole ==
    (Quiescent /\ crashes = 0) =>
        \A n \in SxNames : <<"users", "import", n>> \in Ids(sx_rows)
            => <<"user_roles", "import", n, "user">> \in Ids(sx_rows)

\* The data tells the story it is meant for: teams are seeded by rating, no
\* rating is negative, and both teams of a first match share two hours of the
\* same evening (scenario.rs).
Offset(zone) == IF zone = "London" THEN 0 ELSE 1
Evenings(t) == {w \in AVAILABILITY_WINDOWS : w.preferred /\ w.personas = Roster(t)}
ShareAnEvening(t, u) ==
    \E v \in Evenings(t), w \in Evenings(u) :
        /\ v.day = w.day
        /\ v.from - Offset(v.zone) + 2 <= w.to - Offset(w.zone)
        /\ w.from - Offset(w.zone) + 2 <= v.to - Offset(v.zone)
ScenarioIsPlayable ==
    /\ ShareAnEvening("alpha", "delta") /\ ShareAnEvening("bravo", "charlie")
    /\ \A i, j \in DOMAIN TOURNAMENT_2_SEED_ORDER : i < j =>
          team_seed_rating[TOURNAMENT_2_SEED_ORDER[i]] > team_seed_rating[TOURNAMENT_2_SEED_ORDER[j]]
    /\ \A k \in 0 .. Len(RATING_PROFILES) - 1, i \in 0 .. RATING_HISTORY_COUNT - 1 : SeededRating(k, i) > 0

SeedIsSound == SeedIsWhole /\ ResetClears /\ ImportedHaveRole /\ ScenarioIsPlayable

=============================================================================
