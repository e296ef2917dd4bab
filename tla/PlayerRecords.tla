---------------------------- MODULE PlayerRecords ----------------------------
(***************************************************************************)
(* Who played, and what it counts for.  A captain promises a lineup until  *)
(* the match starts, the demos of the match say who really played, and the *)
(* last step of the completion saga adds the match to the profiles of      *)
(* those it credits, once per player and match.  A service account reports *)
(* ratings.                                                                *)
(* Source: services/tournament/lineup.rs, adapters/match_lineup.rs,        *)
(* adapters/player_game_profile.rs, portal-api adapters/stats_updater.rs,  *)
(* handlers/player_game_profiles.rs                                        *)
(***************************************************************************)
EXTENDS Requests, FiniteSets, FiniteSetsExt

CONSTANTS
    PrMatches,      \* matches of the same two registrations
    PrPlayers,
    PrDemos,        \* demo -> [teams, players]: its two team names, and the
                    \* team name of every player that resolves to an account
    PrRatings,      \* the ratings that are reported
    MaxRatings      \* how many

ASSUME PlayerRecordsAssumption ==
    /\ PrRatings \subseteq Nat /\ MaxRatings \in Nat
    /\ \A d \in DOMAIN PrDemos : DOMAIN PrDemos[d].players \subseteq PrPlayers
    /\ \A s \in Scenarios : s.of = "records" =>
          /\ s.roster \in [{1, 2} -> SUBSET PrPlayers]
          /\ \A i \in {1, 2} : s.promises[i] \subseteq SUBSET PrPlayers
          /\ s.games \subseteq Nat \ {0}

VARIABLES
    pr_match,       \* pr_match[m]: its status, winning side and saga
    pr_roster,      \* pr_roster[s]: the active members of side s
    pr_lineups,     \* match_lineups with match_lineup_players, by match and side
    pr_links,       \* demo_match_links: <<demo, match, game>>
    pr_applied,     \* player_match_stats_applied: <<player, match>>
    pr_profiles,    \* player_game_profiles
    pr_ratings      \* player_rating_history: <<player, recorded_at, rating, source>>

prTables == <<pr_match, pr_roster, pr_lineups, pr_links, pr_applied, pr_profiles, pr_ratings>>
prVars == <<requestVars, prTables>>

RecordSides == {1, 2}
Keeping == scenario.of = "records"
Keeps(op) == Keeping /\ op \in scenario.ops

LineupStatus == {"draft", "submitted", "locked"}
LineupSource == {"demo", "admin", "evidence", "declared"}
NoLineup == [status |-> "none", locked |-> FALSE, rows |-> {}]
\* What the columns default to.
DefaultRating == 1500
FreshProfile == [played |-> 0, wins |-> 0, losses |-> 0, streak |-> 0, best |-> 0,
                 stats |-> {}, rating |-> DefaultRating, peak |-> DefaultRating, exists |-> FALSE]

\* declaration_window_open
declaration_window_open(status) == status \in {"pending", "ready", "scheduled", "checking_in"}

\* is_editable
is_editable(lineup) == lineup.status # "locked" /\ ~lineup.locked

\* Declared rows hold for the match, demo rows for one of its games.
PlayerRow(x, source, game, s) ==
    [player |-> x, source |-> source, game |-> game, was_rostered |-> x \in pr_roster[s]]

PlayersBy(m, s, source) == {r.player : r \in {r \in pr_lineups[m][s].rows : r.source = source}}

PrInit ==
    IF Keeping
    THEN /\ pr_match = [m \in PrMatches |-> [status |-> "checking_in", winner |-> 0, saga |-> "none"]]
         /\ pr_roster = scenario.roster
         /\ pr_lineups = [m \in PrMatches |-> [s \in RecordSides |-> NoLineup]]
         /\ pr_links = {} /\ pr_applied = {} /\ pr_ratings = {}
         /\ pr_profiles = [x \in PrPlayers |-> FreshProfile]
    ELSE /\ pr_match = <<>> /\ pr_roster = <<>> /\ pr_lineups = <<>> /\ pr_links = {}
         /\ pr_applied = {} /\ pr_profiles = <<>> /\ pr_ratings = {}

-----------------------------------------------------------------------------
(* The promised lineup *)

\* declare_lineup: before the start, and not over a lock.
MayDeclare(m, s) == declaration_window_open(pr_match[m].status) /\ is_editable(pr_lineups[m][s])

DeclareLineup(p) ==
    /\ Keeps("declare")
    /\ \E m \in PrMatches : \E s \in RecordSides : \E who \in scenario.promises[s] : \E submit \in BOOLEAN :
          /\ MayDeclare(m, s)
          /\ Request(p, [pc |-> "declare", match |-> m, side |-> s, submit |-> submit,
                         rows |-> {PlayerRow(x, "declared", 0, s) : x \in who}])
    /\ UNCHANGED prTables

\* Mutant: the rows are replaced although the upsert was refused.
declare_rows_anyway(lineup, status, rows) ==
    [lineup EXCEPT !.status = IF lineup.locked THEN @ ELSE status,
                   !.rows = {r \in lineup.rows : r.source # "declared"} \cup rows]

\* declare: one transaction; a lock refuses it, and only promised rows are replaced.
declare(lineup, status, rows) ==
    IF lineup.locked THEN lineup
    ELSE [lineup EXCEPT !.status = status, !.rows = {r \in lineup.rows : r.source # "declared"} \cup rows]

WriteDeclared(p) ==
    LET r == req[p]
    IN  /\ At(p, "declare")
        /\ pr_lineups' = [pr_lineups EXCEPT ![r.match][r.side] =
                             declare(@, IF r.submit THEN "submitted" ELSE "draft", r.rows)]
        /\ Finish(p)
        /\ UNCHANGED <<pr_match, pr_roster, pr_links, pr_applied, pr_profiles, pr_ratings>>

\* Check-in, or an admin, starts the match; the lineups are locked afterwards.
StartMatch(p) ==
    /\ Keeps("start")
    /\ \E m \in PrMatches :
          /\ pr_match[m].status = "checking_in"
          /\ pr_match' = [pr_match EXCEPT ![m].status = "in_progress"]
          /\ Request(p, [pc |-> "lock", match |-> m])
    /\ UNCHANGED <<pr_roster, pr_lineups, pr_links, pr_applied, pr_profiles, pr_ratings>>

\* lock_for_match, for one lineup.
lock_for_match(lineup) ==
    IF lineup.status \in {"none", "locked"} THEN lineup
    ELSE [lineup EXCEPT !.status = "locked", !.locked = TRUE]

LockLineups(p) ==
    /\ At(p, "lock")
    /\ pr_lineups' = [pr_lineups EXCEPT ![req[p].match] = [s \in RecordSides |-> lock_for_match(@[s])]]
    /\ Finish(p)
    /\ UNCHANGED <<pr_match, pr_roster, pr_links, pr_applied, pr_profiles, pr_ratings>>

\* A player is transferred from one side to the other.
ChangeRoster(p) ==
    /\ Keeps("transfer")
    /\ \E s \in RecordSides : \E x \in pr_roster[s] :
          pr_roster' = [pr_roster EXCEPT ![s] = @ \ {x}, ![3 - s] = @ \cup {x}]
    /\ Request(p, NoRequest)
    /\ UNCHANGED <<pr_match, pr_lineups, pr_links, pr_applied, pr_profiles, pr_ratings>>

-----------------------------------------------------------------------------
(* What the demo says *)

\* infer_side: by the team name the demo gives the player.
infer_side(d, x) ==
    IF PrDemos[d].players[x] = PrDemos[d].teams[1] THEN 1
    ELSE IF PrDemos[d].players[x] = PrDemos[d].teams[2] THEN 2 ELSE 0

\* A player of exactly one roster is on that side; anyone else is where the
\* demo says, or nowhere.  Only a team registration has a roster here.
SideOf(d, x) ==
    LET on(s) == scenario.kind = "team" /\ x \in pr_roster[s]
    IN  IF on(1) /\ ~on(2) THEN 1 ELSE IF on(2) /\ ~on(1) THEN 2 ELSE infer_side(d, x)

\* materialize_from_demo: only when the season asks for lineups.
MaterializeFromDemo(d) ==
    IF scenario.required THEN [s \in RecordSides |-> {x \in DOMAIN PrDemos[d].players : SideOf(d, x) = s}]
    ELSE [s \in RecordSides |-> {}]

\* A demo is linked to the match, unless it is already; its lineup follows, failures
\* are only logged.
LinkPlayedDemo(p) ==
    /\ Keeps("link")
    /\ \E d \in DOMAIN PrDemos \cap scenario.demos : \E m \in PrMatches : \E g \in scenario.games :
          /\ ~\E l \in pr_links : l[1] = d /\ l[2] = m
          /\ pr_links' = pr_links \cup {<<d, m, g>>}
          /\ Request(p, [pc |-> "materialize", match |-> m, game |-> g, sides |-> MaterializeFromDemo(d), side |-> 1])
    /\ UNCHANGED <<pr_match, pr_roster, pr_lineups, pr_applied, pr_profiles, pr_ratings>>

\* materialize_demo: a container that is not there is created locked, one that
\* is there keeps its status; the demo rows of the game are replaced.
materialize_demo(lineup, game, rows) ==
    [status |-> IF lineup.status = "none" THEN "locked" ELSE lineup.status,
     locked |-> lineup.status = "none" \/ lineup.locked,
     rows   |-> {r \in lineup.rows : r.source # "demo" \/ r.game # game} \cup rows]

\* One side after the other; a side nobody played on is left alone.
MaterializeSide(p) ==
    LET r == req[p]
        rows == {PlayerRow(x, "demo", r.game, r.side) : x \in r.sides[r.side]}
    IN  /\ At(p, "materialize")
        /\ pr_lineups' = IF rows = {} THEN pr_lineups
                         ELSE [pr_lineups EXCEPT ![r.match][r.side] = materialize_demo(@, r.game, rows)]
        /\ IF r.side = 1 THEN Continue(p, [r EXCEPT !.side = 2]) ELSE Finish(p)
        /\ UNCHANGED <<pr_match, pr_roster, pr_links, pr_applied, pr_profiles, pr_ratings>>

\* The link is removed; what was materialised from it stays.
UnlinkDemo(p) ==
    /\ Keeps("unlink")
    /\ \E l \in pr_links : pr_links' = pr_links \ {l}
    /\ Request(p, NoRequest)
    /\ UNCHANGED <<pr_match, pr_roster, pr_lineups, pr_applied, pr_profiles, pr_ratings>>

-----------------------------------------------------------------------------
(* The last step of the saga: the profiles *)

Authority == <<"demo", "admin", "evidence", "declared">>

\* distinct_participants: those the most authoritative source names.
distinct_participants(m, s) ==
    LET present == {i \in DOMAIN Authority : PlayersBy(m, s, Authority[i]) # {}}
    IN  IF present = {} THEN {} ELSE PlayersBy(m, s, Authority[Min(present)])

\* credited_players: the registration's own player when there is no lineup, or it
\* could not be read.
credited_players(m, s, read) ==
    IF read /\ distinct_participants(m, s) # {} THEN distinct_participants(m, s)
    ELSE IF scenario.kind = "individual" THEN pr_roster[s] ELSE {}

\* Links of the match whose demo is still there.
find_by_match_with_demos(m) == {l[1] : l \in {l \in pr_links : l[2] = m}}

\* try_build_match_data: one linked demo, whichever comes first, or none.
MatchData(m) == IF find_by_match_with_demos(m) = {} THEN {"none"} ELSE find_by_match_with_demos(m)

\* build_demo_data: those it has numbers for.
InDemo(d, x) == d # "none" /\ x \in DOMAIN PrDemos[d].players

\* Winners first; every credit is a read of the profile and a write.
Crediting(m, d, read) ==
    LET w == pr_match[m].winner
    IN  [pc |-> "credit", match |-> m, won |-> credited_players(m, w, w \in read),
         lost |-> credited_players(m, 3 - w, 3 - w \in read), stats |-> {}, player |-> "none", demo |-> d]

\* The result stands, and the saga runs its last step.
CompleteMatch(p) ==
    /\ Keeps("complete")
    /\ \E m \in PrMatches : \E w \in RecordSides :
          /\ pr_match[m].status = "in_progress"
          /\ pr_match' = [pr_match EXCEPT ![m] = [status |-> "completed", winner |-> w, saga |-> "open"]]
          /\ Request(p, [pc |-> "saga", match |-> m])
    /\ UNCHANGED <<pr_roster, pr_lineups, pr_links, pr_applied, pr_profiles, pr_ratings>>

\* The sides whose lineup is read; a failure is logged.
LineupsRead == IF "unread" \in scenario.ops THEN SUBSET RecordSides ELSE {RecordSides}

\* update_player_stats: a pick-up game leaves the profiles alone.
UpdatePlayerStats(p) ==
    LET m == req[p].match
    IN  /\ At(p, "saga")
        /\ \E d \in MatchData(m), read \in LineupsRead :
              Continue(p, IF scenario.kind = "pug" THEN [pc |-> "done", match |-> m] ELSE Crediting(m, d, read))
        /\ UNCHANGED prTables

\* Who is next, and whether as a winner.
NextCredit(r) == IF r.won # {} THEN r.won \X {TRUE} ELSE r.lost \X {FALSE}

\* calculate_new_stats reads the stats that the match is added to.
ReadStats(p) ==
    LET r == req[p]
    IN  /\ At(p, "credit")
        /\ \/ /\ NextCredit(r) = {}
              /\ Continue(p, [pc |-> "done", match |-> r.match])
           \/ \E c \in NextCredit(r) :
                 Continue(p, [r EXCEPT !.pc = "apply", !.player = c[1],
                                       !.stats = pr_profiles[c[1]].stats
                                                 \cup (IF InDemo(r.demo, c[1]) THEN {r.match} ELSE {})])
        /\ UNCHANGED prTables

\* Mutant: the ledger is written but not asked.
AccumulateTwice(applied, x, m) == TRUE

\* The ledger insert claims the pair.
Claims(applied, x, m) == <<x, m>> \notin applied

\* What one match adds to a profile.
Accumulated(profile, won, stats) ==
    LET streak == IF won THEN profile.streak + 1 ELSE 0
    IN  [profile EXCEPT !.played = @ + 1, !.stats = stats,
                        !.wins = IF won THEN @ + 1 ELSE @, !.losses = IF won THEN @ ELSE @ + 1,
                        !.streak = streak,
                        !.best = IF won THEN Max({@, streak}) ELSE Max({@, profile.streak})]

\* update_stats_after_match: ledger and counters in one transaction.
ApplyStats(p) ==
    LET r == req[p]
        won == r.player \in r.won
        old == [pr_profiles[r.player] EXCEPT !.exists = TRUE]
    IN  /\ At(p, "apply")
        /\ pr_profiles' = [pr_profiles EXCEPT ![r.player] =
                              IF Claims(pr_applied, r.player, r.match) THEN Accumulated(old, won, r.stats) ELSE old]
        /\ pr_applied' = pr_applied \cup {<<r.player, r.match>>}
        /\ Continue(p, [r EXCEPT !.pc = "credit", !.won = @ \ {r.player},
                                 !.lost = IF won THEN @ ELSE @ \ {r.player}])
        /\ UNCHANGED <<pr_match, pr_roster, pr_lineups, pr_links, pr_ratings>>

FinishSaga(p) ==
    /\ At(p, "done")
    /\ pr_match' = [pr_match EXCEPT ![req[p].match].saga = "done"]
    /\ Finish(p)
    /\ UNCHANGED <<pr_roster, pr_lineups, pr_links, pr_applied, pr_profiles, pr_ratings>>

\* Mutant: a saga that has credited somebody is taken for finished.
Untouched(m) == pr_match[m].saga = "open" /\ ~\E a \in pr_applied : a[2] = m

\* find_retryable: the sagas that did not finish.
Retryable(m) == pr_match[m].saga = "open"

\* A saga whose task died is driven again.
RedriveStats(p) ==
    /\ Keeping
    /\ \E m \in PrMatches :
          /\ Retryable(m)
          /\ \A q \in Users : req[q] # NoRequest => req[q].pc \notin {"saga", "credit", "apply", "done"}
          /\ Wake(p, [pc |-> "saga", match |-> m])
    /\ UNCHANGED prTables

-----------------------------------------------------------------------------
(* Ratings *)

\* A rating comes from a service account (submit_player_rating), or from the demo of a
\* delivered match (process_demo_ratings): first of all the profile is there.
RatingArrives(p, pc) ==
    /\ Keeps("rating")
    /\ Cardinality(pr_ratings) < MaxRatings
    /\ \E x \in PrPlayers : \E rating \in PrRatings : \E at \in 1..MaxRatings :
          /\ Request(p, [pc |-> pc, player |-> x, rating |-> rating, at |-> at])
          /\ pr_profiles' = [pr_profiles EXCEPT ![x].exists = TRUE]
    /\ UNCHANGED <<pr_match, pr_roster, pr_lineups, pr_links, pr_applied, pr_ratings>>

SubmitPlayerRating(p) == RatingArrives(p, "rate")
ProcessDemoRating(p) == RatingArrives(p, "demo_rating")

\* update_rating
update_rating(profile, rating) == [profile EXCEPT !.rating = rating, !.peak = Max({@, rating})]

WriteRating(p) ==
    /\ At(p, "rate")
    /\ pr_profiles' = [pr_profiles EXCEPT ![req[p].player] = update_rating(@, req[p].rating)]
    /\ Continue(p, [req[p] EXCEPT !.pc = "history"])
    /\ UNCHANGED <<pr_match, pr_roster, pr_lineups, pr_links, pr_applied, pr_ratings>>

InsertRating(p) ==
    /\ At(p, "history")
    /\ pr_ratings' = pr_ratings \cup {<<req[p].player, req[p].at, req[p].rating, "report">>}
    /\ Finish(p)
    /\ UNCHANGED <<pr_match, pr_roster, pr_lineups, pr_links, pr_applied, pr_profiles>>

\* A demo's rating goes into the history alone, once per player and match, of which
\* the time stands here; the profile keeps its rating and its peak.
InsertDemoRating(p) ==
    LET r == req[p]
        delivered == \E h \in pr_ratings : h[1] = r.player /\ h[2] = r.at /\ h[4] = "demo"
    IN  /\ At(p, "demo_rating")
        /\ pr_ratings' = IF delivered THEN pr_ratings
                         ELSE pr_ratings \cup {<<r.player, r.at, r.rating, "demo">>}
        /\ Finish(p)
        /\ UNCHANGED <<pr_match, pr_roster, pr_lineups, pr_links, pr_applied, pr_profiles>>

-----------------------------------------------------------------------------
PrStep(p) ==
    \/ WriteDeclared(p) \/ LockLineups(p) \/ MaterializeSide(p) \/ UpdatePlayerStats(p)
    \/ ReadStats(p) \/ ApplyStats(p) \/ FinishSaga(p) \/ WriteRating(p) \/ InsertRating(p)
    \/ InsertDemoRating(p)

PrRequest(p) ==
    \/ DeclareLineup(p) \/ StartMatch(p) \/ ChangeRoster(p) \/ LinkPlayedDemo(p) \/ UnlinkDemo(p)
    \/ CompleteMatch(p) \/ SubmitPlayerRating(p) \/ ProcessDemoRating(p)

PrNext ==
    \E p \in Tasks : \/ PrRequest(p) \/ RedriveStats(p) \/ PrStep(p)
                     \/ Keeping /\ Die(p) /\ UNCHANGED prTables

PrSpec == RequestsInit /\ PrInit /\ [][PrNext]_prVars
PrFairness == WF_prVars(RedriveStats(Pass)) /\ WF_prVars(\E p \in Tasks : PrStep(p))
PrFairSpec == PrSpec /\ PrFairness

-----------------------------------------------------------------------------
(* Properties *)

\* Type invariant.
PrTypeOK ==
    Keeping =>
    /\ RequestsTypeOK
    /\ \A m \in PrMatches : \A s \in RecordSides :
          /\ pr_lineups[m][s].status \in LineupStatus \cup {"none"}
          /\ pr_lineups[m][s].locked <=> pr_lineups[m][s].status = "locked"
          /\ \A r \in pr_lineups[m][s].rows : r.source \in LineupSource /\ (r.source = "declared" <=> r.game = 0)
    /\ pr_applied \subseteq PrPlayers \X PrMatches
    /\ \A x \in PrPlayers : pr_profiles[x].wins + pr_profiles[x].losses = pr_profiles[x].played

\* Every match counts once: however often a saga is driven, and however two of
\* them interleave, a profile has counted as many matches as the ledger names,
\* and its best streak is no shorter than the present one.
CountedOncePerMatch ==
    Keeping =>
    \A x \in PrPlayers :
        /\ pr_profiles[x].played = Cardinality({a \in pr_applied : a[1] = x})
        /\ pr_profiles[x].best >= pr_profiles[x].streak

\* A promise is final once it is locked: the declared rows of a locked lineup
\* never change, also when the declaration was on its way when the match began.
LockedPromiseStands ==
    Keeping => \A m \in PrMatches : \A s \in RecordSides :
          pr_lineups[m][s].locked =>
              /\ pr_lineups'[m][s].locked
              /\ {r \in pr_lineups'[m][s].rows : r.source = "declared"}
                   = {r \in pr_lineups[m][s].rows : r.source = "declared"}

\* Served one by one, a match that has started shows both lineups: what was
\* promised before is locked, also a draft nobody submitted.
StartedIsLocked ==
    (Keeping /\ scenario.serial /\ Quiescent /\ crashes = 0) =>
    \A m \in PrMatches : \A s \in RecordSides :
        pr_match[m].status = "in_progress" => pr_lineups[m][s].status \in {"none", "locked"}

\* A promise does not dilute a record: in executions served one by one, where the
\* lineups can be read, a player is credited for a match when a demo of the match has
\* the player on that side, and without a demo for the side when the player was
\* promised or registered.
OnlyPlayersAreCredited ==
    (Keeping /\ scenario.serial /\ "unread" \notin scenario.ops) =>
       \A a \in pr_applied' \ pr_applied : \E s \in RecordSides :
          \/ a[1] \in PlayersBy(a[2], s, "demo")
          \/ /\ PlayersBy(a[2], s, "demo") = {}
             /\ a[1] \in PlayersBy(a[2], s, "declared") \cup pr_roster[s]

\* Nobody is forgotten: when the saga is done, everyone it credits was counted,
\* also when an earlier attempt died half way, if the lineups could be read.
EveryoneIsCredited ==
    (Keeping /\ scenario.serial /\ scenario.kind # "pug" /\ "unread" \notin scenario.ops) =>
       \A m \in PrMatches : (pr_match[m].saga = "open" /\ pr_match'[m].saga = "done") =>
          \A s \in RecordSides : \A x \in credited_players(m, s, TRUE) : <<x, m>> \in pr_applied

\* The same game ingested twice leaves one record: a lineup's demo rows of a
\* game come from a demo that is linked as that game, or was.
OneRecordPerGame ==
    (Keeping /\ scenario.serial /\ Quiescent /\ crashes = 0 /\ "transfer" \notin scenario.ops) =>
    \A m \in PrMatches : \A s \in RecordSides : \A g \in scenario.games :
        LET recorded == {r.player : r \in {r \in pr_lineups[m][s].rows : r.source = "demo" /\ r.game = g}}
        IN  recorded = {} \/ \E d \in DOMAIN PrDemos :
                                recorded = {x \in DOMAIN PrDemos[d].players : SideOf(d, x) = s}

\* However reports overlap, the peak of a profile is the highest rating that was ever
\* reported to it, its default included; what the demos say never moves it.
Reported(x) == {h \in pr_ratings : h[1] = x /\ h[4] = "report"}
PeakFollowsReports ==
    (Keeping /\ Quiescent /\ crashes = 0) =>
    \A x \in PrPlayers : pr_profiles[x].peak = Max({DefaultRating} \cup {h[3] : h \in Reported(x)})

\* A completed match reaches the profiles, wherever its task dies.
StatsReachProfiles ==
    \A m \in PrMatches :
        (Keeping /\ pr_match[m].saga = "open") ~> (Keeping => pr_match[m].saga = "done")

\* The records of a player are those of the games played, each counted once.
RecordsFollowGames ==
    PrTypeOK /\ CountedOncePerMatch /\ StartedIsLocked /\ OneRecordPerGame /\ PeakFollowsReports

=============================================================================
