--------------------------- MODULE DemoValidation ---------------------------
(***************************************************************************)
(* A claimed result against the demos of its match.  The service refuses a *)
(* claim that contradicts itself or the format; the completion saga holds  *)
(* a confirmed claim up when a demo it names shows another score, an       *)
(* unknown player, or a line-up against the rules; a participant may ask   *)
(* for a verdict of the CS2 plugin.  Lineups and demo links are those of   *)
(* PlayerRecords.                                                          *)
(*   At the end, as pure functions: which match a demo belongs to (the     *)
(* automatic link after its statistics arrive, the demos suggested for a   *)
(* match, their relevance) and the two scanners' translations of a parsed  *)
(* demo into what they submit.  There, times are hours, and a relevance is *)
(* a numerator over RelevanceMax of the match.                             *)
(***************************************************************************)
EXTENDS PlayerRecords, Integers, Sequences

CONSTANTS
    DvFilm,     \* demo -> [score, map, parsed, guests]: what its statistics say
                \* of its two teams, and whether a player without account is in it
    DvPool,     \* the maps of the match: picked in its veto, or of its pool
    DvOverCap   \* the line-ups over an eligibility maximum

VARIABLES
    dv_claim,   \* dv_claim[m]: the latest claim for match m
    dv_checked  \* dv_checked[m]: what the saga made of it

dvTables == <<dv_claim, dv_checked>>
dvVars == <<prVars, dvTables>>

ASSUME DemoValidationAssumption == DOMAIN DvFilm = DOMAIN PrDemos

NoClaim == [score |-> <<0, 0>>, winner |-> 0, games |-> << >>, links |-> {}]
Checked == {"unchecked", "clean", "pending_acknowledgment", "pending_admin_review"}

DvInit ==
    /\ dv_claim = [m \in PrMatches |-> NoClaim]
    /\ dv_checked = [m \in PrMatches |-> "unchecked"]

-----------------------------------------------------------------------------
(* What may be claimed.                                                     *)

Swapped(score) == <<score[2], score[1]>>

\* Every map of the claim is one of the match.
check_map_ids(games) == \A i \in DOMAIN games : games[i].map \in DvPool
validate_map_ids(games) == games = << >> \/ check_map_ids(games)

\* Games are numbered by their place; there are as many as the series has.
GamesAddUp(c) ==
    LET won(s) == Cardinality({i \in DOMAIN c.games : c.games[i].score[s] > c.games[i].score[3 - s]}) IN
    /\ Len(c.games) = c.score[1] + c.score[2]
    /\ \A i \in DOMAIN c.games : c.games[i].score[1] # c.games[i].score[2]
    /\ won(1) = c.score[1] /\ won(2) = c.score[2]

validate_claim(c) ==
    LET n == c.score[1] + c.score[2] IN
    /\ c.winner \in RecordSides
    /\ c.score[c.winner] > c.score[3 - c.winner]
    /\ n >= scenario.wins /\ n <= scenario.wins * 2 - 1
    /\ c.games # << >> => GamesAddUp(c)
    /\ validate_map_ids(c.games)

LinksOf(m) == {l \in pr_links : l[2] = m}

\* A claim replaces the one before it while the match awaits its result, which
\* "in_progress" includes here; the links it names are of the match, those its
\* games name are taken as they are.
submit_claim(p) ==
    /\ Keeps("claim")
    /\ \E m \in PrMatches : \E c \in scenario.claims : \E links \in SUBSET LinksOf(m) :
          /\ pr_match[m].status = "in_progress" /\ dv_checked[m] = "unchecked"
          /\ validate_claim(c)
          /\ dv_claim' = [dv_claim EXCEPT ![m] = [c EXCEPT !.links = links]]
          /\ Request(p, NoRequest)
    /\ UNCHANGED dv_checked

-----------------------------------------------------------------------------
(* What the saga checks.                                                    *)

\* The game a link is of: by its number, else by the game that names it.
GameOf(c, l) ==
    LET numbered == {i \in DOMAIN c.games : i = l[3]} IN
    IF numbered # {} THEN numbered ELSE {i \in DOMAIN c.games : c.games[i].demo = l[1]}

\* The score the demo is compared with: of its game, else of the series.
ClaimedScore(c, l) ==
    IF GameOf(c, l) = {} THEN c.score ELSE c.games[Min(GameOf(c, l))].score

\* Registered players of the demo in neither side's recorded lineup.
sideless_registered(m, d) ==
    LET recorded == UNION {PlayersBy(m, s, "demo") : s \in RecordSides} IN
    IF recorded = {} THEN {} ELSE DOMAIN PrDemos[d].players \ recorded

collect_unrecognized_players(d) == DvFilm[d].guests

\* The demo's team 1 is taken for participant 1.
has_score_mismatch(c, l) ==
    DvFilm[l[1]].parsed /\ DvFilm[l[1]].score # ClaimedScore(c, l)

\* Another map, or no statistics, is a warning.
has_warning(c, l) ==
    IF DvFilm[l[1]].parsed
    THEN \E i \in GameOf(c, l) : c.games[i].map # DvFilm[l[1]].map
    ELSE TRUE

DemoValidationOutcome(m, c, l) ==
    [score |-> has_score_mismatch(c, l), warned |-> has_warning(c, l),
     roster |-> collect_unrecognized_players(l[1]) \/ sideless_registered(m, l[1]) # {}]

substitutes_are_minority(subs, size) == subs * 2 < size \/ size = 0

\* The rules of a lineup, on those who played: few substitutes, no maximum
\* exceeded, nobody against the team whose roster has him.
BreaksLineupRules(m, s) ==
    LET played == PlayersBy(m, s, "demo")
        subs   == {r.player : r \in {r \in pr_lineups[m][s].rows : r.source = "demo" /\ ~r.was_rostered}}
    IN  /\ played # {}
        /\ \/ ~substitutes_are_minority(Cardinality(subs), Cardinality(played))
           \/ played \in DvOverCap
           \/ scenario.kind = "team" /\ played \cap pr_roster[3 - s] # {}

lineup_violations(m) == \E s \in RecordSides : BreaksLineupRules(m, s)

\* The claim is confirmed and its saga reaches the demos: without a demo in
\* the claim, or with none linked to the match, nothing is checked.
step_validate_demos(p) ==
    /\ Keeps("claim")
    /\ \E m \in PrMatches :
          /\ dv_claim[m] # NoClaim /\ dv_checked[m] = "unchecked"
          /\ \A q \in Tasks : At(q, "dv link") \/ At(q, "dv lineup") \/ At(q, "dv review") => req[q].match # m
          /\ IF dv_claim[m].links = {} \/ LinksOf(m) = {}
             THEN /\ dv_checked' = [dv_checked EXCEPT ![m] = "clean"]
                  /\ Request(p, NoRequest)
             ELSE /\ Request(p, [pc |-> "dv link", match |-> m, claim |-> dv_claim[m],
                                 todo |-> dv_claim[m].links \cap LinksOf(m), outcomes |-> {}])
                  /\ UNCHANGED dv_checked
    /\ UNCHANGED dv_claim

\* One of the demos the claim names; an outcome without an issue is dropped.
validate_match_demos(p) ==
    LET r == req[p] IN
    /\ At(p, "dv link")
    /\ IF r.todo = {} THEN Continue(p, [r EXCEPT !.pc = "dv lineup"])
       ELSE \E l \in r.todo :
               LET o == DemoValidationOutcome(r.match, r.claim, l) IN
               Continue(p, [r EXCEPT !.todo = @ \ {l},
                   !.outcomes = IF o.score \/ o.warned \/ o.roster THEN @ \cup {o} ELSE @])
    /\ UNCHANGED dvTables

\* A broken rule is added to an outcome, or makes one of its own.
CheckLineups(p) ==
    LET r == req[p] IN
    /\ At(p, "dv lineup")
    /\ Continue(p, [r EXCEPT !.pc = "dv review", !.outcomes =
           IF lineup_violations(r.match)
           THEN @ \cup {[score |-> FALSE, warned |-> FALSE, roster |-> TRUE]} ELSE @])
    /\ UNCHANGED dvTables

for_score_mismatch == "pending_admin_review"
for_roster_mismatch == "pending_acknowledgment"

\* No review for warnings alone.
create_from_validation(roster, score) ==
    IF score THEN for_score_mismatch ELSE IF roster THEN for_roster_mismatch ELSE "clean"

create_if_needed(p) ==
    LET r == req[p] IN
    /\ At(p, "dv review")
    /\ dv_checked' = [dv_checked EXCEPT ![r.match] =
           create_from_validation(\E o \in r.outcomes : o.roster, \E o \in r.outcomes : o.score)]
    /\ Finish(p)
    /\ UNCHANGED dv_claim

-----------------------------------------------------------------------------
(* What the plugin says of a demo and a claimed game.                       *)

steam_ids_for_team(d, t) == {x \in DOMAIN PrDemos[d].players : PrDemos[d].players[x] = t}
On(d, ids, t) == Cardinality(ids \cap steam_ids_for_team(d, t))
verify_players(d, ids) == ids \subseteq DOMAIN PrDemos[d].players

\* Which team is whose, and twice the confidence, times both sizes.  The teams
\* are looked at in order a, b, and no team is found when nothing tells.
determine_team_mapping(d, ids1, ids2, a, b) ==
    LET size(ids) == Max({1, Cardinality(ids)})
        fit(t1, t2) == [teams |-> <<t1, t2>>, num |-> On(d, ids1, t1) * size(ids2) + On(d, ids2, t2) * size(ids1),
                        den |-> 2 * size(ids1) * size(ids2)]
    IN  IF On(d, ids1, a) > On(d, ids1, b) \/ On(d, ids2, b) > On(d, ids2, a) THEN {fit(a, b)}
        ELSE IF On(d, ids1, b) > On(d, ids1, a) \/ On(d, ids2, a) > On(d, ids2, b) THEN {fit(b, a)}
        ELSE IF On(d, ids1, a) > 0 /\ On(d, ids2, b) > 0 THEN {fit(a, b)} ELSE {}

score_for_team(d, t) == IF t = PrDemos[d].teams[1] THEN DvFilm[d].score[1] ELSE DvFilm[d].score[2]

\* Valid: no error, and a confidence above one half after 0.7 per warning.
validate(d, ids1, ids2, map, score, a, b) ==
    LET warnings == (IF verify_players(d, ids1) THEN 0 ELSE 1) + (IF verify_players(d, ids2) THEN 0 ELSE 1)
    IN  /\ map = DvFilm[d].map
        /\ \E f \in determine_team_mapping(d, ids1, ids2, a, b) :
              /\ score = <<score_for_team(d, f.teams[1]), score_for_team(d, f.teams[2])>>
              /\ 2 * f.num * 7^warnings > f.den * 10^warnings

\* The endpoint answers and stores nothing; the team names of the parsed file
\* are the keys of a hash map, so they come in either order.
validate_demo(p) ==
    /\ Keeps("verdict")
    /\ \E d \in DOMAIN PrDemos : \E l \in scenario.lists : \E score \in scenario.scores : \E map \in scenario.maps :
          \E i \in {1, 2} :
             Request(p, [pc |-> "dv answer", demo |-> d, lists |-> l, score |-> score, map |-> map,
                         valid |-> validate(d, l[1], l[2], map, score,
                                            PrDemos[d].teams[i], PrDemos[d].teams[3 - i])])
    /\ UNCHANGED dvTables

Answer(p) == At(p, "dv answer") /\ Finish(p) /\ UNCHANGED dvTables

DvStep(p) == validate_match_demos(p) \/ CheckLineups(p) \/ create_if_needed(p) \/ Answer(p)
DvNext ==
    \/ PrNext /\ UNCHANGED dvTables
    \/ \E p \in Tasks : (submit_claim(p) \/ step_validate_demos(p) \/ validate_demo(p) \/ DvStep(p)) /\ UNCHANGED prTables
DvSpec == RequestsInit /\ PrInit /\ DvInit /\ [][DvNext]_dvVars

-----------------------------------------------------------------------------
\* Claims and what became of them.
DvTypeOK ==
    /\ DOMAIN dv_claim = PrMatches
    /\ dv_checked \in [PrMatches -> Checked]
    /\ \A m \in PrMatches : dv_claim[m] # NoClaim => validate_claim(dv_claim[m])

\* The file's team 1 is the side that is participant 1.
InOrder(d) ==
    \A s \in RecordSides : \A x \in pr_roster[s] \cap DOMAIN PrDemos[d].players :
        PrDemos[d].players[x] = PrDemos[d].teams[s]

\* scenario.truth[i] is the score of game i; d is of game DvFilm[d].of.
Identified(c, l) == InOrder(l[1]) /\ l[3] = DvFilm[l[1]].of /\ l[3] \in DOMAIN c.games

\* A claim that tells what was played is not held up for its score, if its
\* demos name the sides in order and are numbered (validate_match_demos).
HonestClaimPasses ==
    \A m \in PrMatches : dv_checked[m] = "pending_admin_review" =>
        LET c == dv_claim[m] IN
        ~ /\ \A i \in DOMAIN c.games : c.games[i].score = scenario.truth[i]
          /\ \A l \in c.links : Identified(c, l)

\* A claim that names a demo of a game that ended otherwise waits for an admin.
FalseClaimIsHeld ==
    \A m \in PrMatches : dv_checked[m] \in {"clean", "pending_acknowledgment"} =>
        LET c == dv_claim[m] IN
        \A l \in c.links : DvFilm[l[1]].parsed /\ Identified(c, l) =>
            c.games[DvFilm[l[1]].of].score = scenario.truth[DvFilm[l[1]].of]

\* A side that fielded too many who are not of it, or somebody of the other.
Stacked(d) ==
    \E s \in RecordSides :
        LET played == {x \in DOMAIN PrDemos[d].players : SideOf(d, x) = s} IN
        \/ played # {} /\ Cardinality(played) <= 2 * Cardinality(played \ pr_roster[s])
        \/ played \cap pr_roster[3 - s] # {}

\* Nobody unknown passes unseen in a demo the claim names, and no line-up
\* against the rules once it is recorded (collect_unrecognized_players,
\* lineup_violations).
LineupsAreSeen ==
    \A m \in PrMatches : dv_checked[m] = "clean" =>
        \A l \in dv_claim[m].links :
            /\ ~DvFilm[l[1]].guests
            /\ scenario.serial /\ scenario.required /\ LinksOf(m) = {l} => ~Stacked(l[1])

\* The plugin tells a true score from a false one whatever the order it meets
\* the teams in, when it is given those who played on either side.
VerdictIsTrue ==
    \A p \in Tasks : At(p, "dv answer") =>
        LET r == req[p] IN
        (\A s \in RecordSides : r.lists[s] # {} /\ r.lists[s] \subseteq steam_ids_for_team(r.demo, scenario.names[s])) =>
            (r.valid <=> /\ r.map = DvFilm[r.demo].map
                         /\ r.score = scenario.truth[DvFilm[r.demo].of])

\* What the evidence says of a claim is what becomes of it.
ClaimsAreChecked == DvTypeOK /\ HonestClaimPasses /\ FalseClaimIsHeld /\ LineupsAreSeen /\ VerdictIsTrue

-----------------------------------------------------------------------------
DmUnknown == -1000
DmApart(a, b) == IF a > b THEN a - b ELSE b - a

-----------------------------------------------------------------------------
(* The automatic link.  AUTO_LINK_CANDIDATE_LIMIT, a hundred matches, is    *)
(* not reached.                                                             *)

AUTO_LINK_WINDOW_HOURS == 24

\* AUTO_LINK_MIN_CONFIDENCE, six in ten.
IsConfident(overlap, all) == 10 * overlap >= 6 * all

\* Matches with two participants of no pick-up game, by their own time or,
\* without one, by the time their tournament runs.
list_auto_link_candidates(match_date, matches) ==
    {m \in matches :
        /\ m.kind = "standard" /\ m.full
        /\ IF m.scheduled_at # DmUnknown
           THEN DmApart(m.scheduled_at, match_date) <= AUTO_LINK_WINDOW_HOURS
           ELSE /\ m.cup[1] # DmUnknown
                /\ m.cup[1] - AUTO_LINK_WINDOW_HOURS <= match_date
                /\ m.cup[2] + AUTO_LINK_WINDOW_HOURS >= match_date}

\* Of the confident candidates one with most players of the demo; the order of
\* the candidates, which decides between equals, is the database's.
best_candidate(d, matches) ==
    LET overlap(m) == Cardinality((m.roster[1] \cup m.roster[2]) \cap d.players)
        near == IF d.players = {} \/ d.match_date = DmUnknown THEN {}
                ELSE {m \in list_auto_link_candidates(d.match_date, matches) :
                         IsConfident(overlap(m), Cardinality(d.players))}
    IN  {m \in near : \A n \in near : overlap(n) <= overlap(m)}

-----------------------------------------------------------------------------
(* Suggestions                                                              *)

\* A team's registration names no player, and so no Steam ID.
build_evidence_context(m) ==
    [steam_ids |-> IF m.teams THEN <<{}, {}>> ELSE m.roster,
     time      |-> IF m.started_at # DmUnknown THEN m.started_at ELSE m.scheduled_at]
SteamIdsOf(context) == context.steam_ids[1] \cup context.steam_ids[2]

\* Ready, visible demos with somebody of the match, not linked to it yet, and
\* where the match has a time, of known date within six hours of it.
find_matching_for_context(m, context, demos) ==
    {d \in demos :
        /\ d.ready /\ ~d.is_hidden /\ m.id \notin d.links
        /\ d.players \cap SteamIdsOf(context) # {}
        /\ context.time # DmUnknown =>
               d.match_date # DmUnknown /\ DmApart(d.match_date, context.time) <= 6}

RelevanceMax(context) == 2400 * Cardinality(SteamIdsOf(context))

\* Half for the players, 0.3 for the time, neutral when it is not known, 0.15
\* for somebody of either side, and 0.05 always.
compute_relevance(d, context) ==
    LET ids == SteamIdsOf(context)
        n == Cardinality(ids)
        hours == DmApart(d.match_date, context.time)
        time == IF d.match_date = DmUnknown \/ context.time = DmUnknown THEN 12
                ELSE IF hours < 24 THEN 24 - hours ELSE 0
        both == IF \A s \in 1 .. 2 : context.steam_ids[s] \cap d.players # {} THEN 1 ELSE 0
    IN  1200 * Cardinality(ids \cap d.players) + 30 * n * time + 360 * n * both + 120 * n

discover_for_match(m, demos) ==
    LET context == build_evidence_context(m)
    IN  IF SteamIdsOf(context) = {} THEN {}
        ELSE {[demo |-> d, relevance |-> compute_relevance(d, context)] :
                 d \in find_matching_for_context(m, context, demos)}

\* The plugin itself discovers nothing; the catalogue's suggestions from
\* min_relevance on, the first of them by relevance: one of these sets.
discover_evidence(m, demos, min_relevance, limit) ==
    LET found == {x \in discover_for_match(m, demos) : x.relevance >= min_relevance}
        size == IF Cardinality(found) < limit THEN Cardinality(found) ELSE limit
    IN  {shown \in SUBSET found :
            /\ Cardinality(shown) = size
            /\ \A x \in shown, y \in found \ shown : y.relevance <= x.relevance}

-----------------------------------------------------------------------------
(* What the scanners submit of a parsed demo.                               *)

DmScore(stats, team) == IF team \in DOMAIN stats.final_score THEN stats.final_score[team] ELSE 0

DmRequest(stats, team1, team2, score1, score2) ==
    [team1_name |-> team1, team2_name |-> team2, team1_score |-> score1, team2_score |-> score2,
     total_rounds |-> stats.rounds, players |-> stats.players]

\* The scanner: the teams in the order of a hash map, that is in any order.
convert_stats(stats) ==
    {DmRequest(stats, pair[1], pair[2], DmScore(stats, pair[1]), DmScore(stats, pair[2])) :
        pair \in IF Cardinality(stats.teams) >= 2
                 THEN {q \in stats.teams \X stats.teams : q[1] # q[2]} ELSE {<<"Team 1", "Team 2">>}}

\* portal-cli reads the teams as an array, which the parser's object is not.
convert_cs2_stats_to_request(stats) ==
    [team1_name |-> "Team 1", team2_name |-> "Team 2", team1_score |-> 0, team2_score |-> 0,
     total_rounds |-> 0, players |-> {}]

-----------------------------------------------------------------------------
(* The small matches and demos the properties are checked over.             *)

DmPlayers == {"a1", "a2", "b1", "b2", "x1", "x2"}
DmMatch(id, roster, scheduled, started, cup, teams) ==
    [id |-> id, kind |-> "standard", full |-> TRUE, roster |-> roster, scheduled_at |-> scheduled,
     started_at |-> started, cup |-> cup, teams |-> teams]
DmMatches ==
    {DmMatch("m", <<{"a1", "a2"}, {"b1", "b2"}>>, at, started, <<DmUnknown, DmUnknown>>, teams) :
        at \in {0, DmUnknown}, started \in {8, DmUnknown}, teams \in BOOLEAN}
    \cup {DmMatch("n", <<{"a1", "a2"}, {"x1", "b2"}>>, at, DmUnknown, cup, TRUE) :
             at \in {0, 30, DmUnknown}, cup \in {<<DmUnknown, 0>>, <<-40, -30>>, <<-10, 40>>}}
    \cup {[DmMatch("p", <<{"a1", "a2"}, {"b1", "b2"}>>, 0, 0, <<0, 0>>, TRUE) EXCEPT !.kind = "pug"]}
DmDemos ==
    [players : SUBSET DmPlayers, match_date : {-6, 0, 7, 30, DmUnknown}, ready : {TRUE}, is_hidden : {FALSE}, links : {{}}]
    \cup [players : {{"a1", "b1"}}, match_date : {0}, ready : BOOLEAN, is_hidden : BOOLEAN, links : {{}, {"m"}}]
DmParsed ==
    [teams : {{}, {"A", "B"}}, final_score : [{"A", "B"} -> {0, 9, 13}], rounds : {0, 22}, players : SUBSET {"a1", "b1"}]

-----------------------------------------------------------------------------
(* Properties                                                               *)

\* A demo of exactly the players of a match is linked to one that all of them
\* play, never to a worse one; and a game in which every player of the other
\* side is a stranger to a match is not linked to that match, although one side
\* of it did play (AUTO_LINK_MIN_CONFIDENCE is above a half).
LinkNamesItsMatch ==
    \A d \in DmDemos, m, n \in DmMatches :
        LET best == best_candidate(d, {m, n})
            around == list_auto_link_candidates(d.match_date, {m})
        IN  /\ (d.match_date # DmUnknown /\ d.players = m.roster[1] \cup m.roster[2] /\ around # {}) =>
                   best # {} /\ \A b \in best : d.players \subseteq b.roster[1] \cup b.roster[2]
            /\ \A b \in best : \A s \in 1 .. 2 :
                   Cardinality(d.players) = 2 * Cardinality(d.players \cap b.roster[s]) =>
                       d.players \cap b.roster[3 - s] # {}
            /\ \A b \in best : b.kind = "standard"

\* Relevance is at most its maximum, and a demo with no fewer of the players,
\* no further in time, is never ranked below; what is shown is linked to the
\* match nowhere, and an automatic link to a match of single players within six
\* hours of it would have been suggested.
SuggestionsRank ==
    \A m \in {x \in DmMatches : x.id = "m"} :
        LET context == build_evidence_context(m)
            found == discover_for_match(m, DmDemos)
        IN  /\ \A x \in found : /\ 0 < x.relevance /\ x.relevance <= RelevanceMax(context)
                                /\ m.id \notin x.demo.links /\ ~x.demo.is_hidden
            /\ \A x, y \in found :
                  (/\ y.demo.players \cap SteamIdsOf(context) \subseteq x.demo.players
                   /\ context.time # DmUnknown
                   /\ DmApart(x.demo.match_date, context.time) <= DmApart(y.demo.match_date, context.time)) =>
                      y.relevance <= x.relevance
            /\ m.teams => found = {}
            /\ \A d \in DmDemos :
                  (/\ ~m.teams /\ best_candidate(d, {m}) # {} /\ context.time # DmUnknown
                   /\ DmApart(d.match_date, context.time) <= 6 /\ d.ready /\ ~d.is_hidden /\ d.links = {}) =>
                      \E x \in found : x.demo = d

\* The best suggestion is shown as long as one is shown at all.
BestIsShown ==
    \A m \in {x \in DmMatches : x.id = "m" /\ ~x.teams}, d, e \in {x \in DmDemos : x.match_date \in {0, 7}} :
        \A shown \in discover_evidence(m, {d, e}, 0, 1) :
            \A x \in discover_for_match(m, {d, e}) : \E y \in shown : y.relevance >= x.relevance

\* A submission gives each team the score it has in the demo, whichever of them
\* comes first, and names a player only if the demo does.
RequestsTellTheGame ==
    \A stats \in DmParsed :
        /\ \A r \in convert_stats(stats) :
               /\ stats.teams # {} => /\ {r.team1_name, r.team2_name} = stats.teams
                                      /\ r.team1_score = stats.final_score[r.team1_name]
                                      /\ r.team2_score = stats.final_score[r.team2_name]
               /\ r.players = stats.players
        /\ convert_cs2_stats_to_request(stats).players \subseteq stats.players

\* A demo finds its match (services/demo.rs, portal-scanner).
MatchingIsSound == LinkNamesItsMatch /\ SuggestionsRank /\ BestIsShown /\ RequestsTellTheGame
=============================================================================
