------------------------------- MODULE Awards -------------------------------
(***************************************************************************)
(* Awards of a tournament or of a league season: authoring, the standings  *)
(* computed from the stat facts of the demos linked to the scope's         *)
(* matches, and finalization, which snapshots the podium.  Demos are       *)
(* parsed, linked and unlinked next to it; a tournament is completed -     *)
(* which finalizes its awards - and later finalized, which locks them.     *)
(***************************************************************************)
EXTENDS Requests, Sequences, FiniteSets, SequencesExt, FiniteSetsExt

CONSTANTS
    AwCups,         \* tournaments, all of one season
    AwSeason,       \* that season
    AwMatchCup,     \* the tournament of each match
    AwDemos,        \* demos
    AwPlayers,      \* sequence of the registered players, by display name
    AwTemplates,    \* the game's templates: a function from keys to shapes
    AwCatalog,      \* the stat keys of the game plugin's catalog
    AwSheets,       \* fact lists an extraction may deliver
    FINALIZE_CANDIDATE_LIMIT,
    MaxAwards       \* bound: award rows

VARIABLES
    aw_awards,      \* sequence of award rows, the id being the position
    aw_results,     \* aw_results[a]: the rows of award_results of award a
    aw_facts,       \* aw_facts[d]: the stat facts of demo d
    aw_links,       \* set of <<demo, match>>
    aw_cups         \* aw_cups[t]: the status of tournament t

awTables == <<aw_awards, aw_results, aw_facts, aw_links, aw_cups>>
awVars == <<requestVars, awTables>>

PODIUM_MAX_RANK == 3
AwardScopes == AwCups \cup {AwSeason}
AwardStatus == {"active", "finalized", "void"}
NoQualifier == [type |-> "none", value |-> 0]

ASSUME AwardsAssumption ==
    /\ AwSeason \notin AwCups
    /\ \A m \in DOMAIN AwMatchCup : AwMatchCup[m] \in AwCups
    /\ FINALIZE_CANDIDATE_LIMIT \in Nat \ {0}
    /\ MaxAwards \in Nat

AwAllowed(op) == scenario.of = "awards" /\ op \in scenario.ops
AwMatches == DOMAIN AwMatchCup
AwIds == DOMAIN aw_awards

AwInit ==
    /\ aw_awards = IF scenario.of = "awards" THEN scenario.awards ELSE << >>
    /\ aw_results = [a \in DOMAIN aw_awards |-> {}]
    /\ aw_facts = [d \in AwDemos |-> {}]
    /\ aw_links = IF scenario.of = "awards" THEN scenario.links ELSE {}
    /\ aw_cups = [t \in AwCups |-> "in_progress"]

-----------------------------------------------------------------------------
(* The standings.  A value is a fraction <<numerator, denominator>>. *)

\* Facts of one demo and player and key: the last one of the list is kept.
DedupeFacts(list) ==
    {list[i] : i \in {i \in DOMAIN list : \A j \in DOMAIN list :
        (j > i) => ~ (list[j].steam = list[i].steam /\ list[j].stat = list[i].stat)}}

CupsIn(scope) == IF scope = AwSeason THEN AwCups ELSE {scope}

\* Mutant: a demo counts once for every link.
FactsPerLink(scope, stat, player) ==
    LET linked == {l \in aw_links : AwMatchCup[l[2]] \in CupsIn(scope)} IN
    UNION {{[demo |-> l, value |-> f.value] :
                f \in {f \in aw_facts[l[1]] : f.stat = stat /\ f.steam = player}} : l \in linked}

LinkedDemos(scope) == {l[1] : l \in {l \in aw_links : AwMatchCup[l[2]] \in CupsIn(scope)}}

\* The rows of a key for a player: one for each demo of the scope, however
\* many of the scope's matches the demo is linked to.
scoped_demos(scope, stat, player) ==
    UNION {{[demo |-> d, value |-> f.value] :
                f \in {f \in aw_facts[d] : f.stat = stat /\ f.steam = player}} :
           d \in LinkedDemos(scope)}

FactSum(rows) == MapThenSumSet(LAMBDA r : r.value, rows)

Aggregate(aggregation, rows) ==
    CASE aggregation = "sum"             -> <<FactSum(rows), 1>>
      [] aggregation = "max_single_demo" -> <<Max({r.value : r \in rows}), 1>>
      [] aggregation = "avg_per_demo"    -> <<FactSum(rows), Cardinality(rows)>>

Ahead(direction, x, y) ==
    IF direction = "desc" THEN x[1] * y[2] > y[1] * x[2] ELSE x[1] * y[2] < y[1] * x[2]
Level(x, y) == x[1] * y[2] = y[1] * x[2]

Qualifies(min, scope, player, rows) ==
    /\ Cardinality(rows) >= (IF min.type = "matches" THEN min.value ELSE 1)
    /\ min.type = "rounds" => FactSum(scoped_demos(scope, "rounds_played", player)) >= min.value

\* Who is ranked, with the value: in no order yet.
Entries(award) ==
    LET rows == [n \in DOMAIN AwPlayers |->
                    scoped_demos(award.scope, award.stat_key, AwPlayers[n])] IN
    {[player |-> AwPlayers[n], nth |-> n, demos |-> Cardinality(rows[n]),
      value |-> Aggregate(award.aggregation, rows[n])] :
        n \in {n \in DOMAIN AwPlayers :
                 Qualifies(award.min, award.scope, AwPlayers[n], rows[n])}}

\* By the value, then by the display name, cut at the limit.
leaderboard(award, limit) ==
    LET sorted == SetToSortSeq(Entries(award),
            LAMBDA x, y : \/ Ahead(award.direction, x.value, y.value)
                          \/ Level(x.value, y.value) /\ x.nth < y.nth) IN
    SubSeq(sorted, 1, Min({Len(sorted), limit}))

\* "1224": ties share a rank and the next rank skips.
competition_ranks(standings) ==
    LET rank[i \in DOMAIN standings] ==
            IF i > 1 /\ Level(standings[i].value, standings[i - 1].value)
            THEN rank[i - 1] ELSE i IN
    rank

\* take_while: the ranks never fall, so the first beyond the podium ends it.
podium_from_standings(standings) ==
    LET ranks == competition_ranks(standings) IN
    {[rank |-> ranks[i], player |-> standings[i].player, value |-> standings[i].value,
      demos |-> standings[i].demos] :
        i \in {i \in DOMAIN standings : ranks[i] <= PODIUM_MAX_RANK}}

\* The combined table of a scope: sums per player over the same demos, and the
\* damage per round as a fraction of the two sums.
StatKeys == {"kills", "deaths", "assists", "damage_dealt", "rounds_played"}

player_stats_leaderboard(scope, min_demos, min_rounds) ==
    LET demos(x) == {d \in LinkedDemos(scope) :
                        \E f \in aw_facts[d] : f.stat \in StatKeys /\ f.steam = x}
        total(x, stat) == MapThenSumSet(
            LAMBDA d : MapThenSumSet(LAMBDA f : f.value,
                {f \in aw_facts[d] : f.stat = stat /\ f.steam = x}), demos(x)) IN
    {[player |-> x, totals |-> [stat \in StatKeys |-> total(x, stat)],
      adr |-> IF total(x, "rounds_played") > 0
              THEN <<total(x, "damage_dealt"), total(x, "rounds_played")>> ELSE <<0, 1>>,
      demos |-> Cardinality(demos(x))] :
        x \in {x \in Range(AwPlayers) : /\ Cardinality(demos(x)) >= min_demos
                                        /\ total(x, "rounds_played") >= min_rounds}}

\* What a player's page shows: the podium rows of finalized awards.
list_trophies_by_player(x) ==
    {<<a, r>> \in UNION {{a} \X aw_results[a] : a \in AwIds} :
        r.player = x /\ aw_awards[a].status = "finalized"}

-----------------------------------------------------------------------------
(* Authoring. *)

\* The shape's own checks: a stat key, and a qualifier of at least 1.
validate_award_shape(shape) == shape.min.type # "none" => shape.min.value >= 1

\* A weapon's kills are an open set of keys; others are the catalog's.
validate_stat_key_for_game(shape) == shape.weapon \/ shape.stat_key \in AwCatalog

CreateAward(scope, name, shape) ==
    [scope |-> scope, name |-> name, stat_key |-> shape.stat_key,
     aggregation |-> shape.aggregation, direction |-> shape.direction, min |-> shape.min,
     status |-> "active"]

create_from_template(p, scope, key, name) ==
    /\ key \in DOMAIN AwTemplates
    /\ Request(p, [pc |-> "insert award", row |-> CreateAward(scope, name, AwTemplates[key])])

create_custom(p, scope, name, shape) ==
    /\ validate_award_shape(shape)
    /\ Request(p, [pc |-> "insert award", row |-> CreateAward(scope, name, shape)])

create_award_in_scope(p, scope) ==
    /\ AwAllowed("create")
    /\ scope \in scenario.scopes
    /\ Len(aw_awards) < MaxAwards
    /\ \E name \in scenario.names :
         \/ \E key \in DOMAIN AwTemplates : create_from_template(p, scope, key, name)
         \/ \E shape \in scenario.shapes :
              validate_stat_key_for_game(shape) /\ create_custom(p, scope, name, shape)
    /\ UNCHANGED awTables

CreateTournamentAward(p) == \E t \in AwCups : create_award_in_scope(p, t)
CreateSeasonAward(p) == create_award_in_scope(p, AwSeason)

NameTaken(scope, name, but) ==
    \E a \in AwIds \ but : aw_awards[a].scope = scope /\ aw_awards[a].name = name

\* The unique index awards_scope_name_unique refuses a second award of a name.
InsertAward(p) ==
    /\ At(p, "insert award")
    /\ Finish(p)
    /\ IF NameTaken(req[p].row.scope, req[p].row.name, {})
       THEN UNCHANGED awTables
       ELSE /\ aw_awards' = Append(aw_awards, req[p].row)
            /\ aw_results' = Append(aw_results, {})
            /\ UNCHANGED <<aw_facts, aw_links, aw_cups>>

award_is_active(a) == aw_awards[a].status = "active"

\* An award asked for under another scope's path is not found.
get_award_in_scope(a, scope) == a \in AwIds /\ aw_awards[a].scope = scope

update_award(p, scope) ==
    /\ AwAllowed("update")
    /\ \E a \in AwIds, name \in scenario.names :
         /\ get_award_in_scope(a, scope)
         /\ award_is_active(a)
         /\ Request(p, [pc |-> "rename award", award |-> a, name |-> name])
    /\ UNCHANGED awTables

UpdateTournamentAward(p) == \E t \in AwCups : update_award(p, t)
UpdateSeasonAward(p) == update_award(p, AwSeason)

UpdatePresentation(p) ==
    /\ At(p, "rename award")
    /\ Finish(p)
    /\ LET a == req[p].award IN
       aw_awards' = IF NameTaken(aw_awards[a].scope, req[p].name, {a}) THEN aw_awards
                    ELSE [aw_awards EXCEPT ![a].name = req[p].name]
    /\ UNCHANGED <<aw_results, aw_facts, aw_links, aw_cups>>

void_award(p, scope) ==
    /\ AwAllowed("void")
    /\ \E a \in AwIds : /\ get_award_in_scope(a, scope)
                        /\ award_is_active(a)
                        /\ Request(p, [pc |-> "void award", award |-> a])
    /\ UNCHANGED awTables

VoidTournamentAward(p) == \E t \in AwCups : void_award(p, t)
VoidSeasonAward(p) == void_award(p, AwSeason)

\* The status is written whatever it is by now.
SetAwardStatus(p) ==
    /\ At(p, "void award")
    /\ Finish(p)
    /\ aw_awards' = [aw_awards EXCEPT ![req[p].award].status = "void"]
    /\ UNCHANGED <<aw_results, aw_facts, aw_links, aw_cups>>

-----------------------------------------------------------------------------
(* Finalization, asked for or run by a tournament's completion. *)

MayFinalize(a, locked) ==
    /\ aw_awards[a].status # "void"
    /\ ~ (aw_awards[a].status = "finalized" /\ locked)

finalize(p, scope, locked) ==
    /\ AwAllowed("finalize")
    /\ \E a \in AwIds :
         /\ get_award_in_scope(a, scope)
         /\ MayFinalize(a, locked)
         /\ Request(p, [pc |-> "standings", award |-> a, cup |-> "none", todo |-> << >>])
    /\ UNCHANGED awTables

\* "Once the tournament itself is finalized, award history is locked."
FinalizeTournamentAward(p) == \E t \in AwCups : finalize(p, t, aw_cups[t] = "finalized")
\* A season is never locked.
FinalizeSeasonAward(p) == finalize(p, AwSeason, FALSE)

\* The podium is computed from one reading of the facts.
ReadStandings(p) ==
    /\ At(p, "standings")
    /\ Continue(p, [req[p] EXCEPT !.pc = "write podium"] @@
         [podium |-> podium_from_standings(
                       leaderboard(aw_awards[req[p].award], FINALIZE_CANDIDATE_LIMIT))])
    /\ UNCHANGED awTables

\* The rest of the completion hook's list, or the end of the request.
NextAward(p) ==
    IF req[p].todo = << >> THEN Finish(p)
    ELSE Continue(p, [pc |-> "hook", cup |-> req[p].cup, todo |-> req[p].todo])

\* One transaction: the old rows out, the podium in, and the status.
replace_results_and_finalize(p) ==
    /\ At(p, "write podium")
    /\ aw_results' = [aw_results EXCEPT ![req[p].award] = req[p].podium]
    /\ aw_awards' = [aw_awards EXCEPT ![req[p].award].status = "finalized"]
    /\ NextAward(p)
    /\ UNCHANGED <<aw_facts, aw_links, aw_cups>>

complete_tournament(p, t) ==
    /\ AwAllowed("complete")
    /\ aw_cups[t] = "in_progress"
    /\ Request(p, [pc |-> "complete cup", cup |-> t])
    /\ UNCHANGED awTables

WriteCompleted(p) ==
    /\ At(p, "complete cup")
    /\ aw_cups' = [aw_cups EXCEPT ![req[p].cup] = "completed"]
    /\ Continue(p, [req[p] EXCEPT !.pc = "list awards"])
    /\ UNCHANGED <<aw_awards, aw_results, aw_facts, aw_links>>

\* list_by_scope, of which the active ones.
ActiveInScope(t) ==
    SelectSeq([a \in AwIds |-> a], LAMBDA a : aw_awards[a].scope = t /\ award_is_active(a))

finalize_scope_awards(p) ==
    /\ At(p, "list awards")
    /\ LET listed == ActiveInScope(req[p].cup) IN
       IF listed = << >> THEN Finish(p)
       ELSE Continue(p, [pc |-> "hook", cup |-> req[p].cup, todo |-> listed])
    /\ UNCHANGED awTables

\* One award of the list: a refusal is logged, and the next one is taken.
HookFinalize(p) ==
    LET a == Head(req[p].todo)
        rest == Tail(req[p].todo) IN
    /\ At(p, "hook")
    /\ IF MayFinalize(a, FALSE)
       THEN Continue(p, [pc |-> "standings", award |-> a, cup |-> req[p].cup, todo |-> rest])
       ELSE IF rest = << >> THEN Finish(p) ELSE Continue(p, [req[p] EXCEPT !.todo = rest])
    /\ UNCHANGED awTables

finalize_tournament(p, t) ==
    /\ AwAllowed("lock")
    /\ aw_cups[t] = "completed"
    /\ Request(p, [pc |-> "lock cup", cup |-> t])
    /\ UNCHANGED awTables

WriteFinalized(p) ==
    /\ At(p, "lock cup")
    /\ aw_cups' = [aw_cups EXCEPT ![req[p].cup] = "finalized"]
    /\ Finish(p)
    /\ UNCHANGED <<aw_awards, aw_results, aw_facts, aw_links>>

-----------------------------------------------------------------------------
(* The demos: parsed (again), linked and unlinked at any time. *)

AwWorld(op) == AwAllowed(op) /\ (scenario.serial => Quiescent)

replace_for_demo(d, list) ==
    /\ AwWorld("facts")
    /\ aw_facts' = [aw_facts EXCEPT ![d] = DedupeFacts(list)]
    /\ UNCHANGED <<requestVars, aw_awards, aw_results, aw_links, aw_cups>>

LinkToMatch(d, m) ==
    /\ AwWorld("link")
    /\ aw_links' = (IF <<d, m>> \in aw_links THEN aw_links \ {<<d, m>>}
                                             ELSE aw_links \cup {<<d, m>>})
    /\ UNCHANGED <<requestVars, aw_awards, aw_results, aw_facts, aw_cups>>

AwStep(p) ==
    \/ InsertAward(p) \/ UpdatePresentation(p) \/ SetAwardStatus(p)
    \/ ReadStandings(p) \/ replace_results_and_finalize(p)
    \/ WriteCompleted(p) \/ finalize_scope_awards(p) \/ HookFinalize(p) \/ WriteFinalized(p)

AwArrives(p) ==
    \/ CreateTournamentAward(p) \/ UpdateTournamentAward(p) \/ VoidTournamentAward(p)
    \/ CreateSeasonAward(p) \/ UpdateSeasonAward(p) \/ VoidSeasonAward(p)
    \/ FinalizeTournamentAward(p) \/ FinalizeSeasonAward(p)
    \/ \E t \in AwCups : complete_tournament(p, t) \/ finalize_tournament(p, t)

AwNext ==
    \/ \E p \in Users : AwArrives(p) \/ AwStep(p) \/ (Die(p) /\ UNCHANGED awTables)
    \/ \E d \in scenario.demos : \/ \E list \in AwSheets : replace_for_demo(d, list)
                                 \/ \E m \in AwMatches : LinkToMatch(d, m)

-----------------------------------------------------------------------------
(* Properties *)

AwSerial == scenario.of = "awards" /\ scenario.serial

\* The rows of awards and award_results.
AwardRow ==
    [scope : AwardScopes, name : STRING, stat_key : STRING, status : AwardStatus,
     aggregation : {"sum", "max_single_demo", "avg_per_demo"}, direction : {"asc", "desc"},
     min : [type : {"none", "matches", "rounds"}, value : Nat]]
AwardResultRow ==
    [rank : 1 .. PODIUM_MAX_RANK, player : {AwPlayers[n] : n \in DOMAIN AwPlayers}, demos : Nat,
     value : Int \X Int]

\* Types; at most one award of a name in a scope (the unique index), and a
\* podium has ranks 1 to 3 and every player once.
AwTypeOK ==
    /\ \A a \in AwIds : aw_awards[a] \in AwardRow
    /\ \A a, b \in AwIds : aw_awards[a].scope = aw_awards[b].scope
                             /\ aw_awards[a].name = aw_awards[b].name => a = b
    /\ DOMAIN aw_results = AwIds
    /\ \A a \in AwIds : \A r, s \in aw_results[a] :
         r \in AwardResultRow /\ (r.player = s.player => r = s)
    /\ \A t \in AwCups : aw_cups[t] \in {"in_progress", "completed", "finalized"}

\* What a rank means: one more than the number of players ahead.
RankOf(award, e) ==
    1 + Cardinality({x \in Entries(award) : Ahead(award.direction, x.value, e.value)})

\* A finalization stores exactly the players with at most two others ahead of
\* them, each with the rank that says so, ties included - unless more players
\* qualify than finalization examines, and then nobody else.
PodiumIsRanking ==
    AwSerial => \A a \in AwIds : aw_results'[a] # aw_results[a] =>
        LET e == Entries(aw_awards[a])
            best == {[rank |-> RankOf(aw_awards[a], x), player |-> x.player,
                      value |-> x.value, demos |-> x.demos] : x \in e} IN
        LET podium == {r \in best : r.rank <= PODIUM_MAX_RANK} IN
        /\ aw_results'[a] \subseteq podium
        /\ Cardinality(e) <= FINALIZE_CANDIDATE_LIMIT => aw_results'[a] = podium

\* Results are kept of decided awards only: never of an active one, and of a
\* voided one only when the void raced the finalization.
PodiumMeansDecided ==
    \A a \in AwIds : aw_results[a] # {} =>
        aw_awards[a].status \in IF AwSerial THEN {"finalized"} ELSE {"finalized", "void"}

\* "Finalized awards are permanent history": the award keeps its name and its
\* status, and once its tournament is finalized too, nobody's trophies change.
FinalizedIsHistory ==
    AwSerial => /\ \A a \in AwIds : aw_awards[a].status = "finalized" =>
                        aw_awards'[a] = aw_awards[a]
                   /\ \A x \in Range(AwPlayers) : \A w \in list_trophies_by_player(x) :
                        LET scope == aw_awards[w[1]].scope IN
                        scope \in AwCups /\ aw_cups[scope] = "finalized"
                            => w \in list_trophies_by_player(x)'

\* When the request that completed a tournament ends, no award of the
\* tournament is left that waits for its podium.
CompletionSettlesAwards ==
    AwSerial => \A p \in Users :
        /\ req[p] # NoRequest /\ req'[p] = NoRequest /\ crashes' = crashes
        /\ req[p].pc \in {"list awards", "hook", "write podium"}
        => \A a \in AwIds : aw_awards[a].scope = req[p].cup => aw_awards'[a].status # "active"

\* The two tables agree: who is on the plain leaderboard of a key is in the
\* combined one with the same total.  Each query collapses the links of a demo
\* on its own: "facts are never double-counted".
TablesAgree ==
    scenario.of = "awards" => \A scope \in AwardScopes, stat \in {"kills", "deaths"} :
        LET plain == [CreateAward(scope, "", AwTemplates[CHOOSE k \in DOMAIN AwTemplates : TRUE])
                        EXCEPT !.stat_key = stat, !.aggregation = "sum", !.min = NoQualifier]
            combined == player_stats_leaderboard(scope, 1, 0) IN
        \A e \in Entries(plain) : \E r \in combined :
            r.player = e.player /\ Level(<<r.totals[stat], 1>>, e.value) /\ r.demos >= e.demos

\* A podium was decided, and the two leaderboards it is read from agree.
AwardsAreSound == AwTypeOK /\ PodiumMeansDecided /\ TablesAgree

=============================================================================
