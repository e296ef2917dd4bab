------------------------------ MODULE Cs2Stats ------------------------------
(***************************************************************************)
(* What the Counter-Strike plugin makes of a demo's numbers: the facts     *)
(* awards are computed from, the match data of a game, a player's running  *)
(* totals, and the ratios and rank shown beside them.  Everything is a     *)
(* function of its arguments, checked over small demos.                    *)
(* Source: portal-plugins/src/games/cs2/{mod,stats,demo_stats}.rs          *)
(***************************************************************************)
EXTENDS Integers, Sequences, FiniteSets, TLC

CsNone == "none"

-----------------------------------------------------------------------------
(* Rank tiers.                                                              *)

CsTier(id, min, max) == [id |-> id, min_rating |-> min, max_rating |-> max]

\* In order; the last has no upper limit.
rank_tiers ==
    <<CsTier("grey", 0, {4999}), CsTier("light_blue", 5000, {9999}),
      CsTier("blue", 10000, {14999}), CsTier("purple", 15000, {19999}),
      CsTier("pink", 20000, {24999}), CsTier("red", 25000, {29999}), CsTier("gold", 30000, {})>>

WithinTier(rating, tier) ==
    /\ rating >= tier.min_rating
    /\ \A max \in tier.max_rating : rating <= max

\* The first tier the rating is within.
rating_to_rank_tier(rating) ==
    {rank_tiers[i].id : i \in {j \in DOMAIN rank_tiers :
        /\ WithinTier(rating, rank_tiers[j])
        /\ \A k \in 1 .. j - 1 : ~WithinTier(rating, rank_tiers[k])}}

-----------------------------------------------------------------------------
(* A parsed demo: summaries by Steam id (absent in older versions), and by  *)
(* round who played and what the players of the round did.                  *)

\* The keys an award template may name, and the weapons every template may.
CsScalars ==
    {"kills", "deaths", "assists", "headshot_kills", "damage_dealt", "wallbangs",
     "smoke_kills", "kills.while_blind", "kills.on_blinded", "flash_assists",
     "utility_damage", "bomb_plants", "bomb_defuses", "adr", "hs_percentage"}
CATALOG_WEAPONS == {"ak47", "awp"}
stat_catalog == CsScalars \cup {"kills.weapon." \o w : w \in CATALOG_WEAPONS}

\* Raw weapon names: as they are, with the prefix, an opaque number, nothing.
CsWeapons == [ak47 |-> {"ak47"}, weapon_AWP |-> {"awp"}, seven |-> {"id_7"}, prefix |-> {}]
normalize_weapon_key(raw) == CsWeapons[raw]

\* What the rounds of a demo count per player.
CsRoundKeys == {"kills", "deaths", "assists", "damage_dealt"}

CsSum(rounds, steam, key) ==
    LET sum[n \in 0 .. Len(rounds)] ==
            IF n = 0 THEN 0
            ELSE sum[n - 1] + (IF steam \in DOMAIN rounds[n].player_stats
                               THEN rounds[n].player_stats[steam][key] ELSE 0)
    IN  sum[Len(rounds)]

\* Everybody of the summaries, or everybody a round lists.
all_steam_ids(stats) ==
    IF DOMAIN stats.player_summaries # {} THEN DOMAIN stats.player_summaries
    ELSE UNION {stats.rounds[n].player_states : n \in DOMAIN stats.rounds}

\* Only what rounds count; the rest of the summary is its default, zero.
\* Somebody no round has numbers of has no summary.
aggregate_player_stats(stats, steam) ==
    IF \A n \in DOMAIN stats.rounds : steam \notin DOMAIN stats.rounds[n].player_stats THEN {}
    ELSE {[scalars |-> [key \in CsScalars |->
              IF key \in CsRoundKeys THEN CsSum(stats.rounds, steam, key)
              ELSE IF key = "adr"
              THEN CsSum(stats.rounds, steam, "damage_dealt") \div Len(stats.rounds) ELSE 0],
           weapon_kills |-> << >>]}

get_player(stats, steam) ==
    IF steam \in DOMAIN stats.player_summaries THEN {stats.player_summaries[steam]}
    ELSE aggregate_player_stats(stats, steam)

CsFact(steam, key, value, raw) ==
    [steam_id |-> steam, stat_key |-> key, value |-> value, raw |-> raw]

\* Every scalar for every player, zeros included, the rounds of the demo, and
\* a fact per weapon the data names.
extract_facts(stats) ==
    UNION {UNION {
        {CsFact(steam, key, player.scalars[key], CsNone) : key \in CsScalars}
        \cup {CsFact(steam, "rounds_played", Len(stats.rounds), CsNone)}
        \cup UNION {{CsFact(steam, "kills.weapon." \o name, player.weapon_kills[raw], raw) :
                        name \in normalize_weapon_key(raw)} : raw \in DOMAIN player.weapon_kills} :
        player \in get_player(stats, steam)} : steam \in all_steam_ids(stats)}

-----------------------------------------------------------------------------
(* The match data of a demo, and a player's totals.                         *)

\* The demo parser's own keys, and what the totals call them.
CsRawKey == [kills |-> "kills", deaths |-> "deaths", headshots |-> "headshot_kills",
             total_damage |-> "damage"]
CsTotals == DOMAIN CsRawKey
CsCounters == {"rounds_played", "matches_played", "matches_won"}

resolve_demo_team_id(player, parsed) ==
    {t \in 1 .. 2 : player.team_name = parsed.team_names[t]
                    /\ \A u \in 1 .. t - 1 : player.team_name # parsed.team_names[u]}

\* Players with an account and a team of the parsed, under the totals' keys;
\* the winner by score, none on a draw.
build_match_data_from_demo(parsed) ==
    [winner |-> IF parsed.score[1] > parsed.score[2] THEN {1}
                ELSE IF parsed.score[1] < parsed.score[2] THEN {2} ELSE {},
     rounds_won |-> parsed.score,
     players |->
        UNION {{[player_id |-> p.player_id, team_id |-> team,
                 stats |-> [key \in CsTotals |->
                    IF CsRawKey[key] \in DOMAIN p.stats THEN p.stats[CsRawKey[key]]
                    ELSE IF key \in DOMAIN p.stats THEN p.stats[key] ELSE 0]] :
                    team \in resolve_demo_team_id(p, parsed)} :
               p \in {q \in parsed.players : q.player_id # CsNone}}]

\* A player with no totals yet starts from zeros.
CsNoStats == [key \in CsTotals \cup CsCounters |-> 0]

\* Fails for somebody who is not in the match; else the old totals plus this
\* match, its rounds of both sides, and a win if the player's side won.
calculate_player_stats(match_data, player_id, existing) ==
    {[key \in CsTotals \cup CsCounters |->
        existing[key] +
            (IF key \in CsTotals THEN data.stats[key]
             ELSE IF key = "rounds_played" THEN match_data.rounds_won[1] + match_data.rounds_won[2]
             ELSE IF key = "matches_played" THEN 1
             ELSE IF data.team_id \in match_data.winner THEN 1 ELSE 0)] :
        data \in {d \in match_data.players : d.player_id = player_id}}

\* A fraction by parts; a denominator of zero is never divided by.
CsRatio(a, b) == IF b > 0 THEN <<a, b>> ELSE <<0, 1>>
format_player_stats(stats, rating) ==
    [kd_ratio   |-> IF stats.deaths > 0 THEN <<stats.kills, stats.deaths>> ELSE <<stats.kills, 1>>,
     hs_percent |-> CsRatio(stats.headshots, stats.kills),
     adr        |-> CsRatio(stats.total_damage, stats.rounds_played),
     win_rate   |-> CsRatio(stats.matches_won, stats.matches_played),
     rank       |-> rating_to_rank_tier(rating)]

-----------------------------------------------------------------------------
(* The small demos the properties are checked over.                         *)

CsSteam == {"s1", "s2"}
CsNumbers(n) == [key \in CsRoundKeys |-> n]
CsRound(present, counted, n) ==
    [player_states |-> present, player_stats |-> [s \in counted |-> CsNumbers(n)]]
CsRounds ==
    {<< >>} \cup {<<CsRound(a, b, 1), CsRound(c, d, 2)>> : a, b, c, d \in SUBSET CsSteam}
CsSummary(n) ==
    [scalars |-> [key \in CsScalars |-> n], weapon_kills |-> [raw \in DOMAIN CsWeapons |-> n]]
CsParsed ==
    [player_summaries : {[s \in known |-> CsSummary(3)] : known \in SUBSET CsSteam},
     rounds : CsRounds]

CsLine(player, team, stats) == [player_id |-> player, team_name |-> team, stats |-> stats]
CsRawStats == {[kills |-> 2, headshot_kills |-> 1, damage |-> 90], [kills |-> 1, deaths |-> 1]}
CsDemos ==
    {[team_names |-> <<"A", "B">>, score |-> <<i, j>>,
      players |-> {CsLine("ann", a, raw), CsLine("bob", b, raw), CsLine(CsNone, "A", raw)}] :
        i, j \in {0, 13, 16}, a \in {"A", "C"}, b \in {"A", "B"}, raw \in CsRawStats}

-----------------------------------------------------------------------------
(* Properties.                                                              *)

\* Every rating from zero up is in exactly one tier, the tiers follow each
\* other without a gap, and nobody is without a rank but below zero.
TiersPartition ==
    /\ \A i \in 1 .. Len(rank_tiers) - 1 :
           rank_tiers[i].max_rating = {rank_tiers[i + 1].min_rating - 1}
    /\ \A t \in DOMAIN rank_tiers, d \in {-1, 0} :
           LET r == rank_tiers[t].min_rating + d
           IN  Cardinality({i \in DOMAIN rank_tiers : WithinTier(r, rank_tiers[i])})
                    = IF r < 0 THEN 0 ELSE 1

\* What is extracted can be counted with: a player has one fact per scalar,
\* whether the demo has summaries or only rounds, the rounds are the demo's,
\* a weapon is counted under the key the catalog lists it by, and somebody
\* the rounds have no numbers of has no facts at all rather than zeros.
FactsAreCountable ==
    \A stats \in CsParsed :
        LET facts == extract_facts(stats)
        IN  /\ \A f \in facts : f.raw = CsNone =>
                   f.stat_key \in stat_catalog \cup {"rounds_played"}
            /\ Cardinality({<<f.steam_id, f.stat_key>> : f \in facts}) = Cardinality(facts)
            /\ \A s \in {f.steam_id : f \in facts} :
                   CsScalars \subseteq {f.stat_key : f \in {g \in facts : g.steam_id = s}}
            /\ \A f \in facts : f.raw = "weapon_AWP" => f.stat_key \in stat_catalog
            /\ \A s \in all_steam_ids(stats) :
                   (\A f \in facts : f.steam_id # s)
                   <=> /\ DOMAIN stats.player_summaries = {}
                       /\ \A n \in DOMAIN stats.rounds :
                              s \notin DOMAIN stats.rounds[n].player_stats

CsWon(match_data, who) ==
    \E d \in match_data.players : d.player_id = who /\ d.team_id \in match_data.winner

\* Two games one after the other: a player's totals are the sums of both, a
\* win counts for one side only and a draw for none, nobody wins more than
\* they play, and what is shown of them is a share of the whole.
TotalsAddUp ==
    \A one, two \in CsDemos, who \in {"ann", "bob"} :
        LET m1 == build_match_data_from_demo(one)
            m2 == build_match_data_from_demo(two)
        IN  \A s1 \in calculate_player_stats(m1, who, CsNoStats) :
            \A s2 \in calculate_player_stats(m2, who, s1) :
                LET shown == format_player_stats(s2, 12000)
                IN  /\ s2.matches_played = 2
                    /\ s2.matches_won = Cardinality({i \in 1 .. 2 : CsWon(<<m1, m2>>[i], who)})
                    /\ s2.rounds_played = one.score[1] + one.score[2] + two.score[1] + two.score[2]
                    /\ s2.headshots <= s2.kills
                    /\ \A f \in {shown.win_rate, shown.hs_percent} : f[1] <= f[2] /\ f[2] > 0
                    /\ shown.kd_ratio[2] > 0 /\ shown.adr[2] > 0 /\ shown.rank = {"blue"}
                    /\ one.score[1] = one.score[2] => m1.winner = {}

\* The numbers of a demo reach awards, profiles and ranks unchanged.
NumbersAreSound == TiersPartition /\ FactsAreCountable /\ TotalsAddUp

=============================================================================
