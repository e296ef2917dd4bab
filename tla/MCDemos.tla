------------------------------ MODULE MCDemos -------------------------------
(***************************************************************************)
(* From a played match to the players' records: the demo catalogue with    *)
(* match evidence, the discovery and enrichment of matchmaking games, and  *)
(* lineups, statistics and ratings.  A scenario exercises one of them.     *)
(***************************************************************************)
EXTENDS DemoCatalog, DemoPipeline, DemoValidation, Cs2Stats, TLC

Scenario(of, n, c, s, ops) ==
    [of |-> of, requests |-> n, crashes |-> c, serial |-> s, ops |-> ops]

MCDcTournamentOf == ("m1" :> "t1") @@ ("m2" :> "t2")
MCDcTeamOf == ("p1" :> "A") @@ ("p2" :> "B")
MCDcSides == <<{"p1"}, {"p2"}>>
CatalogScenario(n, c, s, ops, catalogued, n_submissions, empty, teams) ==
    Scenario("demos", n, c, s, ops) @@
        [catalogued |-> catalogued, submissions |-> n_submissions, empty |-> empty, teams |-> teams]
CatalogScenarios ==
    {CatalogScenario(3, 0, FALSE, {"attach", "unlink", "delete evidence", "sweep"}, TRUE, 1, {}, FALSE),
     CatalogScenario(2, 1, FALSE, {"attach", "delete evidence", "delete again", "upload", "sweep"},
                     TRUE, 1, {}, FALSE),
     CatalogScenario(2, 1, TRUE, {"catalog", "post", "stats", "scan", "auto"}, FALSE, 2, {}, FALSE),
     CatalogScenario(2, 1, TRUE, {"stats", "scan", "link", "manage", "delete demo"}, TRUE, 2, {}, FALSE),
     CatalogScenario(2, 1, TRUE, {"catalog", "scan", "auto", "delete demo"}, FALSE, 1, {}, FALSE),
     CatalogScenario(2, 0, FALSE, {"cli", "catalog", "scan"}, FALSE, 1, {}, FALSE),
     CatalogScenario(2, 0, TRUE, {"catalog", "stats", "scan", "auto"}, FALSE, 3, {1, 3}, FALSE),
     CatalogScenario(3, 0, TRUE, {"attach", "link", "unlink", "auto", "delete evidence", "validate",
                                  "stats"}, TRUE, 2, {}, FALSE),
     CatalogScenario(2, 0, TRUE, {"attach", "validate"}, TRUE, 1, {}, TRUE),
     CatalogScenario(3, 0, TRUE, {"attach", "delete evidence", "other match"}, TRUE, 1, {}, FALSE),
     CatalogScenario(3, 0, TRUE, {"upload", "sweep", "delete evidence", "attach", "manage",
                                  "delete demo"}, TRUE, 1, {}, FALSE)}

PipelineScenario(n, c, s, ops, found, slow, urls, inline) ==
    Scenario("pipeline", n, c, s, ops) @@
        [found |-> found, slow |-> slow, urls |-> urls, inline |-> inline]
PipelineScenarios ==
    {PipelineScenario(1, 1, FALSE, {"enrich", "demo", "requeue failed"}, TRUE, FALSE, {TRUE}, FALSE),
     PipelineScenario(1, 0, FALSE, {"enrich", "requeue one"}, TRUE, TRUE, {TRUE}, FALSE),
     PipelineScenario(1, 0, TRUE, {"enrich", "demo"}, TRUE, FALSE, {TRUE}, TRUE),
     PipelineScenario(2, 0, TRUE, {"poll", "code", "delete", "register", "resume"}, FALSE, FALSE,
                      {FALSE}, FALSE)}

MCPrDemos ==
    [d1 |-> [teams |-> <<"A", "B">>, players |-> ("a" :> "A") @@ ("b" :> "B")],
     d2 |-> [teams |-> <<"A", "B">>, players |-> ("x" :> "A") @@ ("b" :> "B")],
     d3 |-> [teams |-> <<"A", "B">>, players |-> ("a" :> "A") @@ ("b" :> "B")],
     d4 |-> [teams |-> <<"B", "A">>, players |-> ("a" :> "A") @@ ("b" :> "B")]]
RecordScenario(n, c, s, ops, kind, required, games) ==
    Scenario("records", n, c, s, ops) @@
        [kind |-> kind, required |-> required, games |-> games, demos |-> {"d1", "d2"},
         roster |-> <<{"a"}, {"b"}>>, promises |-> <<{{"a"}, {"x"}}, {{"b"}}>>]
RecordScenarios ==
    {RecordScenario(3, 0, FALSE, {"declare", "start"}, "team", TRUE, {1}),
     RecordScenario(4, 0, FALSE, {"start", "complete"}, "individual", TRUE, {1}),
     RecordScenario(2, 0, FALSE, {"rating"}, "team", TRUE, {1}),
     RecordScenario(4, 0, TRUE, {"declare", "start", "link", "complete"}, "team", TRUE, {1}),
     RecordScenario(3, 1, TRUE, {"start", "complete"}, "individual", FALSE, {1}),
     RecordScenario(3, 0, TRUE, {"start", "link", "complete", "unread"}, "individual", TRUE, {1}),
     RecordScenario(3, 0, TRUE, {"link", "unlink"}, "team", TRUE, {1, 2}),
     RecordScenario(3, 0, TRUE, {"start", "link", "complete", "transfer"}, "team", TRUE, {1}),
     RecordScenario(2, 0, TRUE, {"start", "complete"}, "pug", FALSE, {1}),
     RecordScenario(2, 1, TRUE, {"rating"}, "team", TRUE, {1})}

\* d1 and d3 name side 1 first, d3 is of the second game and has a player
\* without account; d2 has somebody of neither roster; d4 names side 2 first.
MCScores == {<<2, 1>>, <<1, 2>>}
Film(score, of, parsed, guests) ==
    [score |-> score, map |-> "m", of |-> of, parsed |-> parsed, guests |-> guests]
MCDvFilm == [d1 |-> Film(<<2, 1>>, 1, TRUE, FALSE), d2 |-> Film(<<2, 1>>, 1, TRUE, FALSE),
             d3 |-> Film(<<2, 1>>, 2, TRUE, TRUE), d4 |-> Film(<<1, 2>>, 1, TRUE, FALSE)]
Game(score, map, d) == [score |-> score, map |-> map, demo |-> d]
MCGames == {Game(score, "m", "none") : score \in MCScores \cup {<<1, 1>>}} \cup
           {Game(<<2, 1>>, "n", "none"), Game(<<2, 1>>, "z", "none"), Game(<<2, 1>>, "m", "d1")}
ClaimOf(score, w, games) == [score |-> score, winner |-> w, games |-> games, links |-> {}]
MCClaims(games) ==
    {ClaimOf(score, w, gs) : score \in {<<1, 0>>, <<0, 1>>, <<2, 0>>, <<1, 1>>}, w \in {1, 2}, gs \in games}
ClaimScenario(n, c, s, ops, wins, claims, demos) ==
    [demos |-> demos] @@ RecordScenario(n, c, s, ops, "team", TRUE, {1, 2}) @@
        [wins |-> wins, claims |-> claims, truth |-> <<<<2, 1>>, <<2, 1>>>>, names |-> <<"A", "B">>,
         lists |-> {<<i, j>> : i \in SUBSET {"a", "x"}, j \in SUBSET {"b", "y"}},
         scores |-> MCScores, maps |-> {"m", "n"}]
ClaimScenarios ==
    {ClaimScenario(4, 0, TRUE, {"start", "link", "claim"}, 1,
         MCClaims({<< >>} \cup {<<g>> : g \in MCGames}), {"d1", "d2"}),
     ClaimScenario(4, 0, TRUE, {"start", "link", "claim"}, 1, MCClaims({<<Game(<<2, 1>>, "m", "none")>>}), {"d3", "d4"}),
     ClaimScenario(5, 0, TRUE, {"start", "link", "claim"}, 2,
         {ClaimOf(<<2, 0>>, 1, <<Game(score, "m", "none"), Game(<<2, 1>>, "m", "none")>>) : score \in MCScores}, {"d1", "d3"}),
     ClaimScenario(4, 0, FALSE, {"start", "link", "claim"}, 1,
         {ClaimOf(<<1, 0>>, 1, <<Game(<<2, 1>>, "m", "none")>>)}, {"d1"}),
     ClaimScenario(1, 0, TRUE, {"verdict"}, 1, {}, {"d1", "d2", "d3", "d4"})}

MCScenarios == ClaimScenarios \cup CatalogScenarios \cup PipelineScenarios \cup RecordScenarios

-----------------------------------------------------------------------------
tables == <<dcTables, dpTables, prTables, dvTables>>
vars == <<requestVars, tables>>

Init == RequestsInit /\ DcInit /\ DpInit /\ PrInit /\ DvInit

Next ==
    \/ scenario.of = "demos" /\ DcNext /\ UNCHANGED <<dpTables, prTables, dvTables>>
    \/ scenario.of = "pipeline" /\ DpNext /\ UNCHANGED <<dcTables, prTables, dvTables>>
    \/ scenario.of = "records" /\ DvNext /\ UNCHANGED <<dcTables, dpTables>>

Spec == Init /\ [][Next]_vars
FairSpec == Spec /\ DcFairness /\ DpFairness /\ PrFairness

\* The catalogue agrees with the evidence of the matches, a demo finds its own
\* match, what the evidence says of a claim is what becomes of it, and its
\* numbers are counted as they are (demo.rs, evidence.rs, demo_validator.rs,
\* games/cs2).
EvidenceIsSound == CatalogueAgrees /\ ClaimsAreChecked /\ NumbersAreSound /\ MatchingIsSound

\* No step rewrites what is settled or credits a player for somebody else's
\* game, and none that closes a match forgets one who played in it.
StepsKeepTheRecord ==
    [][EnrichedStays /\ LockedPromiseStands /\ OnlyPlayersAreCredited /\ EveryoneIsCredited]_vars

\* A tracked match is found, enriched, parsed and counted in the end, whichever
\* worker dies with it.
DemosMoveOn == TrackedIsFound /\ EnrichmentSettles /\ StatsLand /\ StatsReachProfiles

=============================================================================
