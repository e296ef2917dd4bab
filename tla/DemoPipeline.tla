---------------------------- MODULE DemoPipeline ----------------------------
(***************************************************************************)
(* How a match played elsewhere reaches a player's statistics.  A player   *)
(* registers for Steam tracking; the poller bot asks for due entries,      *)
(* walks Steam's share codes and submits the match it finds; enricher bots *)
(* list, claim and enrich it (statistics, then the marker), and later      *)
(* lease, download and parse its demo (ratings and map, then the marker).  *)
(* Admins resume paused entries and requeue matches.  The bots live in     *)
(* another repository and reach the portal by HTTP: they are modelled by   *)
(* the calls the API expects of them, may die between two calls and repeat *)
(* a call whose answer they never saw.                                     *)
(* Source: services/{discovered_match,steam_tracking}.rs, adapters/        *)
(* {discovered_match,steam_tracking,player_match_history}.rs, handlers/    *)
(* {internal,steam_tracking,demos}.rs                                      *)
(***************************************************************************)
EXTENDS Requests, FiniteSets

CONSTANTS
    DpPlayers,          \* the registered players of the match
    DpPoller,           \* the poller
    DpEnrichers,        \* the enricher instances
    MAX_RETRIES,        \* enrichment attempts (column max_retries)
    DEMO_MAX_RETRIES,   \* demo attempts (column demo_max_retries)
    MaxAuthCodes        \* codes the player may have Steam issue

VARIABLES
    tracking,           \* the player's row in steam_tracking
    discovered,         \* the match's row in discovered_matches
    history,            \* history[x]: its player_match_history row for x
    mmStats,            \* mmStats[x]: matches_played in player_mm_stats
    ratingRows,         \* ratingRows[x]: match ids with a player_rating_history row
    bots,               \* bots[b]: the job a bot works on
    steamAuth           \* the auth code Steam accepts

dpTables == <<tracking, discovered, history, mmStats, ratingRows, bots, steamAuth>>
dpVars == <<dpTables, requestVars>>

DpBots == {DpPoller} \cup DpEnrichers

ASSUME DemoPipelineAssumption ==
    /\ MAX_RETRIES \in Nat \ {0} /\ DEMO_MAX_RETRIES \in Nat \ {0} /\ MaxAuthCodes \in Nat \ {0}
    /\ IsFiniteSet(DpPlayers) /\ IsFiniteSet(DpEnrichers) /\ DpPoller \notin DpEnrichers
    /\ \A s \in Scenarios : s.of = "pipeline" => s.urls \subseteq BOOLEAN

PollState == {"ok", "backoff", "auth_expired", "cursor_invalid"}
DiscoveredStatus == {"pending", "enriching", "enriched", "failed"}
DemoStage == {"not_applicable", "pending", "succeeded", "empty", "unavailable", "failed"}
DemoOutcome == {"succeeded", "empty", "unavailable", "failed", "gone"}
\* The cursor: no code, the code the player registered with, the match's code.
NoCursor == 0
FirstCode == 1
MatchCode == 2

\* A row of player_match_history: none, without a map name, with one.
NoRow == 0
RowWithoutMap == 1
RowWithMap == 2

NoTracking == [on |-> FALSE, id |-> 0, state |-> "ok", auth |-> 0, cursor |-> NoCursor]
NoDiscovered == [on |-> FALSE, id |-> 0, tracking |-> 0, status |-> "pending", retry |-> 0, url |-> FALSE,
                 demo |-> "pending", demoRetry |-> 0]
Idle == [at |-> "idle"]

\* The rows of the two tables; ids are numbered as they are given out.
SteamTrackingRow ==
    [on : BOOLEAN, id : Nat, state : PollState, auth : 0 .. MaxAuthCodes,
     cursor : {NoCursor, FirstCode, MatchCode}]
DiscoveredMatchRow ==
    [on : BOOLEAN, id : Nat, tracking : Nat, status : DiscoveredStatus, retry : Nat, url : BOOLEAN,
     demo : DemoStage, demoRetry : 0 .. DEMO_MAX_RETRIES]

DpOp(op) == scenario.of = "pipeline" /\ op \in scenario.ops
TrackingIs(id) == tracking.on /\ tracking.id = id
DiscoveredIs(id) == discovered.on /\ discovered.id = id
is_paused(t) == t.state \in {"auth_expired", "cursor_invalid"}

DpInit ==
    LET on == scenario.of = "pipeline"
    IN  /\ tracking = IF on THEN [NoTracking EXCEPT !.on = TRUE, !.id = 1, !.auth = 1, !.cursor = FirstCode]
                      ELSE NoTracking
        /\ discovered = IF on /\ scenario.found
                        THEN [NoDiscovered EXCEPT !.on = TRUE, !.id = 1, !.tracking = 1] ELSE NoDiscovered
        /\ history = [x \in DpPlayers |-> NoRow]
        /\ mmStats = [x \in DpPlayers |-> 0]
        /\ ratingRows = [x \in DpPlayers |-> {}]
        /\ bots = [b \in DpBots |-> Idle]
        /\ steamAuth = 1

\* A bot's call is a request like any other; bots also call on a timer.
Call(p, r) == Begin(p, r)

-----------------------------------------------------------------------------
(* The tables                                                               *)

\* UNIQUE (player_id, game_id); discovered_matches, and with them the
\* history, go with the tracking row, the aggregates do not.
create_tracking(auth, cursor) ==
    tracking' = IF tracking.on THEN tracking
                ELSE [on |-> TRUE, id |-> tracking.id + 1, state |-> "ok", auth |-> auth, cursor |-> cursor]

delete_tracking(id) ==
    LET gone == TrackingIs(id)
        drop == gone /\ discovered.on /\ discovered.tracking = id
    IN  /\ tracking' = IF gone THEN [tracking EXCEPT !.on = FALSE] ELSE tracking
        /\ discovered' = IF drop THEN [discovered EXCEPT !.on = FALSE] ELSE discovered
        /\ history' = IF drop THEN [x \in DpPlayers |-> NoRow] ELSE history

\* A new code clears every pause but the one it cannot cure.
update_auth_code(id, auth) ==
    tracking' = IF TrackingIs(id)
                THEN [tracking EXCEPT !.auth = auth,
                                      !.state = IF tracking.state = "cursor_invalid" THEN tracking.state ELSE "ok"]
                ELSE tracking

find_due_for_poll == tracking.on /\ tracking.state \in {"ok", "backoff"}

resulting_state(outcome) ==
    IF outcome \in {"ok", "rate-limited"} THEN "ok"
    ELSE IF outcome = "transient" THEN "backoff"
    ELSE IF outcome = "auth-expired" THEN "auth_expired" ELSE "cursor_invalid"

\* What was found is banked however the poll ended.
apply_poll_result(id, cursor, outcome) ==
    tracking' = IF TrackingIs(id)
                THEN [tracking EXCEPT !.cursor = IF cursor = NoCursor THEN tracking.cursor ELSE cursor,
                                      !.state = resulting_state(outcome)]
                ELSE tracking

\* One row per share code; it needs the tracking row it names.
CanUpsert(id) == discovered.on \/ TrackingIs(id)
upsert(id) ==
    discovered' = IF discovered.on \/ ~TrackingIs(id) THEN discovered
                  ELSE [NoDiscovered EXCEPT !.on = TRUE, !.id = discovered.id + 1, !.tracking = id]

\* A lease runs out when its bot died, or when the bot is slower than the lease.
ClaimExpired ==
    /\ discovered.on /\ discovered.status = "enriching"
    /\ scenario.slow \/ \A b \in DpBots : bots[b].at # "claimed"

\* Mutant: a claim is honoured for ever.
NeverReclaims == UNCHANGED discovered

reclaim_stale ==
    discovered' = IF ClaimExpired THEN [discovered EXCEPT !.status = "failed", !.retry = @ + 1] ELSE discovered

find_pending ==
    discovered.on /\ discovered.status \in {"pending", "failed"} /\ discovered.retry < MAX_RETRIES

\* Mutant: the claim does not look at who holds the match.
ClaimBlindly(id) == DiscoveredIs(id)

\* The claim looks at the status and the schedule, not at the budget.
Claimable(id) == DiscoveredIs(id) /\ discovered.status \in {"pending", "failed"}

MarkedFailed(id) ==
    discovered' = IF DiscoveredIs(id) THEN [discovered EXCEPT !.status = "failed", !.retry = @ + 1] ELSE discovered

mark_enriched(id, url) ==
    discovered' = IF DiscoveredIs(id)
                  THEN [discovered EXCEPT !.status = "enriched", !.url = url,
                            !.demo = IF ~url THEN "not_applicable"
                                     ELSE IF discovered.demo \in {"pending", "not_applicable"} THEN "pending"
                                     ELSE discovered.demo]
                  ELSE discovered

\* As for the claim; the attempt is charged when the job is handed out.
Leasable ==
    /\ discovered.on /\ discovered.status = "enriched" /\ discovered.url
    /\ discovered.demo = "pending" /\ discovered.demoRetry < DEMO_MAX_RETRIES
    /\ scenario.slow \/ \A b \in DpBots : bots[b].at # "leased"

StageAfter(outcome) ==
    IF outcome \in {"succeeded", "empty"} THEN outcome
    ELSE IF outcome = "gone" THEN "unavailable"
    ELSE IF discovered.demoRetry >= DEMO_MAX_RETRIES THEN outcome ELSE "pending"

record_demo_result(id, outcome) ==
    discovered' = IF DiscoveredIs(id) THEN [discovered EXCEPT !.demo = StageAfter(outcome)] ELSE discovered

\* The history row and the aggregate in one transaction.
claim_and_accumulate(x) ==
    IF history[x] = NoRow
    THEN /\ history' = [history EXCEPT ![x] = RowWithoutMap]
         /\ mmStats' = [mmStats EXCEPT ![x] = @ + 1]
    ELSE UNCHANGED <<history, mmStats>>

backfill_map(id) ==
    history' = IF DiscoveredIs(id) THEN [x \in DpPlayers |-> IF history[x] = NoRow THEN NoRow ELSE RowWithMap]
               ELSE history

-----------------------------------------------------------------------------
(* The player and the admin                                                 *)

RegisterTracking(p) ==
    /\ DpOp("register")
    /\ Request(p, NoRequest)
    /\ create_tracking(steamAuth, FirstCode)
    /\ UNCHANGED <<discovered, history, mmStats, ratingRows, bots, steamAuth>>

\* The player has Steam issue a new code, the old one dies; the row is looked up first.
UpdateTracking(p) ==
    /\ DpOp("code") /\ tracking.on /\ steamAuth < MaxAuthCodes
    /\ Request(p, [pc |-> "dp code", id |-> tracking.id, auth |-> steamAuth + 1])
    /\ steamAuth' = steamAuth + 1
    /\ UNCHANGED <<tracking, discovered, history, mmStats, ratingRows, bots>>

WriteAuthCode(p) ==
    /\ At(p, "dp code")
    /\ update_auth_code(req[p].id, req[p].auth)
    /\ Finish(p)
    /\ UNCHANGED <<discovered, history, mmStats, ratingRows, bots, steamAuth>>

DeleteTracking(p) ==
    /\ DpOp("delete") /\ tracking.on
    /\ Request(p, [pc |-> "dp delete", id |-> tracking.id])
    /\ UNCHANGED dpTables

RemoveTracking(p) ==
    /\ At(p, "dp delete")
    /\ delete_tracking(req[p].id)
    /\ Finish(p)
    /\ UNCHANGED <<mmStats, ratingRows, bots, steamAuth>>

ResumeTracking(p) ==
    /\ DpOp("resume") /\ tracking.on
    /\ Request(p, NoRequest)
    /\ \E reset \in BOOLEAN :
          tracking' = [tracking EXCEPT !.state = "ok", !.cursor = IF reset THEN NoCursor ELSE @]
    /\ UNCHANGED <<discovered, history, mmStats, ratingRows, bots, steamAuth>>

\* One match, whatever its status, or every failed one.
RequeueOne(p) ==
    /\ DpOp("requeue one") /\ discovered.on
    /\ Request(p, NoRequest)
    /\ discovered' = [discovered EXCEPT !.status = "pending", !.retry = 0]
    /\ UNCHANGED <<tracking, history, mmStats, ratingRows, bots, steamAuth>>

RequeueFailed(p) ==
    /\ DpOp("requeue failed") /\ discovered.on
    /\ \E only_exhausted \in BOOLEAN :
          /\ discovered.status = "failed"
          /\ only_exhausted => discovered.retry >= MAX_RETRIES
    /\ Request(p, NoRequest)
    /\ discovered' = [discovered EXCEPT !.status = "pending", !.retry = 0]
    /\ UNCHANGED <<tracking, history, mmStats, ratingRows, bots, steamAuth>>

-----------------------------------------------------------------------------
(* The poller                                                               *)

FetchDue(p, b) ==
    /\ DpOp("poll") /\ b = DpPoller /\ bots[b] = Idle
    /\ find_due_for_poll
    /\ Call(p, NoRequest)
    /\ bots' = [bots EXCEPT ![b] = [at |-> "polled", id |-> tracking.id, auth |-> tracking.auth,
                                    cursor |-> tracking.cursor, found |-> FALSE]]
    /\ UNCHANGED <<tracking, discovered, history, mmStats, ratingRows, steamAuth>>

\* Steam answers with the next code; a refused submission ends the poll.
SubmitDiscovered(p, b) ==
    /\ bots[b].at = "polled" /\ ~bots[b].found
    /\ bots[b].auth = steamAuth /\ bots[b].cursor = FirstCode
    /\ Call(p, NoRequest)
    /\ upsert(bots[b].id)
    /\ bots' = [bots EXCEPT ![b] = IF CanUpsert(@.id) THEN [@ EXCEPT !.found = TRUE] ELSE Idle]
    /\ UNCHANGED <<tracking, history, mmStats, ratingRows, steamAuth>>

\* Without a cursor there is nothing to walk from.
PollEnds(b) ==
    IF bots[b].auth # steamAuth THEN {"auth-expired"}
    ELSE {"transient", "rate-limited"}
         \cup (IF bots[b].cursor = FirstCode /\ ~bots[b].found THEN {"cursor-invalid"} ELSE {"ok"})

update_poll_result(p, b) ==
    /\ bots[b].at = "polled"
    /\ Call(p, NoRequest)
    /\ \E outcome \in PollEnds(b) :
          apply_poll_result(bots[b].id, IF bots[b].found THEN MatchCode ELSE NoCursor, outcome)
    /\ bots' = [bots EXCEPT ![b] = Idle]
    /\ UNCHANGED <<discovered, history, mmStats, ratingRows, steamAuth>>

-----------------------------------------------------------------------------
(* The enricher: the match                                                  *)

\* The list is preceded by the sweep of expired claims.
get_pending(p, b) ==
    /\ DpOp("enrich") /\ b \in DpEnrichers /\ bots[b] = Idle
    /\ discovered.on /\ (find_pending \/ ClaimExpired)
    /\ Call(p, [pc |-> "dp list", by |-> b])
    /\ reclaim_stale
    /\ UNCHANGED <<tracking, history, mmStats, ratingRows, bots, steamAuth>>

ListPending(p) ==
    /\ At(p, "dp list")
    /\ bots' = [bots EXCEPT ![req[p].by] = IF find_pending THEN [at |-> "listed", id |-> discovered.id] ELSE Idle]
    /\ Finish(p)
    /\ UNCHANGED <<tracking, discovered, history, mmStats, ratingRows, steamAuth>>

claim_match(p, b) ==
    /\ bots[b].at = "listed"
    /\ Call(p, NoRequest)
    /\ bots' = [bots EXCEPT ![b] = IF Claimable(@.id) THEN [at |-> "claimed", id |-> @.id] ELSE Idle]
    /\ discovered' = IF Claimable(bots[b].id) THEN [discovered EXCEPT !.status = "enriching"] ELSE discovered
    /\ UNCHANGED <<tracking, history, mmStats, ratingRows, steamAuth>>

\* The game coordinator gave no answer.
mark_failed(p, b) ==
    /\ bots[b].at = "claimed" /\ \A q \in Tasks : "by" \in DOMAIN req[q] => req[q].by # b
    /\ Call(p, NoRequest)
    /\ MarkedFailed(bots[b].id)
    /\ bots' = [bots EXCEPT ![b] = Idle]
    /\ UNCHANGED <<tracking, history, mmStats, ratingRows, steamAuth>>

\* The body may carry ratings; the row is only read to see that it exists.
submit_enriched(p, b) ==
    /\ bots[b].at = "claimed" /\ DiscoveredIs(bots[b].id)
    /\ \A q \in Tasks : "by" \in DOMAIN req[q] => req[q].by # b
    /\ \E url \in scenario.urls, rate \in {{}, IF scenario.inline THEN DpPlayers ELSE {}} :
          Call(p, [pc |-> "dp rate", by |-> b, id |-> bots[b].id, url |-> url, rate |-> rate, stats |-> DpPlayers,
                   then |-> "dp stats"])
    /\ UNCHANGED dpTables

\* One rating row per player, match and source; the profile is made first.
process_demo_ratings(p) ==
    /\ At(p, "dp rate")
    /\ IF req[p].rate = {}
       THEN Continue(p, [req[p] EXCEPT !.pc = req[p].then]) /\ UNCHANGED dpTables
       ELSE \E x \in req[p].rate :
              IF DiscoveredIs(req[p].id)
              THEN /\ ratingRows' = [ratingRows EXCEPT ![x] = @ \cup {req[p].id}]
                   /\ Continue(p, [req[p] EXCEPT !.rate = @ \ {x}])
                   /\ UNCHANGED <<tracking, discovered, history, mmStats, bots, steamAuth>>
              ELSE Continue(p, [req[p] EXCEPT !.pc = "dp effect failed"]) /\ UNCHANGED dpTables

process_match_stats(p) ==
    /\ At(p, "dp stats")
    /\ IF req[p].stats = {}
       THEN Continue(p, [req[p] EXCEPT !.pc = "dp enriched"]) /\ UNCHANGED <<history, mmStats>>
       ELSE \E x \in req[p].stats :
              IF DiscoveredIs(req[p].id)
              THEN claim_and_accumulate(x) /\ Continue(p, [req[p] EXCEPT !.stats = @ \ {x}])
              ELSE Continue(p, [req[p] EXCEPT !.pc = "dp effect failed"]) /\ UNCHANGED <<history, mmStats>>
    /\ UNCHANGED <<tracking, discovered, ratingRows, bots, steamAuth>>

\* Mutant: the marker is written before the statistics.
MarkerFirst(p) ==
    /\ At(p, "dp stats") \/ At(p, "dp enriched")
    /\ mark_enriched(req[p].id, req[p].url)
    /\ bots' = [bots EXCEPT ![req[p].by] = Idle]
    /\ Finish(p)
    /\ UNCHANGED <<tracking, history, mmStats, ratingRows, steamAuth>>

WriteMarker(p) ==
    /\ At(p, "dp enriched")
    /\ mark_enriched(req[p].id, req[p].url)
    /\ bots' = [bots EXCEPT ![req[p].by] = Idle]
    /\ Finish(p)
    /\ UNCHANGED <<tracking, history, mmStats, ratingRows, steamAuth>>

\* A statement of the effects may fail; the first failure ends them.
EffectFails(p) ==
    /\ At(p, "dp rate") \/ At(p, "dp stats") \/ At(p, "dp map")
    /\ Continue(p, [req[p] EXCEPT !.pc = "dp effect failed"])
    /\ UNCHANGED dpTables

WriteFailure(p) ==
    /\ At(p, "dp effect failed")
    /\ IF req[p].then = "dp stats" THEN MarkedFailed(req[p].id) ELSE record_demo_result(req[p].id, "failed")
    /\ bots' = [bots EXCEPT ![req[p].by] = Idle]
    /\ Finish(p)
    /\ UNCHANGED <<tracking, history, mmStats, ratingRows, steamAuth>>

-----------------------------------------------------------------------------
(* The enricher: the demo                                                   *)

lease_demo_jobs(p, b) ==
    /\ DpOp("demo") /\ b \in DpEnrichers /\ bots[b] = Idle /\ Leasable
    /\ Call(p, NoRequest)
    /\ discovered' = [discovered EXCEPT !.demoRetry = @ + 1]
    /\ bots' = [bots EXCEPT ![b] = [at |-> "leased", id |-> discovered.id]]
    /\ UNCHANGED <<tracking, history, mmStats, ratingRows, steamAuth>>

\* A parsed demo applies its ratings and its map first.
submit_demo_result(p, b) ==
    /\ bots[b].at = "leased" /\ \A q \in Tasks : "by" \in DOMAIN req[q] => req[q].by # b
    /\ \E outcome \in DemoOutcome :
          IF outcome \in {"succeeded", "empty"}
          THEN /\ DiscoveredIs(bots[b].id)
               /\ Call(p, [pc |-> "dp rate", by |-> b, id |-> bots[b].id, outcome |-> outcome,
                           rate |-> IF outcome = "succeeded" THEN DpPlayers ELSE {}, then |-> "dp map"])
               /\ UNCHANGED dpTables
          ELSE /\ Call(p, NoRequest)
               /\ record_demo_result(bots[b].id, outcome)
               /\ bots' = [bots EXCEPT ![b] = Idle]
               /\ UNCHANGED <<tracking, history, mmStats, ratingRows, steamAuth>>

BackfillMap(p) ==
    /\ At(p, "dp map")
    /\ backfill_map(req[p].id)
    /\ Continue(p, [req[p] EXCEPT !.pc = "dp settle"])
    /\ UNCHANGED <<tracking, discovered, mmStats, ratingRows, bots, steamAuth>>

SettleStage(p) ==
    /\ At(p, "dp settle")
    /\ record_demo_result(req[p].id, req[p].outcome)
    /\ bots' = [bots EXCEPT ![req[p].by] = Idle]
    /\ Finish(p)
    /\ UNCHANGED <<tracking, history, mmStats, ratingRows, steamAuth>>

-----------------------------------------------------------------------------
\* A bot dies with the job it holds, and no call of it under way.
BotDies(b) ==
    /\ bots[b] # Idle
    /\ \A q \in Tasks : "by" \in DOMAIN req[q] => req[q].by # b
    /\ crashes < scenario.crashes
    /\ crashes' = crashes + 1
    /\ bots' = [bots EXCEPT ![b] = Idle]
    /\ UNCHANGED <<tracking, discovered, history, mmStats, ratingRows, steamAuth, scenario, req, requests>>

DpStep(p) ==
    \/ WriteAuthCode(p) \/ RemoveTracking(p)
    \/ ListPending(p) \/ process_demo_ratings(p) \/ process_match_stats(p) \/ WriteMarker(p) \/ WriteFailure(p)
    \/ BackfillMap(p) \/ SettleStage(p)

\* What the bots do on their timers.
DpBot(p) == \E b \in DpBots :
    \/ FetchDue(p, b) \/ SubmitDiscovered(p, b) \/ update_poll_result(p, b)
    \/ get_pending(p, b) \/ claim_match(p, b) \/ mark_failed(p, b) \/ submit_enriched(p, b)
    \/ lease_demo_jobs(p, b) \/ submit_demo_result(p, b)

DpNext ==
    \/ \E p \in Tasks :
          \/ RegisterTracking(p) \/ UpdateTracking(p) \/ DeleteTracking(p) \/ ResumeTracking(p)
          \/ RequeueOne(p) \/ RequeueFailed(p)
          \/ DpStep(p) \/ DpBot(p) \/ EffectFails(p)
          \/ (Die(p) /\ UNCHANGED dpTables)
    \/ \E b \in DpBots : BotDies(b)

DpSpec == RequestsInit /\ DpInit /\ [][DpNext]_dpVars

\* A request that was started goes on; the bots keep calling on their
\* timers and report the jobs they took; Steam now and then answers.
DpFairness ==
    /\ WF_dpVars(\E p \in Tasks : DpStep(p))
    /\ \A b \in DpBots :
          /\ WF_dpVars(get_pending(Pass, b)) /\ WF_dpVars(claim_match(Pass, b))
          /\ WF_dpVars(mark_failed(Pass, b) \/ submit_enriched(Pass, b))
          /\ WF_dpVars(lease_demo_jobs(Pass, b)) /\ WF_dpVars(submit_demo_result(Pass, b))
          /\ WF_dpVars(FetchDue(Pass, b)) /\ WF_dpVars(update_poll_result(Pass, b))
          /\ SF_dpVars(SubmitDiscovered(Pass, b))

DpFairSpec == DpSpec /\ DpFairness

-----------------------------------------------------------------------------
(* Properties                                                               *)

DpTypeOK ==
    /\ RequestsTypeOK
    /\ tracking \in SteamTrackingRow
    /\ discovered \in DiscoveredMatchRow
    /\ history \in [DpPlayers -> {NoRow, RowWithoutMap, RowWithMap}]
    /\ DOMAIN bots = DpBots

\* However often an enrichment is delivered, and by however many bots, each
\* player is credited with the match once (while the tracking entry that
\* found it was never removed).
StatsCountedOnce ==
    tracking.id <= 1 => \A x \in DpPlayers : mmStats[x] <= 1 /\ Cardinality(ratingRows[x]) <= 1

\* A match marked enriched has every player's history row: the marker is
\* written after the effects, whoever claimed, died or was late.
EnrichedMeansApplied ==
    discovered.on /\ discovered.status = "enriched" => \A x \in DpPlayers : history[x] # NoRow

\* A demo stage recorded as succeeded is a promise that ratings and map landed.
SuccessMeansLanded ==
    discovered.on /\ discovered.demo = "succeeded" =>
        \A x \in DpPlayers : history[x] = RowWithMap /\ discovered.id \in ratingRows[x]

\* With leases longer than an attempt, an enriched match stays enriched
\* until an admin requeues it.
EnrichedStays ==
    scenario.of = "pipeline" /\ ~scenario.slow /\ "requeue one" \notin scenario.ops
       /\ discovered.on /\ discovered.status = "enriched" /\ discovered'.on
       => discovered'.status = "enriched"

\* A discovered match is enriched or its budget is spent: a bot that dies
\* with a claim costs an attempt, never the match.
EnrichmentSettles ==
    (scenario.of = "pipeline" /\ "enrich" \in scenario.ops /\ discovered.on) ~>
        (~discovered.on \/ discovered.status = "enriched" \/ (discovered.status = "failed" /\ ~find_pending))

\* An entry Steam accepts is polled until the match is found, through any
\* number of transient errors and rate limits.
TrackedIsFound ==
    (scenario.of = "pipeline" /\ "poll" \in scenario.ops /\ tracking.on /\ tracking.cursor = FirstCode) ~>
        (discovered.on \/ is_paused(tracking) \/ ~tracking.on \/ tracking.cursor = NoCursor)

\* What the pipeline says was done has been done, and once.
PipelineTellsTruth == DpTypeOK /\ StatsCountedOnce /\ EnrichedMeansApplied /\ SuccessMeansLanded

=============================================================================
