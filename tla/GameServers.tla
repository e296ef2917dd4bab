----------------------------- MODULE GameServers -----------------------------
(***************************************************************************)
(* Game servers, and the reservations that give a match its server.  A     *)
(* reservation is queued, gets a free server, has the match loaded onto it *)
(* by the server's agent, becomes ready and live as MatchZy posts events,  *)
(* and is released.  Commands to an agent and webhooks from MatchZy may be *)
(* lost; the lifecycle pass queues, loads again and reconciles.  The       *)
(* reservation rows are updated blindly by id: what keeps two matches off  *)
(* one server is the pair of partial unique indexes.                       *)
(* Source: game_server_flow.rs, adapters/game_server.rs,                   *)
(* handlers/game_servers/, websocket/agent_manager.rs,                     *)
(* services/game_server/registry.rs                                        *)
(***************************************************************************)
EXTENDS Requests, Sequences, FiniteSets

CONSTANTS
    GsServers,          \* the registered game servers
    GsMatches,          \* the matches that need one
    MAX_LOAD_RETRIES,
    MaxReservations     \* bound: rows of server_reservations

VARIABLES
    gsServer,           \* gsServer[s]: the row of game_servers
    gsWorld,            \* gsWorld[s]: what MatchZy on s is doing (external)
    gsReservations,     \* the rows of server_reservations, in creation order
    gsEvents,           \* the rows of server_events
    gsWire,             \* the webhooks under way
    gsMatch,            \* gsMatch[m]: the match, as far as the flow touches it
    gsLost              \* losses so far

gsTables == <<gsServer, gsWorld, gsReservations, gsEvents, gsWire, gsMatch, gsLost>>

NoServer == "none"
ReservationStatus == {"pending", "configuring", "ready", "live", "completed", "failed", "cancelled"}
GameServerStatus == {"offline", "available", "reserved", "configuring", "in_match",
                     "busy_external", "error"}
EventType == {"series_start", "going_live", "series_end"}
ReservationIds == 1 .. MaxReservations

ASSUME GameServersAssumption ==
    /\ NoServer \notin GsServers
    /\ MAX_LOAD_RETRIES \in Nat \ {0}
    /\ MaxReservations \in Nat

is_live_state(status) == status \in {"pending", "configuring", "ready", "live"}
is_terminal(status) == status \in {"completed", "failed", "cancelled"}

-----------------------------------------------------------------------------
(* The tables                                                               *)

\* Mutant: only one live row per match.
OnePerMatch(rows) ==
    \A i, j \in DOMAIN rows :
        i # j /\ is_live_state(rows[i].status) /\ is_live_state(rows[j].status)
            => rows[i].match # rows[j].match

\* uq_server_reservations_live_match and uq_server_reservations_live_server: a
\* statement that would break one of them fails.
UniqueLive(rows) ==
    \A i, j \in DOMAIN rows :
        i # j /\ is_live_state(rows[i].status) /\ is_live_state(rows[j].status)
            => /\ rows[i].match # rows[j].match
               /\ rows[i].server = NoServer \/ rows[i].server # rows[j].server

find_live_by_match(m) ==
    {r \in DOMAIN gsReservations :
        gsReservations[r].match = m /\ is_live_state(gsReservations[r].status)}

find_live_by_server(s) ==
    {r \in DOMAIN gsReservations :
        gsReservations[r].server = s /\ is_live_state(gsReservations[r].status)}

WithStatus(r, status) == [gsReservations EXCEPT ![r].status = status]

\* set_status, mark_live, mark_failed of a reservation: by id, whatever it is.
SetReservationStatus(r, status) == gsReservations' = WithStatus(r, status)

\* set_status of a server: by id, whatever it is.
SetServerStatus(s, status) == gsServer' = [gsServer EXCEPT ![s].status = status]

\* release: the row gets its final status, and the server it names goes back
\* to the pool, all in one transaction.
Release(r, status, reason) ==
    LET s == gsReservations[r].server IN
    /\ gsReservations' = [gsReservations EXCEPT ![r].status = status, ![r].reason = reason]
    /\ gsServer' = IF /\ s # NoServer
                      /\ gsServer[s].status \in {"reserved", "configuring", "in_match", "busy_external"}
                   THEN [gsServer EXCEPT ![s].status = "available"]
                   ELSE gsServer

\* The allocation predicate: available, heard of lately, idle when last heard
\* of, and not held by a booking.
Allocatable(s) ==
    /\ gsServer[s].status = "available"
    /\ gsServer[s].fresh
    /\ gsServer[s].gamestate = "none"
    /\ ~gsServer[s].hold

EventRow(r, type) == {e \in gsEvents : e.res = r /\ e.type = type}

\* config_fetchable, with the token minted for the load attempt on s.
config_fetchable(r, s) ==
    /\ gsReservations[r].status \in {"configuring", "ready"}
    /\ gsReservations[r].token = s
    /\ gsReservations[r].config

-----------------------------------------------------------------------------
Idle == [phase |-> "none", res |-> 0, fetching |-> 0]

\* A row of the queue; its config is built in a step of its own.
Queued(m, config) ==
    [match |-> m, server |-> NoServer, status |-> "pending", config |-> config,
     retries |-> 0, token |-> NoServer, reason |-> NoServer]

\* The scenario names the servers whose agents are enrolled; the others never
\* connect; and the matches that are already in the queue.
Enrolled == scenario.servers

GsInit ==
    LET queue == IF scenario.of = "servers" THEN scenario.queue ELSE <<>> IN
    /\ gsServer = [s \in GsServers |->
           IF scenario.of = "servers" /\ s \in Enrolled
           THEN [status |-> "available", connected |-> TRUE, fresh |-> TRUE,
                 gamestate |-> "none", hold |-> FALSE]
           ELSE [status |-> "offline", connected |-> FALSE, fresh |-> FALSE,
                 gamestate |-> "none", hold |-> FALSE]]
    /\ gsWorld = [s \in GsServers |-> Idle]
    /\ gsReservations = [r \in 1 .. Len(queue) |-> Queued(queue[r], TRUE)]
    /\ gsEvents = {}
    /\ gsWire = {}
    /\ gsMatch = [m \in GsMatches |-> [status |-> "pick_ban", claim |-> FALSE]]
    /\ gsLost = 0

\* In a serial scenario agents report, and matches go on, between requests.
Between == scenario.serial => Quiescent

\* Something on the way to or from a server is lost; the scenario says how often.
Lose == gsLost < scenario.lost /\ gsLost' = gsLost + 1

(* send_command: the agent is connected and answers, or the caller gets an *)
(* error, and then the command may have run all the same (a timeout).      *)
Commands(s, effect, ok, failed) ==
    \/ /\ gsServer[s].connected
       /\ gsWorld' = [gsWorld EXCEPT ![s] = effect]
       /\ ok
       /\ UNCHANGED gsLost
    \/ /\ gsServer[s].connected
       /\ gsWorld' \in {gsWorld, [gsWorld EXCEPT ![s] = effect]}
       /\ Lose
       /\ failed
    \/ /\ ~gsServer[s].connected
       /\ failed
       /\ UNCHANGED <<gsWorld, gsLost>>

-----------------------------------------------------------------------------
(* Assignment: the veto hook and the admin's request, both on_veto_        *)
(* completed / request_assignment; the veto of the match is complete.      *)

RequestAssignment(p) ==
    /\ \E m \in GsMatches :
           /\ find_live_by_match(m) = {}
           /\ gsMatch[m].status # "over"
           /\ Request(p, [pc |-> "gs create", match |-> m])
    /\ UNCHANGED gsTables

CreatePending(p) ==
    /\ At(p, "gs create")
    /\ Len(gsReservations) < MaxReservations
    /\ LET rows == Append(gsReservations, Queued(req[p].match, FALSE))
       IN  IF UniqueLive(rows)
           THEN /\ gsReservations' = rows
                /\ Continue(p, [pc |-> "gs config", res |-> Len(rows)])
           ELSE Finish(p) /\ UNCHANGED gsReservations
    /\ UNCHANGED <<gsServer, gsWorld, gsEvents, gsWire, gsMatch, gsLost>>

\* build_config: a player without a Steam id fails the reservation for good.
StoreConfig(p) ==
    /\ At(p, "gs config")
    /\ \/ /\ Continue(p, [pc |-> "gs allocate", res |-> req[p].res])
          /\ gsReservations' = [gsReservations EXCEPT ![req[p].res].config = TRUE]
       \/ /\ gsReservations' = [gsReservations EXCEPT ![req[p].res].status = "failed",
                                                     ![req[p].res].reason = "config"]
          /\ Finish(p)
    /\ UNCHANGED <<gsServer, gsWorld, gsEvents, gsWire, gsMatch, gsLost>>

\* try_allocate_and_load, and the allocation transaction: the row must still
\* be pending, and the index must allow the server.
Allocate(p) ==
    /\ At(p, "gs allocate")
    /\ LET r == req[p].res IN
       \/ /\ \A s \in GsServers : ~Allocatable(s)
          /\ Finish(p)
          /\ UNCHANGED <<gsServer, gsReservations>>
       \/ \E s \in GsServers :
             /\ Allocatable(s)
             /\ LET rows == [gsReservations EXCEPT ![r].server = s] IN
                IF gsReservations[r].status = "pending" /\ UniqueLive(rows)
                THEN /\ gsReservations' = rows
                     /\ SetServerStatus(s, "reserved")
                     /\ Continue(p, [pc |-> "gs token", res |-> r, server |-> s])
                ELSE Finish(p) /\ UNCHANGED <<gsServer, gsReservations>>
    /\ UNCHANGED <<gsWorld, gsEvents, gsWire, gsMatch, gsLost>>

(* send_load                                                                *)

SetConfigToken(p) ==
    /\ At(p, "gs token")
    /\ gsReservations' = [gsReservations EXCEPT ![req[p].res].token = req[p].server]
    /\ Continue(p, [req[p] EXCEPT !.pc = "gs reset"])
    /\ UNCHANGED <<gsServer, gsWorld, gsEvents, gsWire, gsMatch, gsLost>>

\* Best effort: whatever was loaded is ended.
ResetServer(p) ==
    /\ At(p, "gs reset")
    /\ LET next == Continue(p, [req[p] EXCEPT !.pc = "gs load"])
       IN  Commands(req[p].server, Idle, next, next)
    /\ UNCHANGED <<gsServer, gsReservations, gsEvents, gsWire, gsMatch>>

\* MatchZy refuses to load over a loaded match; otherwise it sets out to
\* fetch the config.
LoadMatch(p) ==
    /\ At(p, "gs load")
    /\ LET s == req[p].server
           w == gsWorld[s]
       IN  Commands(s, IF w.res = 0 THEN [w EXCEPT !.fetching = req[p].res] ELSE w,
                    Continue(p, [req[p] EXCEPT !.pc = "gs loaded"]),
                    Continue(p, [req[p] EXCEPT !.pc = "gs retry"]))
    /\ UNCHANGED <<gsServer, gsReservations, gsEvents, gsWire, gsMatch>>

SetConfiguring(p) ==
    /\ At(p, "gs loaded")
    /\ IF UniqueLive(WithStatus(req[p].res, "configuring"))
       THEN /\ SetReservationStatus(req[p].res, "configuring")
            /\ Continue(p, [req[p] EXCEPT !.pc = "gs server configuring"])
       ELSE Finish(p) /\ UNCHANGED gsReservations
    /\ UNCHANGED <<gsServer, gsWorld, gsEvents, gsWire, gsMatch, gsLost>>

SetServerConfiguring(p) ==
    /\ At(p, "gs server configuring")
    /\ SetServerStatus(req[p].server, "configuring")
    /\ Finish(p)
    /\ UNCHANGED <<gsWorld, gsReservations, gsEvents, gsWire, gsMatch, gsLost>>

\* handle_load_failure: below the cap the row keeps its server for the pass.
IncrementRetry(p) ==
    /\ At(p, "gs retry")
    /\ LET r == req[p].res
           n == gsReservations[r].retries + 1
       IN  /\ gsReservations' = [gsReservations EXCEPT ![r].retries = n]
           /\ IF n >= MAX_LOAD_RETRIES
              THEN Continue(p, [req[p] EXCEPT !.pc = "gs give up"])
              ELSE Finish(p)
    /\ UNCHANGED <<gsServer, gsWorld, gsEvents, gsWire, gsMatch, gsLost>>

GiveUp(p) ==
    /\ At(p, "gs give up")
    /\ Release(req[p].res, "failed", "load")
    /\ Continue(p, [req[p] EXCEPT !.pc = "gs quarantine"])
    /\ UNCHANGED <<gsWorld, gsEvents, gsWire, gsMatch, gsLost>>

Quarantine(p) ==
    /\ At(p, "gs quarantine")
    /\ SetServerStatus(req[p].server, "error")
    /\ Continue(p, [pc |-> "gs requeue", match |-> gsReservations[req[p].res].match])
    /\ UNCHANGED <<gsWorld, gsReservations, gsEvents, gsWire, gsMatch, gsLost>>

\* request_assignment again, for another server.
RequeueMatch(p) ==
    /\ At(p, "gs requeue")
    /\ IF find_live_by_match(req[p].match) = {} /\ gsMatch[req[p].match].status # "over"
       THEN Continue(p, [pc |-> "gs create", match |-> req[p].match])
       ELSE Finish(p)
    /\ UNCHANGED gsTables

(* cancel_assignment, by an admin or by a forced map change, which then     *)
(* holds the server.                                                        *)

CancelAssignment(p) ==
    /\ \E m \in GsMatches, hold \in BOOLEAN :
          \E r \in find_live_by_match(m) :
             /\ hold => gsReservations[r].server # NoServer /\ scenario.serial
             /\ Request(p, [pc |-> "gs end", res |-> r, server |-> gsReservations[r].server,
                            hold |-> hold])
    /\ UNCHANGED gsTables

EndMatch(p) ==
    /\ At(p, "gs end")
    /\ LET next == Continue(p, [req[p] EXCEPT !.pc = "gs cancel"])
       IN  IF req[p].server = NoServer
           THEN next /\ UNCHANGED <<gsWorld, gsLost>>
           ELSE Commands(req[p].server, Idle, next, next)
    /\ UNCHANGED <<gsServer, gsReservations, gsEvents, gsWire, gsMatch>>

CancelRelease(p) ==
    /\ At(p, "gs cancel")
    /\ Release(req[p].res, "cancelled", "admin")
    /\ IF req[p].hold THEN Continue(p, [req[p] EXCEPT !.pc = "gs hold"]) ELSE Finish(p)
    /\ UNCHANGED <<gsWorld, gsEvents, gsWire, gsMatch, gsLost>>

\* place_hold and create_booking: the allocator leaves the server alone ...
PlaceHold(p) ==
    /\ At(p, "gs hold")
    /\ gsServer' = [gsServer EXCEPT ![req[p].server].hold = TRUE]
    /\ Finish(p)
    /\ UNCHANGED <<gsWorld, gsReservations, gsEvents, gsWire, gsMatch, gsLost>>

\* ... until the booking ends.
HoldEnds(s) ==
    /\ Between
    /\ gsServer[s].hold
    /\ gsServer' = [gsServer EXCEPT ![s].hold = FALSE]
    /\ UNCHANGED <<requestVars, gsWorld, gsReservations, gsEvents, gsWire, gsMatch, gsLost>>

-----------------------------------------------------------------------------
(* MatchZy (external), and its webhooks                                     *)

Post(type, r) == gsWire' = gsWire \cup {[type |-> type, res |-> r]}

\* get_match_config serves the server that was told to load, or refuses; a
\* refused server does nothing more by itself.
FetchConfig(s) ==
    /\ gsWorld[s].fetching # 0
    /\ LET r == gsWorld[s].fetching IN
       IF config_fetchable(r, s)
       THEN /\ gsWorld' = [gsWorld EXCEPT ![s] = [phase |-> "warmup", res |-> r, fetching |-> 0]]
            /\ Post("series_start", r)
       ELSE gsWorld' = [gsWorld EXCEPT ![s].fetching = 0] /\ UNCHANGED gsWire
    /\ UNCHANGED <<requestVars, gsServer, gsReservations, gsEvents, gsMatch, gsLost>>

\* The players ready up and play.
PlaySeries(s) ==
    /\ Between
    /\ \/ /\ gsWorld[s].phase = "warmup"
          /\ gsWorld' = [gsWorld EXCEPT ![s].phase = "live"]
          /\ Post("going_live", gsWorld[s].res)
       \/ /\ gsWorld[s].phase = "live"
          /\ gsWorld' = [gsWorld EXCEPT ![s].phase = "post_game"]
          /\ Post("series_end", gsWorld[s].res)
    /\ UNCHANGED <<requestVars, gsServer, gsReservations, gsEvents, gsMatch, gsLost>>

\* After the series the server goes back to idle.
ServerResets(s) ==
    /\ Between
    /\ gsWorld[s].phase = "post_game"
    /\ gsWorld' = [gsWorld EXCEPT ![s] = Idle]
    /\ UNCHANGED <<requestVars, gsServer, gsReservations, gsEvents, gsWire, gsMatch, gsLost>>

\* MatchZy never retries.
WebhookLost ==
    /\ \E e \in gsWire : gsWire' = gsWire \ {e}
    /\ Lose
    /\ UNCHANGED <<requestVars, gsServer, gsWorld, gsReservations, gsEvents, gsMatch>>

\* post_event: events of a reservation that is over are ignored.
PostEvent(p) ==
    /\ p \in Serving
    /\ MayStart(p)
    /\ \E e \in gsWire :
          /\ gsWire' = gsWire \ {e}
          /\ IF is_terminal(gsReservations[e.res].status)
             THEN UNCHANGED requestVars
             ELSE Continue(p, [pc |-> "gs event", res |-> e.res, type |-> e.type,
                               server |-> gsReservations[e.res].server])
    /\ UNCHANGED <<gsServer, gsWorld, gsReservations, gsEvents, gsMatch, gsLost>>

Processing(r, type, s, via) ==
    [pc |-> "gs process", res |-> r, type |-> type, server |-> s, via |-> via]

\* ingest_server_event: a duplicate is dropped, unless it is one of the two
\* that only move the status along.
InsertEvent(p) ==
    /\ At(p, "gs event")
    /\ LET q == req[p] IN
       IF EventRow(q.res, q.type) = {}
       THEN /\ gsEvents' = gsEvents \cup {[res |-> q.res, type |-> q.type, processed |-> FALSE]}
            /\ Continue(p, Processing(q.res, q.type, q.server, "webhook"))
       ELSE /\ IF q.type = "series_end" THEN Finish(p)
               ELSE Continue(p, Processing(q.res, q.type, q.server, "replay"))
            /\ UNCHANGED gsEvents
    /\ UNCHANGED <<gsServer, gsWorld, gsReservations, gsWire, gsMatch, gsLost>>

\* The row stays unprocessed for the pass when the webhook could not apply it.
Refused(p) ==
    IF req[p].via = "pass" THEN Continue(p, [req[p] EXCEPT !.pc = "gs processed"]) ELSE Finish(p)

Advance(p, label) == Continue(p, [req[p] EXCEPT !.pc = label])

\* process_event, series_start ...
SeriesStart(p) ==
    /\ At(p, "gs process")
    /\ req[p].type = "series_start"
    /\ IF UniqueLive(WithStatus(req[p].res, "ready"))
       THEN SetReservationStatus(req[p].res, "ready") /\ Advance(p, "gs in match")
       ELSE Refused(p) /\ UNCHANGED gsReservations
    /\ UNCHANGED <<gsServer, gsWorld, gsEvents, gsWire, gsMatch, gsLost>>

SetInMatch(p) ==
    /\ At(p, "gs in match")
    /\ SetServerStatus(req[p].server, "in_match")
    /\ Advance(p, "gs processed")
    /\ UNCHANGED <<gsWorld, gsReservations, gsEvents, gsWire, gsMatch, gsLost>>

\* ... going_live ...
GoingLive(p) ==
    /\ At(p, "gs process")
    /\ req[p].type = "going_live"
    /\ IF UniqueLive(WithStatus(req[p].res, "live"))
       THEN SetReservationStatus(req[p].res, "live") /\ Advance(p, "gs match live")
       ELSE Refused(p) /\ UNCHANGED gsReservations
    /\ UNCHANGED <<gsServer, gsWorld, gsEvents, gsWire, gsMatch, gsLost>>

\* The match starts; one that is further along is left alone.
MatchLive(p) ==
    /\ At(p, "gs match live")
    /\ LET m == gsReservations[req[p].res].match IN
       gsMatch' = IF gsMatch[m].status = "pick_ban"
                  THEN [gsMatch EXCEPT ![m].status = "in_progress"] ELSE gsMatch
    /\ Advance(p, "gs processed")
    /\ UNCHANGED <<gsServer, gsWorld, gsReservations, gsEvents, gsWire, gsLost>>

\* ... series_end: apply_series_end submits the claim of the server, which is
\* refused when the match already has one or is over, ...
SubmitServerClaim(p) ==
    /\ At(p, "gs process")
    /\ req[p].type = "series_end"
    /\ LET m == gsReservations[req[p].res].match IN
       gsMatch' = IF gsMatch[m].status = "in_progress"
                  THEN [gsMatch EXCEPT ![m] = [status |-> "over", claim |-> TRUE]]
                  ELSE gsMatch
    /\ Advance(p, "gs complete")
    /\ UNCHANGED <<gsServer, gsWorld, gsReservations, gsEvents, gsWire, gsLost>>

\* ... and releases.
CompleteRelease(p) ==
    /\ At(p, "gs complete")
    /\ Release(req[p].res, "completed", "series")
    /\ Advance(p, "gs processed")
    /\ UNCHANGED <<gsWorld, gsEvents, gsWire, gsMatch, gsLost>>

MarkProcessed(p) ==
    /\ At(p, "gs processed")
    /\ gsEvents' = {IF e.res = req[p].res /\ e.type = req[p].type /\ req[p].via # "replay"
                    THEN [e EXCEPT !.processed = TRUE] ELSE e : e \in gsEvents}
    /\ Finish(p)
    /\ UNCHANGED <<gsServer, gsWorld, gsReservations, gsWire, gsMatch, gsLost>>

-----------------------------------------------------------------------------
(* run_reservation_pass                                                     *)

\* A row counts as stuck or silent after minutes: in a serial scenario nothing
\* of it is under way by then.
Quiet(r) ==
    scenario.serial =>
        /\ \A s \in GsServers : gsWorld[s].fetching # r
        /\ \A e \in gsWire : e.res # r

\* Phases 1 and 2: a queued row is allocated; one that has its server, and one
\* that configures for too long, is loaded again.
PassReservation(p, r) ==
    /\ r \in DOMAIN gsReservations
    /\ LET row == gsReservations[r] IN
       \/ /\ row.status = "pending" /\ row.server = NoServer
          /\ Wake(p, [pc |-> "gs allocate", res |-> r])
       \/ /\ row.status \in {"pending", "configuring"} /\ row.server # NoServer
          /\ Quiet(r)
          /\ Wake(p, [pc |-> "gs token", res |-> r, server |-> row.server])
    /\ UNCHANGED gsTables

\* Phase 3, reconcile_stale: a row that was ready or live and silent for too
\* long is settled by what the server says it is doing now; a server that
\* still plays, or does not answer, is asked again later.
ReconcileStale(p, r) ==
    /\ r \in DOMAIN gsReservations
    /\ LET row == gsReservations[r]
           s   == row.server
       IN  /\ row.status \in {"ready", "live"} /\ s # NoServer
           /\ Quiet(r)
           /\ gsServer[s].connected
           /\ \/ /\ gsWorld[s].phase = "post_game"
                 /\ Wake(p, [pc |-> "gs event", res |-> r, type |-> "series_end", server |-> s])
              \/ /\ gsWorld[s].phase = "none"
                 /\ Wake(p, [pc |-> "gs silent", res |-> r])
    /\ UNCHANGED gsTables

SilentRelease(p) ==
    /\ At(p, "gs silent")
    /\ Release(req[p].res, "failed", "silent")
    /\ Finish(p)
    /\ UNCHANGED <<gsWorld, gsEvents, gsWire, gsMatch, gsLost>>

\* Phase 4: events left unprocessed.
PassEvent(p, r) ==
    /\ \E e \in gsEvents :
          /\ e.res = r /\ ~e.processed
          /\ Wake(p, Processing(e.res, e.type, gsReservations[e.res].server, "pass"))
    /\ UNCHANGED gsTables

-----------------------------------------------------------------------------
(* Agents                                                                   *)

\* record_heartbeat: the status follows what the agent sees, and whether the
\* loaded match is ours.
HeartbeatStatus(s) ==
    LET current == gsServer[s].status
        ours    == \E r \in find_live_by_server(s) : r = gsWorld[s].res
    IN  IF gsWorld[s].phase = "none" THEN "available"
        ELSE IF ours
        THEN IF current \in {"offline", "error", "available", "busy_external"}
             THEN "in_match" ELSE current
        ELSE "busy_external"

Heartbeat(s) ==
    /\ Between
    /\ gsServer[s].connected
    /\ gsServer' = [gsServer EXCEPT
           ![s].status = HeartbeatStatus(s), ![s].fresh = TRUE,
           ![s].gamestate = IF gsWorld[s].phase = "none" THEN "none" ELSE "busy"]
    /\ gsServer' # gsServer
    /\ UNCHANGED <<requestVars, gsWorld, gsReservations, gsEvents, gsWire, gsMatch, gsLost>>

\* handle_socket ends: the current connection of the server marks it offline.
AgentDisconnects(s) ==
    /\ gsServer[s].connected
    /\ gsServer' = [gsServer EXCEPT ![s].connected = FALSE, ![s].status = "offline"]
    /\ Lose
    /\ UNCHANGED <<requestVars, gsWorld, gsReservations, gsEvents, gsWire, gsMatch>>

AgentConnects(s) ==
    /\ Between
    /\ ~gsServer[s].connected
    /\ scenario.of = "servers" /\ s \in Enrolled
    /\ gsServer' = [gsServer EXCEPT ![s].connected = TRUE]
    /\ UNCHANGED <<requestVars, gsWorld, gsReservations, gsEvents, gsWire, gsMatch, gsLost>>

\* sweep_stale: nothing was heard of the agent for too long.
SweepStale(s) ==
    /\ Between
    /\ ~gsServer[s].connected
    /\ gsServer[s].fresh
    /\ gsServer' = [gsServer EXCEPT ![s].fresh = FALSE, ![s].status = "offline"]
    /\ UNCHANGED <<requestVars, gsWorld, gsReservations, gsEvents, gsWire, gsMatch, gsLost>>

-----------------------------------------------------------------------------
GsRequest(p) == RequestAssignment(p) \/ CancelAssignment(p)

GsWake(p, r) == PassReservation(p, r) \/ ReconcileStale(p, r) \/ PassEvent(p, r)

GsStep(p) ==
    \/ CreatePending(p) \/ StoreConfig(p) \/ Allocate(p)
    \/ SetConfigToken(p) \/ ResetServer(p) \/ LoadMatch(p)
    \/ SetConfiguring(p) \/ SetServerConfiguring(p)
    \/ IncrementRetry(p) \/ GiveUp(p) \/ Quarantine(p) \/ RequeueMatch(p)
    \/ EndMatch(p) \/ CancelRelease(p) \/ PlaceHold(p)
    \/ InsertEvent(p) \/ SeriesStart(p) \/ SetInMatch(p)
    \/ GoingLive(p) \/ MatchLive(p)
    \/ SubmitServerClaim(p) \/ CompleteRelease(p) \/ MarkProcessed(p)
    \/ SilentRelease(p)

GsServerStep(s) ==
    \/ FetchConfig(s) \/ PlaySeries(s) \/ ServerResets(s)
    \/ Heartbeat(s) \/ AgentDisconnects(s) \/ AgentConnects(s) \/ SweepStale(s)
    \/ HoldEnds(s)

GsDie(p) == Die(p) /\ UNCHANGED gsTables

GsNext ==
    \/ \E p \in Tasks : GsRequest(p) \/ PostEvent(p) \/ GsStep(p) \/ GsDie(p)
    \/ \E p \in Tasks, r \in ReservationIds : GsWake(p, r)
    \/ \E s \in GsServers : GsServerStep(s)
    \/ WebhookLost

gsVars == <<requestVars, gsTables>>

GsSpec == RequestsInit /\ GsInit /\ [][GsNext]_gsVars

\* A task goes on; the pass visits every row again and again; agents
\* reconnect and report; matches are played to their end; holds expire.
GsFairness ==
    /\ \A p \in Tasks : WF_gsVars(GsStep(p)) /\ SF_gsVars(PostEvent(p))
    /\ \A r \in ReservationIds : SF_gsVars(GsWake(Pass, r))
    /\ \A s \in GsServers :
           /\ SF_gsVars(FetchConfig(s) \/ PlaySeries(s) \/ ServerResets(s))
           /\ SF_gsVars(AgentConnects(s) \/ Heartbeat(s))
           /\ SF_gsVars(HoldEnds(s))

-----------------------------------------------------------------------------
(* Properties                                                               *)

ReservationRow ==
    [match : GsMatches, server : GsServers \cup {NoServer}, status : ReservationStatus, config : BOOLEAN,
     retries : Nat, token : GsServers \cup {NoServer},
     reason : {NoServer, "config", "load", "admin", "series", "silent"}]

\* The rows of game_servers and server_events.
GameServerRow ==
    [status : GameServerStatus, connected : BOOLEAN, fresh : BOOLEAN, hold : BOOLEAN,
     gamestate : {"none", "busy"}]
ServerEventRow == [res : ReservationIds, type : EventType, processed : BOOLEAN]

\* The tables are well formed; whoever is past the queue has a server.
GsTypeOK ==
    /\ \A r \in DOMAIN gsReservations :
           /\ gsReservations[r] \in ReservationRow
           /\ gsReservations[r].status \in {"configuring", "ready", "live"} =>
                  gsReservations[r].server # NoServer
    /\ gsServer \in [GsServers -> GameServerRow]
    /\ gsEvents \subseteq ServerEventRow

\* Players who are told to connect never walk into another match: no other
\* match is played on the server of a ready or live reservation, though every
\* row is written blindly by its id.  (A request that stalls for the whole life
\* of a reservation can still revive its row, so this is about requests that
\* do not overlap; tasks die and calls are lost all the same.)
OwnMatchOnServer ==
    scenario.serial => \A r \in DOMAIN gsReservations :
        LET w == gsWorld[gsReservations[r].server] IN
        gsReservations[r].status \in {"ready", "live"} /\ w.phase \in {"warmup", "live"}
            => w.res = r

\* A match whose server could not be set up is queued again for another one,
\* unless the task died on the way (the newest row of a match never says that
\* loading failed).
FailedLoadIsRequeued ==
    \A r \in DOMAIN gsReservations :
        gsReservations[r].reason = "load" /\ gsReservations[r].status = "failed"
            /\ crashes = 0 /\ Quiescent
            /\ gsMatch[gsReservations[r].match].status # "over"
        => \E later \in DOMAIN gsReservations :
              later > r /\ gsReservations[later].match = gsReservations[r].match

\* Every row has its config: no task died between queueing a match and storing
\* it.  (A row without one is loaded for ever, and keeps its server.)
AllConfigured ==
    \A r \in DOMAIN gsReservations :
        gsReservations[r].config \/ is_terminal(gsReservations[r].status)

\* Again and again no reservation is left: a match that waits for a server gets
\* one or is called off, and no server is kept for ever for a match that is
\* over, whatever commands, webhooks or connections are lost.
ReservationEnds ==
    []<>AllConfigured =>
        []<>(scenario.serial => \A r \in DOMAIN gsReservations :
                                    is_terminal(gsReservations[r].status))

\* The reservations tell players and the pass where a match is played, and
\* one that could not be set up is followed by another.
ReservationsAreSound == GsTypeOK /\ OwnMatchOnServer /\ FailedLoadIsRequeued

=============================================================================
