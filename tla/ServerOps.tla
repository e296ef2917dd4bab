----------------------------- MODULE ServerOps -----------------------------
(***************************************************************************)
(* What people and agents do to one registered game server around the      *)
(* matches it plays: enrolment, certificates and the agent's socket, the   *)
(* admin console with its allocator holds, round backups and restores, and *)
(* substitutions in a running series.  Which match gets the server, and    *)
(* the life of its reservation, is GameServers; here a reservation comes   *)
(* up ready with the rosters its config names, plays and ends.             *)
(***************************************************************************)
EXTENDS Requests, Sequences, FiniteSets, FiniteSetsExt

CONSTANTS
    SoRosters,      \* match -> <<players of side 1, players of side 2>>
    SoSteam,        \* the players with a linked Steam ID
    SoSockets,      \* bound: agent connections ever opened, 1 .. n
    MaxCerts,       \* bound: certificates ever issued
    MaxSubs,        \* bound: substitutions ever requested
    MaxRounds,      \* bound: rounds of a map
    MaxSoRes        \* bound: reservations ever made

VARIABLES
    so_server,      \* the game_servers row
    so_certs,       \* sequence of [revoked]
    so_sockets,     \* socket -> [state, cert]
    so_agent,       \* the socket the connection manager holds, 0 for none
    so_holds,       \* server_bookings covering now, by reason
    so_audit,       \* admin_server_commands: set of [kind, ok]
    so_res,         \* server_reservations of this server: [match, status]
    so_subs,        \* match_substitutions in order of creation
    so_backups,     \* backup_uploaded rows: <<reservation, round>> -> file
    so_game         \* the CS2 process itself

soAgents == <<so_server, so_certs, so_sockets, so_agent>>
soConsole == <<so_holds, so_audit>>
soPlay == <<so_res, so_subs, so_backups, so_game>>
soTables == <<soAgents, soConsole, soPlay>>
soVars == <<requestVars, soTables>>

SoMatches == DOMAIN SoRosters
SoPlayers == UNION {SoRosters[m][1] \cup SoRosters[m][2] : m \in SoMatches}
NoPlayer == "nobody"

ASSUME ServerOpsAssumption ==
    /\ \A m \in SoMatches : SoRosters[m][1] \cap SoRosters[m][2] = {}
    /\ SoSteam \subseteq SoPlayers
    /\ NoPlayer \notin SoPlayers
    /\ SoSockets \in Nat /\ MaxCerts \in Nat /\ MaxSubs \in Nat
    /\ MaxRounds \in Nat /\ MaxSoRes \in Nat

----------------------------------------------------------------------------
(* The rows. *)

SubstitutionStatus ==
    {"pending", "awaiting_approval", "applying", "applied", "failed", "cancelled",
     "rejected"}
ConsoleKinds == {"map_change", "raw", "end_match", "practice_start", "practice_stop"}
HoldReasons == {"practice", "map", "event"}

\* register: no token, no certificate, no agent.
NewServer == [exists |-> TRUE, enabled |-> TRUE, status |-> "offline",
              token |-> FALSE, cert |-> 0]

\* The process is idle; `saved` is the last backup it made of each round.
IdleGame == [match |-> 0, squad |-> <<{}, {}>>, half |-> "first", practice |-> FALSE,
             round |-> 0, take |-> 1, saved |-> << >>]

SoInit ==
    /\ so_certs = IF scenario.of = "ops" /\ scenario.enrolled
                  THEN <<[revoked |-> FALSE]>> ELSE << >>
    /\ so_server = [NewServer EXCEPT
            !.cert = Len(so_certs),
            !.status = IF Len(so_certs) = 1 THEN "available" ELSE "offline"]
    /\ so_sockets = [k \in 1 .. SoSockets |->
            IF k = 1 /\ Len(so_certs) = 1 THEN [state |-> "open", cert |-> 1]
                                          ELSE [state |-> "none", cert |-> 0]]
    /\ so_agent = Len(so_certs)
    /\ so_holds = {}
    /\ so_audit = {}
    /\ so_res = << >>
    /\ so_subs = << >>
    /\ so_backups = << >>
    /\ so_game = IdleGame

SoAllowed(op) == scenario.of = "ops" /\ op \in scenario.ops

----------------------------------------------------------------------------
(* The registry. *)

so_get == so_server.exists

\* Reservations that hold the server.
SoLive == {r \in DOMAIN so_res : so_res[r].status \in {"ready", "live"}}
so_find_live_by_server == SoLive
so_find_live_by_match(m) == {r \in SoLive : so_res[r].match = m}

\* register: offline until its agent connects.  A new server is a row of its
\* own, so the one followed here must be forgotten by every task.
RegisterServer(p) ==
    /\ SoAllowed("registry")
    /\ ~so_server.exists /\ Quiescent
    /\ \A k \in 1 .. SoSockets : so_sockets[k].state \in {"none", "gone"}
    /\ so_server' = NewServer
    /\ Request(p, NoRequest)
    /\ UNCHANGED <<so_certs, so_sockets, so_agent, soConsole, soPlay>>

\* update: of the settable columns only the allocator's switch matters here.
Switched(row) == [row EXCEPT !.enabled = ~@]

UpdateServer(p) ==
    /\ SoAllowed("registry")
    /\ so_get
    /\ so_server' = Switched(so_server)
    /\ Request(p, NoRequest)
    /\ UNCHANGED <<so_certs, so_sockets, so_agent, soConsole, soPlay>>

\* delete: refused while the row says busy.
Deletable == so_get /\ so_server.status \notin {"in_match", "busy_external"}

DeleteServer(p) ==
    /\ SoAllowed("registry")
    /\ Deletable
    /\ Request(p, [pc |-> "so_delete"])
    /\ UNCHANGED soTables

\* Certificates, bookings and audit rows cascade; a reservation's foreign
\* key refuses.
DeleteServerRow(p) ==
    /\ At(p, "so_delete")
    /\ IF so_res # << >>
       THEN UNCHANGED <<so_server, so_certs, soConsole>>
       ELSE /\ so_server' = [so_server EXCEPT !.exists = FALSE]
            /\ so_certs' = << >> /\ so_holds' = {} /\ so_audit' = {}
    /\ Finish(p)
    /\ UNCHANGED <<so_sockets, so_agent, soPlay>>

Booked(reason) == so_holds \cup {reason}
Unbooked(reason) == so_holds \ {reason}

\* A booking by an admin, over a live match too; and its removal.
CreateBooking(p) ==
    /\ SoAllowed("booking")
    /\ so_get
    /\ so_holds' = Booked("event")
    /\ Request(p, NoRequest)
    /\ UNCHANGED <<soAgents, so_audit, soPlay>>

DeleteBooking(p, b) ==
    /\ SoAllowed("booking")
    /\ b \in so_holds
    /\ so_holds' = Unbooked(b)
    /\ Request(p, NoRequest)
    /\ UNCHANGED <<soAgents, so_audit, soPlay>>

\* A booking's window ends.
BookingEnds(b) ==
    /\ SoAllowed("hold_ends")
    /\ b \in so_holds
    /\ so_holds' = so_holds \ {b}
    /\ UNCHANGED <<requestVars, soAgents, so_audit, soPlay>>

----------------------------------------------------------------------------
(* Enrolment and certificates. *)

\* A new token replaces the one before.
set_enrollment_token(row) == [row EXCEPT !.token = TRUE]

MintEnrollmentToken(p) ==
    /\ SoAllowed("enroll")
    /\ so_get
    /\ so_server' = set_enrollment_token(so_server)
    /\ Request(p, NoRequest)
    /\ UNCHANGED <<so_certs, so_sockets, so_agent, soConsole, soPlay>>

\* enroll, by the agent that was given the token.
find_by_enrollment_token == so_get /\ so_server.token

Enroll(p) ==
    /\ SoAllowed("enroll")
    /\ find_by_enrollment_token
    /\ Len(so_certs) < MaxCerts
    /\ Request(p, [pc |-> "so_issue"])
    /\ UNCHANGED soTables

\* is_valid: the certificate is known and not revoked.
CertValid(c) == c \in DOMAIN so_certs /\ ~so_certs[c].revoked

\* authenticate_agent: a valid certificate of a server that exists.
authenticate_agent == so_get /\ \E c \in DOMAIN so_certs : CertValid(c)

\* renew, on a connection with such a certificate.
RenewCertificate(p) ==
    /\ SoAllowed("enroll")
    /\ authenticate_agent
    /\ Len(so_certs) < MaxCerts
    /\ Request(p, [pc |-> "so_issue"])
    /\ UNCHANGED soTables

\* The signed certificate is recorded, if its server is still there.
InsertCert(p) ==
    /\ At(p, "so_issue")
    /\ IF so_get
       THEN /\ so_certs' = Append(so_certs, [revoked |-> FALSE])
            /\ Continue(p, [pc |-> "so_enrolled", cert |-> Len(so_certs) + 1])
       ELSE Finish(p) /\ UNCHANGED so_certs
    /\ UNCHANGED <<so_server, so_sockets, so_agent, soConsole, soPlay>>

\* The row names the new serial and the token is spent.
complete_enrollment(p) ==
    /\ At(p, "so_enrolled")
    /\ so_server' = [so_server EXCEPT !.cert = req[p].cert, !.token = FALSE]
    /\ Finish(p)
    /\ UNCHANGED <<so_certs, so_sockets, so_agent, soConsole, soPlay>>

RevokeAgent(p) ==
    /\ SoAllowed("revoke")
    /\ so_get
    /\ Request(p, [pc |-> "so_revoke"])
    /\ UNCHANGED soTables

revoke_for_server(p) ==
    /\ At(p, "so_revoke")
    /\ so_certs' = [c \in DOMAIN so_certs |-> [revoked |-> TRUE]]
    /\ Continue(p, [pc |-> "so_clear"])
    /\ UNCHANGED <<so_server, so_sockets, so_agent, soConsole, soPlay>>

ClearedCert(row) == [row EXCEPT !.cert = 0, !.status = "offline"]

clear_agent_cert(p) ==
    /\ At(p, "so_clear")
    /\ so_server' = ClearedCert(so_server)
    /\ Continue(p, [pc |-> "so_sever"])
    /\ UNCHANGED <<so_certs, so_sockets, so_agent, soConsole, soPlay>>

\* disconnect: the handle is dropped, whoever's it is.
Disconnect(p) ==
    /\ At(p, "so_sever")
    /\ so_agent' = 0
    /\ Finish(p)
    /\ UNCHANGED <<so_server, so_certs, so_sockets, soConsole, soPlay>>

----------------------------------------------------------------------------
(* The agent's socket: a task of its own on the server side. *)

is_connected == so_agent # 0

SocketTo(k, state) == so_sockets' = [so_sockets EXCEPT ![k].state = state]

\* ws_upgrade: the certificate is checked before the upgrade; sockets are
\* numbered in the order they come up.
SocketAuthenticates(k) ==
    /\ SoAllowed("agent")
    /\ so_get
    /\ so_sockets[k].state = "none"
    /\ \A j \in 1 .. k - 1 : so_sockets[j].state # "none"
    /\ \E c \in DOMAIN so_certs :
        /\ CertValid(c)
        /\ so_sockets' = [so_sockets EXCEPT ![k] = [state |-> "upgrading", cert |-> c]]
    /\ UNCHANGED <<requestVars, so_server, so_certs, so_agent, soConsole, soPlay>>

\* register: the newest socket is the server's; the one before loses its
\* outbound channel.
SocketRegisters(k) ==
    /\ so_sockets[k].state = "upgrading"
    /\ \A j \in 1 .. k - 1 : so_sockets[j].state # "upgrading"
    /\ SocketTo(k, "open")
    /\ so_agent' = k
    /\ UNCHANGED <<requestVars, so_server, so_certs, soConsole, soPlay>>

\* A heartbeat with RCON up: the loaded match decides the status.
record_heartbeat ==
    IF so_game.match = 0 THEN "available"
    ELSE IF SoLive # {} THEN "in_match" ELSE "busy_external"

AgentHeartbeat(k) ==
    /\ so_sockets[k].state = "open"
    /\ so_get
    /\ so_server' = [so_server EXCEPT !.status = record_heartbeat]
    /\ UNCHANGED <<requestVars, so_certs, so_sockets, so_agent, soConsole, soPlay>>

\* The connection breaks, or the manager closed the outbound channel.
SocketCloses(k) ==
    /\ so_sockets[k].state = "open"
    /\ SoAllowed("agent") \/ so_agent # k
    /\ SocketTo(k, "closing")
    /\ UNCHANGED <<requestVars, so_server, so_certs, so_agent, soConsole, soPlay>>

\* Mutant: whatever connection is registered goes.
RemoveAny(k) ==
    /\ so_sockets[k].state = "closing"
    /\ SocketTo(k, "checking")
    /\ so_agent' = 0
    /\ UNCHANGED <<requestVars, so_server, so_certs, soConsole, soPlay>>

\* remove: only if it is still the current one.
SocketRemoves(k) ==
    /\ so_sockets[k].state = "closing"
    /\ SocketTo(k, "checking")
    /\ so_agent' = IF so_agent = k THEN 0 ELSE so_agent
    /\ UNCHANGED <<requestVars, so_server, so_certs, soConsole, soPlay>>

\* Offline is stamped only when nobody is connected by now.
SocketChecks(k) ==
    /\ so_sockets[k].state = "checking"
    /\ SocketTo(k, IF is_connected THEN "gone" ELSE "stamping")
    /\ UNCHANGED <<requestVars, so_server, so_certs, so_agent, soConsole, soPlay>>

mark_disconnected(k) ==
    /\ so_sockets[k].state = "stamping"
    /\ SocketTo(k, "gone")
    /\ so_server' = [so_server EXCEPT !.status = "offline"]
    /\ UNCHANGED <<requestVars, so_certs, so_agent, soConsole, soPlay>>

SoSocketStep(k) ==
    \/ SocketAuthenticates(k) \/ SocketRegisters(k) \/ AgentHeartbeat(k)
    \/ SocketCloses(k) \/ SocketRemoves(k) \/ SocketChecks(k) \/ mark_disconnected(k)

----------------------------------------------------------------------------
(* Commands to the agent. *)

\* What may become of one: nobody is connected, the agent did it, refused
\* it, or did it and the answer was lost to the timeout.
Outcomes == IF is_connected THEN {"ok"} \cup scenario.faults ELSE {"unreached"}
Reached(outcome) == outcome \in {"ok", "lost"}

----------------------------------------------------------------------------
(* Reservations, as the match-server flow makes and ends them. *)

\* The roster, with the applied substitutions in the order of creation.
effective_player_ids(m, side) ==
    LET after[n \in 0 .. Len(so_subs)] ==
            IF n = 0 THEN SoRosters[m][side]
            ELSE LET s == so_subs[n] IN
                 IF s.match = m /\ s.side = side /\ s.status = "applied"
                 THEN (after[n - 1] \ {s.out}) \cup ({s.in} \ {NoPlayer})
                 ELSE after[n - 1]
    IN after[Len(so_subs)]

\* Every listed player needs a Steam ID for the config to be built.
roster_for(m, side) == effective_player_ids(m, side)
build_config(m) == \A side \in 1 .. 2 : roster_for(m, side) \subseteq SoSteam

\* The allocator keeps off a server that is held, busy or not available.
SoAllocatable ==
    /\ so_get /\ so_server.enabled /\ so_server.status = "available"
    /\ is_connected /\ SoLive = {} /\ so_holds = {}

\* A match gets the server and the config is loaded: the work of a task of
\* its own, here in one step.
MatchArrives(m) ==
    /\ SoAllowed("match")
    /\ scenario.serial => Quiescent
    /\ m \in scenario.matches
    /\ SoAllocatable
    /\ so_find_live_by_match(m) = {}
    /\ build_config(m)
    /\ Len(so_res) < MaxSoRes
    /\ so_res' = Append(so_res, [match |-> m, status |-> "ready"])
    /\ so_game' = [IdleGame EXCEPT !.match = Len(so_res) + 1,
                        !.squad = <<roster_for(m, 1), roster_for(m, 2)>>]
    /\ UNCHANGED <<requestVars, soAgents, soConsole, so_subs, so_backups>>

ReservationGoesLive(r) ==
    /\ so_res[r].status = "ready"
    /\ so_res' = [so_res EXCEPT ![r].status = "live"]
    /\ UNCHANGED <<requestVars, soAgents, soConsole, so_subs, so_backups, so_game>>

\* The series ends; the reservation completes and the process is idle.
MatchEnds(r) ==
    /\ so_res[r].status = "live"
    /\ so_res' = [so_res EXCEPT ![r].status = "completed"]
    /\ so_game' = IdleGame
    /\ UNCHANGED <<requestVars, soAgents, soConsole, so_subs, so_backups>>

\* cancel_assignment's end_match, whose outcome is ignored.
SoEndMatch(p) ==
    /\ At(p, "so_end_match")
    /\ \E outcome \in Outcomes :
        so_game' = IF Reached(outcome) THEN [IdleGame EXCEPT !.practice = so_game.practice]
                   ELSE so_game
    /\ Continue(p, [req[p] EXCEPT !.pc = "so_release"])
    /\ UNCHANGED <<soAgents, soConsole, so_res, so_subs, so_backups>>

\* Then the reservation is released as cancelled.
SoRelease(p) ==
    /\ At(p, "so_release")
    /\ so_res' = [so_res EXCEPT ![req[p].res].status = "cancelled"]
    /\ Continue(p, [req[p] EXCEPT !.pc = req[p].then])
    /\ UNCHANGED <<soAgents, soConsole, so_subs, so_backups, so_game>>

----------------------------------------------------------------------------
(* The console. *)

\* Every command wants the server and its agent.
require_connected == so_get /\ is_connected
live_reservation == so_find_live_by_server

\* change_map: a live reservation needs force, which cancels it first.
ChangeMap(p, force) ==
    /\ SoAllowed("console")
    /\ require_connected
    /\ \/ /\ live_reservation = {}
          /\ Request(p, [pc |-> "so_hold", hold |-> "map", kind |-> "map_change"])
       \/ /\ force
          /\ \E r \in live_reservation :
               Request(p, [pc |-> "so_end_match", res |-> r, then |-> "so_hold",
                           hold |-> "map", kind |-> "map_change"])
    /\ UNCHANGED soTables

\* run_action's practice_start: refused under a live reservation.
PracticeStart(p) ==
    /\ SoAllowed("console")
    /\ require_connected
    /\ live_reservation = {}
    /\ Request(p, [pc |-> "so_hold", hold |-> "practice", kind |-> "practice_start"])
    /\ UNCHANGED soTables

PracticeStop(p) ==
    /\ SoAllowed("console")
    /\ require_connected
    /\ Request(p, [pc |-> "so_exec", kind |-> "practice_stop"])
    /\ UNCHANGED soTables

\* end_match cancels the reservation, or runs css_endmatch without one.
ConsoleEndMatch(p) ==
    /\ SoAllowed("console")
    /\ require_connected
    /\ \/ /\ live_reservation = {}
          /\ Request(p, [pc |-> "so_exec", kind |-> "end_match"])
       \/ \E r \in live_reservation :
            Request(p, [pc |-> "so_end_match", res |-> r, then |-> "so_audit",
                        kind |-> "end_match", ok |-> TRUE])
    /\ UNCHANGED soTables

\* send_command, and the lines of the table that leave nothing behind.
SendCommand(p) ==
    /\ SoAllowed("console")
    /\ require_connected
    /\ Request(p, [pc |-> "so_exec", kind |-> "raw"])
    /\ UNCHANGED soTables

\* place_hold: the allocator keeps off; a failure would only be logged.
place_hold(p) ==
    /\ At(p, "so_hold")
    /\ so_holds' = Booked(req[p].hold)
    /\ Continue(p, [pc |-> "so_exec", kind |-> req[p].kind])
    /\ UNCHANGED <<soAgents, so_audit, soPlay>>

\* What the lines do to the process.
ConsoleEffect(kind) ==
    CASE kind = "practice_start" -> [so_game EXCEPT !.practice = TRUE]
      [] kind = "practice_stop"  -> [so_game EXCEPT !.practice = FALSE]
      [] kind = "end_match"      -> [IdleGame EXCEPT !.practice = so_game.practice]
      [] OTHER                   -> so_game

\* exec_all: the lines run or do not; the caller goes on either way.
exec(p) ==
    /\ At(p, "so_exec")
    /\ \E outcome \in Outcomes :
        /\ so_game' = IF Reached(outcome) THEN ConsoleEffect(req[p].kind) ELSE so_game
        /\ Continue(p, [pc |-> IF req[p].kind = "practice_stop" THEN "so_unhold"
                                                               ELSE "so_audit",
                        kind |-> req[p].kind, ok |-> outcome = "ok"])
    /\ UNCHANGED <<soAgents, soConsole, so_res, so_subs, so_backups>>

\* The practice holds go after the lines ran, whatever they answered.
ReleaseHold(p) ==
    /\ At(p, "so_unhold")
    /\ so_holds' = Unbooked("practice")
    /\ Continue(p, [req[p] EXCEPT !.pc = "so_audit"])
    /\ UNCHANGED <<soAgents, so_audit, soPlay>>

\* One row per command sent, successful or not.
audit(p) ==
    /\ At(p, "so_audit")
    /\ so_audit' = so_audit \cup {[kind |-> req[p].kind, ok |-> req[p].ok]}
    /\ Finish(p)
    /\ UNCHANGED <<soAgents, so_holds, soPlay>>

----------------------------------------------------------------------------
(* Substitutions. *)

\* The players of the side the picker offers: rostered and not listed.
substitution_options(m, side) == SoRosters[m][side] \ effective_player_ids(m, side)

\* The incoming player is nobody (short-handed), or a rostered player with a
\* Steam ID whom neither side lists.
MayComeIn(m, side, in) ==
    \/ in = NoPlayer
    \/ /\ in \in substitution_options(m, side)
       /\ in \notin effective_player_ids(m, 3 - side)
       /\ in \in SoSteam

\* request_substitution's checks of the two players.
Substitutable(m, side, out, in) ==
    /\ out \in effective_player_ids(m, side)
    /\ MayComeIn(m, side, in)

CreateSubstitution(p, m, side, out, in) ==
    /\ SoAllowed("subs")
    /\ Len(so_subs) < MaxSubs
    /\ Substitutable(m, side, out, in)
    /\ \E r \in so_find_live_by_match(m) :
         Request(p, [pc |-> "so_sub_insert", row |->
            [match |-> m, side |-> side, res |-> r, out |-> out, in |-> in,
             status |-> IF scenario.approval THEN "awaiting_approval" ELSE "pending"]])
    /\ UNCHANGED soTables

\* The live index: one unsettled substitution per player going out.
uq_match_substitutions_live(row) ==
    \A n \in DOMAIN so_subs :
        so_subs[n].match = row.match /\ so_subs[n].out = row.out
            => so_subs[n].status \notin {"pending", "awaiting_approval", "applying"}

InsertSubstitution(p) ==
    /\ At(p, "so_sub_insert")
    /\ IF uq_match_substitutions_live(req[p].row)
       THEN /\ so_subs' = Append(so_subs, req[p].row)
            /\ IF req[p].row.status = "pending"
               THEN Continue(p, [pc |-> "so_sub_applying", sub |-> Len(so_subs) + 1])
               ELSE Finish(p)
       ELSE Finish(p) /\ UNCHANGED so_subs
    /\ UNCHANGED <<soAgents, soConsole, so_res, so_backups, so_game>>

\* set_status writes over whatever is there.
SetSubstitution(n, status) ==
    /\ so_subs' = [so_subs EXCEPT ![n].status = status]
    /\ UNCHANGED <<soAgents, soConsole, so_res, so_backups, so_game>>

\* apply_substitution: the row is applying before the command goes out.
SetApplying(p) ==
    /\ At(p, "so_sub_applying")
    /\ SetSubstitution(req[p].sub, "applying")
    /\ Continue(p, [pc |-> "so_sub_edit", sub |-> req[p].sub])

\* The process edits the match it has loaded, whichever that is.
EditedSquad(s) ==
    IF so_game.match = 0 THEN so_game.squad
    ELSE [side \in 1 .. 2 |-> (so_game.squad[side] \ {s.out}) \cup
            (IF side = s.side THEN {s.in} \ {NoPlayer} ELSE {})]

\* An answer that mentions halftime leaves the row for a retry; an error is
\* written to the row.
AfterEdit(outcome) ==
    CASE outcome = "ok"       -> "so_sub_applied"
      [] outcome = "halftime" -> "idle"
      [] OTHER                -> "so_sub_reason"

RosterEdit(p) ==
    /\ At(p, "so_sub_edit")
    /\ \E outcome \in Outcomes :
        LET blocked == so_game.half = "break" /\ Reached(outcome)
            next == AfterEdit(IF blocked /\ outcome = "ok" THEN "halftime" ELSE outcome)
        IN /\ so_game' = IF Reached(outcome) /\ ~blocked
                         THEN [so_game EXCEPT !.squad = EditedSquad(so_subs[req[p].sub])]
                         ELSE so_game
           /\ Continue(p, IF next = "idle" THEN NoRequest
                          ELSE [pc |-> next, sub |-> req[p].sub])
    /\ UNCHANGED <<soAgents, soConsole, so_res, so_subs, so_backups>>

\* css_readyrequired for a short-handed side changes nothing kept here.
MarkApplied(p) ==
    /\ At(p, "so_sub_applied")
    /\ SetSubstitution(req[p].sub, "applied")
    /\ Finish(p)

\* The reason is stored with the status it had when the command was sent.
RecordFailure(p) ==
    /\ At(p, "so_sub_reason")
    /\ SetSubstitution(req[p].sub, "applying")
    /\ Finish(p)

list_applying == {n \in DOMAIN so_subs : so_subs[n].status = "applying"}

\* The pass retries what is still applying, on any reservation.
RetryApplying(p) ==
    /\ scenario.of = "ops"
    /\ \E n \in list_applying : Wake(p, [pc |-> "so_sub_applying", sub |-> n])
    /\ UNCHANGED soTables

\* A round_end event retries those of its reservation.
RoundEndRetries(p) ==
    /\ SoAllowed("subs")
    /\ \E r \in SoLive : \E n \in DOMAIN so_subs :
        /\ so_subs[n].res = r /\ so_subs[n].status = "applying"
        /\ Request(p, [pc |-> "so_sub_applying", sub |-> n])
    /\ UNCHANGED soTables

\* Halftime begins and ends.
HalfTo(from, to) ==
    /\ so_game.match # 0
    /\ so_game.half = from
    /\ so_game' = [so_game EXCEPT !.half = to]
    /\ UNCHANGED <<requestVars, soAgents, soConsole, so_res, so_subs, so_backups>>
HalftimeBegins == SoAllowed("halftime") /\ HalfTo("first", "break")
HalftimeEnds == HalfTo("break", "second")

\* cancel_substitution, approve_substitution and reject_substitution check
\* the status they read, then write.
CancelSubstitution(p, n) ==
    /\ SoAllowed("subs")
    /\ so_subs[n].status \notin {"applied", "failed"}
    /\ Request(p, [pc |-> "so_sub_set", sub |-> n, status |-> "cancelled"])
    /\ UNCHANGED soTables

ApproveSubstitution(p, n) ==
    /\ SoAllowed("subs")
    /\ so_subs[n].status = "awaiting_approval"
    /\ Request(p, [pc |-> "so_sub_set", sub |-> n, status |-> "pending"])
    /\ UNCHANGED soTables

RejectSubstitution(p, n) ==
    /\ SoAllowed("subs")
    /\ so_subs[n].status \in {"pending", "awaiting_approval", "applying"}
    /\ Request(p, [pc |-> "so_sub_set", sub |-> n, status |-> "rejected"])
    /\ UNCHANGED soTables

\* An approved one goes straight on to be applied.
DecideSubstitution(p) ==
    /\ At(p, "so_sub_set")
    /\ SetSubstitution(req[p].sub, req[p].status)
    /\ IF req[p].status = "pending"
       THEN Continue(p, [pc |-> "so_sub_applying", sub |-> req[p].sub])
       ELSE Finish(p)

----------------------------------------------------------------------------
(* Round backups. *)

\* A live round ends: the process writes its backup and posts it.
PostBackup(p) ==
    /\ SoAllowed("backup")
    /\ so_game.match # 0
    /\ so_res[so_game.match].status = "live"
    /\ so_game.round < MaxRounds
    /\ LET n == so_game.round + 1 IN
        /\ so_game' = [so_game EXCEPT !.round = n,
                !.saved = [k \in 1 .. n |-> IF k = n THEN so_game.take ELSE so_game.saved[k]]]
        /\ Request(p, [pc |-> "so_index", key |-> <<so_game.match, n>>,
                       file |-> so_game.take])
    /\ UNCHANGED <<soAgents, soConsole, so_res, so_subs, so_backups>>

\* ON CONFLICT DO NOTHING: a round that has its row keeps it.
InsertBackupEvent(key, file) ==
    [k \in DOMAIN so_backups \cup {key} |->
        IF k \in DOMAIN so_backups THEN so_backups[k] ELSE file]

\* The file is stored under a new key and indexed.
IndexBackup(p) ==
    /\ At(p, "so_index")
    /\ so_backups' = InsertBackupEvent(req[p].key, req[p].file)
    /\ Finish(p)
    /\ UNCHANGED <<soAgents, soConsole, so_res, so_subs, so_game>>

\* The newest row at or before the round.
latest_backup(r, before) ==
    LET rows == {k \in DOMAIN so_backups : k[1] = r /\ k[2] <= before}
    IN {k \in rows : \A j \in rows : j[2] <= k[2]}

\* restore_backup: the config token is new, so an older restore's is dead.
RestoreBackup(p, m, before) ==
    /\ SoAllowed("backup")
    /\ \E r \in so_find_live_by_match(m) : \E k \in latest_backup(r, before) :
         Request(p, [pc |-> "so_load", key |-> k])
    /\ UNCHANGED soTables

\* get_backup serves the file the row names.
find_backup_key(key) == so_backups[key]

\* The process fetches the indexed file and continues from that round, in a
\* take of its own.
LoadBackup(p) ==
    /\ At(p, "so_load")
    /\ \E outcome \in Outcomes :
        so_game' =
            IF Reached(outcome) /\ so_game.match = req[p].key[1]
            THEN [so_game EXCEPT !.round = req[p].key[2], !.take = so_game.take + 1,
                    !.saved = [k \in 1 .. req[p].key[2] |->
                        IF k = req[p].key[2] THEN find_backup_key(req[p].key)
                        ELSE so_game.saved[k]]]
            ELSE so_game
    /\ Finish(p)
    /\ UNCHANGED <<soAgents, soConsole, so_res, so_subs, so_backups>>

----------------------------------------------------------------------------
(* The specification. *)

SoArrives(p) ==
    \/ RegisterServer(p) \/ UpdateServer(p) \/ DeleteServer(p)
    \/ CreateBooking(p) \/ \E b \in HoldReasons : DeleteBooking(p, b)
    \/ MintEnrollmentToken(p) \/ Enroll(p) \/ RenewCertificate(p) \/ RevokeAgent(p)
    \/ \E force \in BOOLEAN : ChangeMap(p, force)
    \/ PracticeStart(p) \/ PracticeStop(p) \/ ConsoleEndMatch(p) \/ SendCommand(p)
    \/ \E m \in SoMatches, side \in 1 .. 2, out \in SoPlayers,
         in \in SoPlayers \cup {NoPlayer} : CreateSubstitution(p, m, side, out, in)
    \/ \E n \in DOMAIN so_subs : \/ CancelSubstitution(p, n)
                                 \/ ApproveSubstitution(p, n)
                                 \/ RejectSubstitution(p, n)
    \/ RoundEndRetries(p)
    \/ PostBackup(p)
    \/ \E m \in SoMatches, before \in 1 .. MaxRounds : RestoreBackup(p, m, before)

SoStep(p) ==
    \/ DeleteServerRow(p)
    \/ InsertCert(p) \/ complete_enrollment(p)
    \/ revoke_for_server(p) \/ clear_agent_cert(p) \/ Disconnect(p)
    \/ SoEndMatch(p) \/ SoRelease(p)
    \/ place_hold(p) \/ exec(p) \/ ReleaseHold(p) \/ audit(p)
    \/ InsertSubstitution(p) \/ SetApplying(p) \/ RosterEdit(p) \/ MarkApplied(p)
    \/ RecordFailure(p) \/ DecideSubstitution(p)
    \/ IndexBackup(p) \/ LoadBackup(p)

SoWorld ==
    \/ \E k \in 1 .. SoSockets : SoSocketStep(k)
    \/ \E b \in HoldReasons : BookingEnds(b)
    \/ \E m \in SoMatches : MatchArrives(m)
    \/ \E r \in DOMAIN so_res : ReservationGoesLive(r) \/ MatchEnds(r)
    \/ HalftimeBegins \/ HalftimeEnds

SoNext ==
    \/ \E p \in Tasks : SoArrives(p) \/ SoStep(p) \/ (Die(p) /\ UNCHANGED soTables)
    \/ RetryApplying(Pass)
    \/ SoWorld

SoSpec == RequestsInit /\ SoInit /\ [][SoNext]_soVars

\* The pass runs for ever, a task that does not die goes on, and halftime is
\* over some time.
SoFairness ==
    /\ \A p \in Tasks : WF_soVars(SoStep(p))
    /\ SF_soVars(RetryApplying(Pass))
    /\ WF_soVars(HalftimeEnds)

SoFairSpec == SoSpec /\ SoFairness

----------------------------------------------------------------------------
(* Properties. *)

\* The rows of game_servers, its certificates, substitutions and the audit.
OpsServerRow ==
    [exists : BOOLEAN, enabled : BOOLEAN, token : BOOLEAN, cert : Nat,
     status : {"offline", "available", "in_match", "busy_external"}]
AgentCertificateRow == [revoked : BOOLEAN]
AdminServerCommandRow == [kind : ConsoleKinds, ok : BOOLEAN]

\* Types; the row's certificate is one of those issued, and the manager's
\* handle is a socket that came up.
SoTypeOK ==
    /\ so_server \in OpsServerRow
    /\ Range(so_certs) \subseteq AgentCertificateRow
    /\ so_server.exists => so_server.cert <= Len(so_certs)
    /\ \A k \in 1 .. SoSockets :
        so_sockets[k].state \in {"none", "upgrading", "open", "closing", "checking",
                                 "stamping", "gone"}
    /\ so_agent \in 0 .. SoSockets
    /\ so_agent # 0 => so_sockets[so_agent].state \in {"open", "closing"}
    /\ so_holds \subseteq HoldReasons
    /\ so_audit \subseteq AdminServerCommandRow
    /\ \A n \in DOMAIN so_subs : so_subs[n].status \in SubstitutionStatus
    /\ \A side \in 1 .. 2 : so_game.squad[side] \subseteq SoPlayers

\* The newest socket that came up and did not break is the one commands go
\* to, unless an admin severed the agent: the end of an older socket never
\* takes the newer one's place (agent_manager.rs, remove).
NewestSocketIsTheHandle ==
    scenario.of = "ops" /\ "revoke" \notin scenario.ops =>
        \A k \in 1 .. SoSockets :
            /\ so_sockets[k].state = "open"
            /\ \A j \in k + 1 .. SoSockets : so_sockets[j].state \in {"none", "upgrading"}
            => so_agent = k

\* A reservation names a server that exists, whatever races its deletion.
ReservationHasServer ==
    so_res # << >> => so_server.exists

\* One admin at a time: a practice never runs under a match.  While the
\* console's hold stands, or the process is in practice mode behind it, the
\* server has no live reservation.
PracticeIsAlone ==
    scenario.of = "ops" /\ scenario.serial /\ Quiescent
        /\ "practice" \in so_holds => SoLive = {}

\* Requests one at a time: the players on the server are the ones the record
\* lists for the match it plays, unless a substitution is still under way or
\* was called off.
SquadFollowsRecord ==
    scenario.of = "ops" /\ scenario.serial /\ Quiescent =>
        \A r \in SoLive :
            /\ so_game.match = r
            /\ \A n \in DOMAIN so_subs :
                so_subs[n].match = so_res[r].match =>
                    so_subs[n].status \notin {"applying", "cancelled", "rejected"}
            => \A side \in 1 .. 2 :
                so_game.squad[side] = effective_player_ids(so_res[r].match, side)

\* A substitution blocked by halftime, or whose attempt died, is settled once
\* the server can take it.
ApplyingSettles ==
    \A n \in 1 .. MaxSubs :
        (/\ scenario.of = "ops" /\ scenario.faults = {}
         /\ n \in DOMAIN so_subs /\ so_subs[n].status = "applying")
        ~> (n \in DOMAIN so_subs => so_subs[n].status # "applying")

\* Agents, admins, the console and substitutions leave a server in a state
\* that agrees with its row, its socket and its match.
OperationsAreSound ==
    SoTypeOK /\ NewestSocketIsTheHandle /\ ReservationHasServer /\ PracticeIsAlone
    /\ SquadFollowsRecord

=============================================================================
