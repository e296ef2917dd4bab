-------------------------------- MODULE Pugs --------------------------------
(***************************************************************************)
(* Pick-up games.  Players gather in a lobby, form two teams and lock it;  *)
(* locking builds a hidden tournament with one match, whose veto, server   *)
(* and result then drive the lobby's status through hooks, while a sweeper *)
(* expires, reconciles and calls off what is left behind.  Only the lock,  *)
(* the veto hook and the expiry compare the status they replace; the other *)
(* writes follow a read of their own.                                      *)
(* Source: services/pug.rs, pug_flow.rs, adapters/pug.rs, handlers/pugs.rs *)
(***************************************************************************)
EXTENDS Requests, FiniteSets, Functions, TLC

CONSTANTS
    PugPlayers,         \* the people who may come
    PugCreator,         \* the one who opens lobbies
    PugTeamSize,
    BENCH_SLOTS,
    MAX_ACTIVE_CREATED,
    MaxPugs             \* bound: lobbies ever created

VARIABLES
    pugs,               \* pugs[i]: the row of lobby i
    pugRoster,          \* pugRoster[i]: team of every player in it, 0 is the bench
    pugCaptains,        \* pugCaptains[i]: the captains
    pugEntries,         \* pugEntries[i]: the players with a map on the wheel
    pugMatch            \* pugMatch[i]: the hidden tournament built for lobby i

pugTables == <<pugs, pugRoster, pugCaptains, pugEntries, pugMatch>>

PugIds == 1 .. MaxPugs
PugStatus == {"gathering", "map_selection", "awaiting_server", "live",
              "completed", "cancelled", "expired"}

\* Who sits where: on the bench (0) or in a team.
PugRosters == UNION {[players -> 0 .. 2] : players \in SUBSET PugPlayers}

ASSUME PugsAssumption ==
    /\ PugCreator \in PugPlayers
    /\ PugTeamSize \in Nat \ {0}
    /\ BENCH_SLOTS \in Nat /\ MAX_ACTIVE_CREATED \in Nat /\ MaxPugs \in Nat \ {0}
    /\ \A s \in Scenarios :
          s.of = "pug" => s.lobby \in PugRosters /\ PugCreator \in DOMAIN s.lobby

PugOver(status) == status \in {"completed", "cancelled", "expired"}

\* A lobby nobody opened yet, and a fresh one: its match_id is not attached.
NoPug == [status |-> "none", attached |-> FALSE, winner |-> 0]
Gathering == [status |-> "gathering", attached |-> FALSE, winner |-> 0]

\* The container: the tournament row, the match in it, its veto session and its
\* server, and the teams that play.
NoContainer == [match |-> "none", veto |-> "none", server |-> FALSE, winner |-> 0,
                teams |-> <<{}, {}>>]
MatchOver(i) == pugMatch[i].match \in {"completed", "cancelled"}

Team(i, t) == {x \in DOMAIN pugRoster[i] : pugRoster[i][x] = t}
is_open(i) == pugs[i].status = "gathering"

\* The scenario says who sits where in the lobby that is open at the start.
PugInit ==
    LET first == scenario.of = "pug" /\ MaxPugs > 0 IN
    /\ pugs = [i \in PugIds |-> IF first /\ i = 1 THEN Gathering ELSE NoPug]
    /\ pugRoster = [i \in PugIds |-> IF first /\ i = 1 THEN scenario.lobby ELSE <<>>]
    /\ pugCaptains = [i \in PugIds |-> IF first /\ i = 1 THEN {PugCreator} ELSE {}]
    /\ pugEntries = [i \in PugIds |-> {}]
    /\ pugMatch = [i \in PugIds |-> NoContainer]

-----------------------------------------------------------------------------
(* The tables                                                               *)

\* transition_status: compare and swap.
TransitionPug(i, expected, next) ==
    pugs' = IF pugs[i].status = expected THEN [pugs EXCEPT ![i].status = next] ELSE pugs

\* set_status: blind.
SetPugStatus(i, status) == pugs' = [pugs EXCEPT ![i].status = status]

\* set_result: not over a cancelled or expired lobby.
SetResult(i, winner) ==
    pugs' = IF pugs[i].status \in {"cancelled", "expired"} THEN pugs
            ELSE [pugs EXCEPT ![i].status = "completed", ![i].winner = winner]

count_active_created_by ==
    Cardinality({i \in PugIds : pugs[i] # NoPug /\ ~PugOver(pugs[i].status)})

\* Whoever is new sits on the bench.
Seated(roster, x) ==
    [y \in DOMAIN roster \cup {x} |-> IF y \in DOMAIN roster THEN roster[y] ELSE 0]

add_player(i, x) ==
    pugRoster' = IF x \in DOMAIN pugRoster[i]
                    \/ Cardinality(DOMAIN pugRoster[i]) >= 2 * PugTeamSize + BENCH_SLOTS
                 THEN pugRoster ELSE [pugRoster EXCEPT ![i] = Seated(@, x)]

remove_player(i, x) ==
    /\ pugRoster' = [pugRoster EXCEPT ![i] = Restrict(@, DOMAIN @ \ {x})]
    /\ pugCaptains' = [pugCaptains EXCEPT ![i] = @ \ {x}]
    /\ pugEntries' = [pugEntries EXCEPT ![i] = @ \ {x}]

\* set_player_team: the capacity is tested in the statement; the bench has room.
Moved(roster, x, t) ==
    IF x \in DOMAIN roster
       /\ (t = 0 \/ Cardinality({y \in DOMAIN roster \ {x} : roster[y] = t}) < PugTeamSize)
    THEN [roster EXCEPT ![x] = t] ELSE roster

set_player_team(i, x, t) == pugRoster' = [pugRoster EXCEPT ![i] = Moved(@, x, t)]

\* assign_teams writes the deal to whoever is still there.
assign_teams(i, deal) ==
    pugRoster' = [pugRoster EXCEPT ![i] = [x \in DOMAIN @ |-> IF x \in DOMAIN deal THEN deal[x] ELSE @[x]]]

SwappedTeams(i) ==
    pugRoster' = [pugRoster EXCEPT ![i] = [x \in DOMAIN @ |-> IF @[x] = 0 THEN 0 ELSE 3 - @[x]]]

-----------------------------------------------------------------------------
(* The lobby                                                                *)

CreatePug(p) ==
    /\ count_active_created_by < MAX_ACTIVE_CREATED
    /\ Request(p, [pc |-> "pug create", then |-> 0])
    /\ UNCHANGED pugTables

\* create: the row and the creator's seat, in one transaction.
InsertPug(p) ==
    /\ At(p, "pug create")
    /\ \E i \in PugIds :
          /\ pugs[i] = NoPug /\ \A j \in 1 .. i - 1 : pugs[j] # NoPug
          /\ pugs' = [pugs EXCEPT ![i] = Gathering]
          /\ pugRoster' = [pugRoster EXCEPT ![i] = [x \in {PugCreator} |-> 1]]
          /\ pugCaptains' = [pugCaptains EXCEPT ![i] = {PugCreator}]
          /\ IF req[p].then = 0 THEN Finish(p)
             ELSE Continue(p, [pc |-> "pug copy", pug |-> i, from |-> req[p].then, players |-> req[p].players,
                               left |-> DOMAIN req[p].players \ {PugCreator}])
    /\ UNCHANGED <<pugEntries, pugMatch>>

JoinByCode(p) ==
    /\ \E i \in PugIds, x \in PugPlayers :
          /\ is_open(i) /\ x \notin DOMAIN pugRoster[i]
          /\ Request(p, [pc |-> "pug join", pug |-> i, player |-> x])
    /\ UNCHANGED pugTables

AddPlayer(p) ==
    /\ At(p, "pug join")
    /\ add_player(req[p].pug, req[p].player)
    /\ Finish(p)
    /\ UNCHANGED <<pugs, pugCaptains, pugEntries, pugMatch>>

\* leave by oneself, or kick by the creator: never the creator.
LeavePug(p) ==
    /\ \E i \in PugIds, x \in PugPlayers \ {PugCreator} :
          /\ is_open(i)
          /\ x \in DOMAIN pugRoster[i]
          /\ Request(p, [pc |-> "pug leave", pug |-> i, player |-> x])
    /\ UNCHANGED pugTables

RemovePlayer(p) ==
    /\ At(p, "pug leave")
    /\ remove_player(req[p].pug, req[p].player)
    /\ Finish(p)
    /\ UNCHANGED <<pugs, pugMatch>>

SetTeam(p) ==
    /\ \E i \in PugIds, x \in PugPlayers, t \in 0 .. 2 :
          /\ is_open(i)
          /\ x \in DOMAIN pugRoster[i]
          /\ Request(p, [pc |-> "pug move", pug |-> i, player |-> x, team |-> t])
    /\ UNCHANGED pugTables

\* picking_team: the shorter team, team 1 on a tie, nobody when both are full.
picking_team(i) ==
    LET n1 == Cardinality(Team(i, 1))
        n2 == Cardinality(Team(i, 2))
    IN  IF n1 >= PugTeamSize /\ n2 >= PugTeamSize THEN 0
        ELSE IF n1 <= n2 /\ n1 < PugTeamSize THEN 1 ELSE 2

\* draft_pick by the captain whose turn it is, or by the creator.
DraftPick(p) ==
    /\ \E i \in PugIds, x \in PugPlayers, actor \in PugPlayers :
          /\ is_open(i)
          /\ x \in Team(i, 0) /\ picking_team(i) # 0
          /\ actor = PugCreator \/ actor \in pugCaptains[i] \cap Team(i, picking_team(i))
          /\ Request(p, [pc |-> "pug move", pug |-> i, player |-> x, team |-> picking_team(i)])
    /\ UNCHANGED pugTables

MovePlayer(p) ==
    /\ At(p, "pug move")
    /\ set_player_team(req[p].pug, req[p].player, req[p].team)
    /\ Finish(p)
    /\ UNCHANGED <<pugs, pugCaptains, pugEntries, pugMatch>>

\* shuffle deals the players it read alternately; the rest sits on the bench.
Deals(players) ==
    {d \in [players -> 0 .. 2] :
        \E order \in Bijection(1 .. Cardinality(players), players) :
           \A n \in DOMAIN order :
              d[order[n]] = IF (n - 1) \div 2 < PugTeamSize THEN ((n - 1) % 2) + 1 ELSE 0}

ShuffleTeams(p) ==
    /\ \E i \in PugIds :
          /\ is_open(i)
          /\ \E d \in Deals(DOMAIN pugRoster[i]) : Request(p, [pc |-> "pug deal", pug |-> i, deal |-> d])
    /\ UNCHANGED pugTables

AssignTeams(p) ==
    /\ At(p, "pug deal")
    /\ assign_teams(req[p].pug, req[p].deal)
    /\ Finish(p)
    /\ UNCHANGED <<pugs, pugCaptains, pugEntries, pugMatch>>

SwapTeams(p) ==
    /\ \E i \in PugIds : is_open(i) /\ Request(p, [pc |-> "pug swap", pug |-> i])
    /\ UNCHANGED pugTables

SwapWrite(p) ==
    /\ At(p, "pug swap")
    /\ SwappedTeams(req[p].pug)
    /\ Finish(p)
    /\ UNCHANGED <<pugs, pugCaptains, pugEntries, pugMatch>>

SetCaptain(p) ==
    /\ \E i \in PugIds, x \in PugPlayers :
          is_open(i) /\ Request(p, [pc |-> "pug captain", pug |-> i, player |-> x])
    /\ UNCHANGED pugTables

\* set_player_captain, on or off; an update of a row that is not there is none.
SetPlayerCaptain(p) ==
    /\ At(p, "pug captain")
    /\ LET i == req[p].pug IN
       \E others \in {pugCaptains[i] \ {req[p].player},
                      pugCaptains[i] \cup ({req[p].player} \cap DOMAIN pugRoster[i])} :
          pugCaptains' = [pugCaptains EXCEPT ![i] = others]
    /\ Finish(p)
    /\ UNCHANGED <<pugs, pugRoster, pugEntries, pugMatch>>

NominateMap(p) ==
    /\ \E i \in PugIds, x \in PugPlayers :
          /\ is_open(i) /\ x \in DOMAIN pugRoster[i]
          /\ Request(p, [pc |-> "pug nominate", pug |-> i, player |-> x])
    /\ UNCHANGED pugTables

UpsertWheelEntry(p) ==
    /\ At(p, "pug nominate")
    /\ pugEntries' = [pugEntries EXCEPT ![req[p].pug] = @ \cup {req[p].player}]
    /\ Finish(p)
    /\ UNCHANGED <<pugs, pugRoster, pugCaptains, pugMatch>>

-----------------------------------------------------------------------------
(* lock_pug                                                                 *)

\* What prepare_lock asks of the roster, apart from Steam links.
prepare_lock(i, actor, force) ==
    /\ actor = PugCreator \/ actor \in pugCaptains[i]
    /\ Team(i, 1) # {} /\ Team(i, 2) # {}
    /\ force \/ (Cardinality(Team(i, 1)) = PugTeamSize /\ Cardinality(Team(i, 2)) = PugTeamSize)

LockPug(p) ==
    /\ \E i \in PugIds, actor \in PugPlayers, force \in BOOLEAN :
          /\ is_open(i)
          /\ prepare_lock(i, actor, force)
          /\ Request(p, [pc |-> "pug lock", pug |-> i, actor |-> actor, force |-> force])
    /\ UNCHANGED pugTables

\* Mutant: the lobby is locked without comparing its status.
LockBlindly(p) ==
    /\ At(p, "pug lock")
    /\ SetPugStatus(req[p].pug, "map_selection")
    /\ Continue(p, [req[p] EXCEPT !.pc = "pug freeze"])
    /\ UNCHANGED <<pugRoster, pugCaptains, pugEntries, pugMatch>>

\* Exactly one caller wins gathering -> map_selection.
LockCas(p) ==
    /\ At(p, "pug lock")
    /\ TransitionPug(req[p].pug, "gathering", "map_selection")
    /\ IF is_open(req[p].pug) THEN Continue(p, [req[p] EXCEPT !.pc = "pug freeze"]) ELSE Finish(p)
    /\ UNCHANGED <<pugRoster, pugCaptains, pugEntries, pugMatch>>

\* Anything that fails from here on rolls the lock back.
FailLock(p) == Continue(p, [pc |-> "pug rollback", pug |-> req[p].pug])

\* The roster is read again; a player without a Steam account, or too few maps,
\* fails the lock.
FreezeRoster(p) ==
    /\ At(p, "pug freeze")
    /\ LET i == req[p].pug IN
       \/ /\ pugs[i].status = "map_selection" /\ ~pugs[i].attached
          /\ prepare_lock(i, req[p].actor, req[p].force)
          /\ Continue(p, [pc |-> "pug container", pug |-> i, teams |-> <<Team(i, 1), Team(i, 2)>>])
       \/ FailLock(p)
    /\ UNCHANGED pugTables

\* materialize, not in a transaction: the tournament, whose slug is the lobby's
\* and unique, ...
CreateContainer(p) ==
    /\ At(p, "pug container")
    /\ IF pugMatch[req[p].pug].match = "none"
       THEN /\ pugMatch' = [pugMatch EXCEPT ![req[p].pug].match = "tournament"]
            /\ Continue(p, [req[p] EXCEPT !.pc = "pug match"])
       ELSE FailLock(p) /\ UNCHANGED pugMatch
    /\ UNCHANGED <<pugs, pugRoster, pugCaptains, pugEntries>>

\* ... the stage, bracket, teams, registrations, map pool and match, ...
CreateMatch(p) ==
    /\ At(p, "pug match")
    /\ \/ /\ pugMatch' = [pugMatch EXCEPT ![req[p].pug].match = "scheduled",
                                          ![req[p].pug].teams = req[p].teams]
          /\ Continue(p, [pc |-> "pug veto", pug |-> req[p].pug])
       \/ FailLock(p) /\ UNCHANGED pugMatch
    /\ UNCHANGED <<pugs, pugRoster, pugCaptains, pugEntries>>

\* ... the veto session, started, ...
StartPugVeto(p) ==
    /\ At(p, "pug veto")
    /\ \/ /\ pugMatch' = [pugMatch EXCEPT ![req[p].pug].veto = "active"]
          /\ Continue(p, [req[p] EXCEPT !.pc = "pug pick_ban"])
       \/ FailLock(p) /\ UNCHANGED pugMatch
    /\ UNCHANGED <<pugs, pugRoster, pugCaptains, pugEntries>>

\* ... and the match into pick_ban.
MatchToPickBan(p) ==
    /\ At(p, "pug pick_ban")
    /\ \/ /\ pugMatch' = [pugMatch EXCEPT ![req[p].pug].match = "pick_ban"]
          /\ Continue(p, [req[p] EXCEPT !.pc = "pug attach"])
       \/ FailLock(p) /\ UNCHANGED pugMatch
    /\ UNCHANGED <<pugs, pugRoster, pugCaptains, pugEntries>>

\* set_materialized; whoever loses tears the match down again.
SetMaterialized(p) ==
    /\ At(p, "pug attach")
    /\ LET i == req[p].pug IN
       IF pugs[i].status = "map_selection" /\ ~pugs[i].attached
       THEN pugs' = [pugs EXCEPT ![i].attached = TRUE] /\ Finish(p)
       ELSE Continue(p, [pc |-> "pug cancel veto", pug |-> i, then |-> "orphan"]) /\ UNCHANGED pugs
    /\ UNCHANGED <<pugRoster, pugCaptains, pugEntries, pugMatch>>

RollbackLock(p) ==
    /\ At(p, "pug rollback")
    /\ TransitionPug(req[p].pug, "map_selection", "gathering")
    /\ Finish(p)
    /\ UNCHANGED <<pugRoster, pugCaptains, pugEntries, pugMatch>>

-----------------------------------------------------------------------------
(* cancel_pug, and the teardown it shares with the sweeper                  *)

\* cancel_materialized_side does nothing for a lobby without a match.
Teardown(i, then) ==
    IF pugs[i].attached THEN [pc |-> "pug cancel veto", pug |-> i, then |-> then]
    ELSE [pc |-> "pug cancelled", pug |-> i, then |-> then]

CancelPug(p) ==
    /\ \E i \in PugIds :
          /\ pugs[i] # NoPug /\ ~PugOver(pugs[i].status)
          /\ Request(p, Teardown(i, "cancelled"))
    /\ UNCHANGED pugTables

CancelVeto(p) ==
    /\ At(p, "pug cancel veto")
    /\ pugMatch' = IF pugMatch[req[p].pug].veto = "active"
                   THEN [pugMatch EXCEPT ![req[p].pug].veto = "cancelled"] ELSE pugMatch
    /\ IF req[p].then = "swept" THEN Finish(p)
       ELSE Continue(p, [req[p] EXCEPT !.pc = IF req[p].then = "orphan" THEN "pug cancel match"
                                              ELSE "pug cancel server"])
    /\ UNCHANGED <<pugs, pugRoster, pugCaptains, pugEntries>>

CancelServer(p) ==
    /\ At(p, "pug cancel server")
    /\ pugMatch' = [pugMatch EXCEPT ![req[p].pug].server = FALSE]
    /\ Continue(p, [req[p] EXCEPT !.pc = "pug cancel match"])
    /\ UNCHANGED <<pugs, pugRoster, pugCaptains, pugEntries>>

\* The transition is refused when the match is over.
CancelMatch(p) ==
    /\ At(p, "pug cancel match")
    /\ pugMatch' = IF MatchOver(req[p].pug) THEN pugMatch
                   ELSE [pugMatch EXCEPT ![req[p].pug].match = "cancelled"]
    /\ IF req[p].then = "orphan" THEN Finish(p)
       ELSE Continue(p, [req[p] EXCEPT !.pc = "pug cancelled"])
    /\ UNCHANGED <<pugs, pugRoster, pugCaptains, pugEntries>>

SetCancelled(p) ==
    /\ At(p, "pug cancelled")
    /\ SetPugStatus(req[p].pug, "cancelled")
    /\ IF req[p].then = "swept" THEN Continue(p, [req[p] EXCEPT !.pc = "pug cancel veto"])
       ELSE Finish(p)
    /\ UNCHANGED <<pugRoster, pugCaptains, pugEntries, pugMatch>>

-----------------------------------------------------------------------------
(* The match of the lobby (modelled in full elsewhere), and the hooks       *)

\* A request of a player or a server that is not aimed at the lobby.
Elsewhere(p, r) == p \in Serving /\ MayStart(p) /\ Continue(p, r)

VetoFinishes(p) ==
    /\ \E i \in PugIds :
          /\ pugMatch[i].veto = "active" /\ pugMatch[i].match = "pick_ban"
          /\ pugMatch' = [pugMatch EXCEPT ![i].veto = "completed"]
          /\ Elsewhere(p, [pc |-> "pug veto hook", pug |-> i])
    /\ UNCHANGED <<pugs, pugRoster, pugCaptains, pugEntries>>

\* on_veto_completed: the lobby is found by its match; a server is asked for
\* in any case.
OnVetoCompleted(p) ==
    /\ At(p, "pug veto hook")
    /\ LET i == req[p].pug IN
       /\ IF pugs[i].attached THEN TransitionPug(i, "map_selection", "awaiting_server")
          ELSE UNCHANGED pugs
       /\ pugMatch' = [pugMatch EXCEPT ![i].server = ~MatchOver(i)]
    /\ Finish(p)
    /\ UNCHANGED <<pugRoster, pugCaptains, pugEntries>>

MatchGoesLive(p) ==
    /\ \E i \in PugIds :
          /\ pugMatch[i].server /\ pugMatch[i].match = "pick_ban"
          /\ pugMatch' = [pugMatch EXCEPT ![i].match = "live"]
          /\ Elsewhere(p, [pc |-> "pug live hook", pug |-> i])
    /\ UNCHANGED <<pugs, pugRoster, pugCaptains, pugEntries>>

\* on_match_live reads the lobby ...
OnMatchLive(p) ==
    /\ At(p, "pug live hook")
    /\ IF pugs[req[p].pug].attached /\ ~PugOver(pugs[req[p].pug].status)
       THEN Continue(p, [req[p] EXCEPT !.pc = "pug live"]) ELSE Finish(p)
    /\ UNCHANGED pugTables

\* ... and writes.
SetLive(p) ==
    /\ At(p, "pug live")
    /\ SetPugStatus(req[p].pug, "live")
    /\ Finish(p)
    /\ UNCHANGED <<pugRoster, pugCaptains, pugEntries, pugMatch>>

SeriesEnds(p) ==
    /\ \E i \in PugIds, winner \in {1, 2} :
          /\ pugMatch[i].match = "live"
          /\ pugMatch' = [pugMatch EXCEPT ![i].match = "completed", ![i].server = FALSE,
                                          ![i].winner = winner]
          /\ Elsewhere(p, [pc |-> "pug end hook", pug |-> i, winner |-> winner, then |-> "done"])
    /\ UNCHANGED <<pugs, pugRoster, pugCaptains, pugEntries>>

\* on_series_end, and the result of a reconciliation, which also ends the veto.
OnSeriesEnd(p) ==
    /\ At(p, "pug end hook")
    /\ IF pugs[req[p].pug].attached THEN SetResult(req[p].pug, req[p].winner) ELSE UNCHANGED pugs
    /\ IF req[p].then = "swept"
       THEN Continue(p, [pc |-> "pug cancel veto", pug |-> req[p].pug, then |-> "swept"])
       ELSE Finish(p)
    /\ UNCHANGED <<pugRoster, pugCaptains, pugEntries, pugMatch>>

\* A forfeit, an override or an admin ends the match behind the lobby's back.
MatchEndsElsewhere(i) ==
    /\ pugMatch[i].match \in {"pick_ban", "live"}
    /\ scenario.serial => Quiescent
    /\ \E status \in {"completed", "cancelled"}, winner \in 0 .. 2 :
          /\ status = "cancelled" => winner = 0
          /\ pugMatch' = [pugMatch EXCEPT ![i].match = status, ![i].winner = winner]
    /\ UNCHANGED <<requestVars, pugs, pugRoster, pugCaptains, pugEntries>>

-----------------------------------------------------------------------------
(* sweep_pugs                                                               *)

\* Hours pass for a lobby only while nobody works on it.
Untouched(i) == \A q \in Tasks : "pug" \in DOMAIN req[q] => req[q].pug # i

ExpireGathering(p, i) ==
    /\ is_open(i)
    /\ Wake(p, [pc |-> "pug expire", pug |-> i])
    /\ UNCHANGED pugTables

SetExpired(p) ==
    /\ At(p, "pug expire")
    /\ TransitionPug(req[p].pug, "gathering", "expired")
    /\ Finish(p)
    /\ UNCHANGED <<pugRoster, pugCaptains, pugEntries, pugMatch>>

\* list_desynced_with_match
desynced(i) ==
    /\ pugs[i].attached /\ pugs[i].status \in {"map_selection", "awaiting_server", "live"}
    /\ MatchOver(i)

ReconcileWithMatch(p, i) ==
    /\ desynced(i)
    /\ Wake(p, IF pugMatch[i].match = "cancelled" THEN Teardown(i, "cancelled")
               ELSE IF pugMatch[i].winner = 0 THEN [pc |-> "pug cancelled", pug |-> i, then |-> "swept"]
               ELSE [pc |-> "pug end hook", pug |-> i, winner |-> pugMatch[i].winner, then |-> "swept"])
    /\ UNCHANGED pugTables

\* list_stalled_materialized, with or without a match.
CancelStalled(p, i) ==
    /\ pugs[i].status \in {"map_selection", "awaiting_server"}
    /\ Untouched(i)
    /\ Wake(p, Teardown(i, "cancelled"))
    /\ UNCHANGED pugTables

-----------------------------------------------------------------------------
(* rematch_pug                                                              *)

RematchPug(p) ==
    /\ \E i \in PugIds :
          /\ PugOver(pugs[i].status)
          /\ count_active_created_by < MAX_ACTIVE_CREATED
          /\ Request(p, [pc |-> "pug create", then |-> i, players |-> pugRoster[i]])
    /\ UNCHANGED pugTables

\* One player after the other: in, onto the old team, captain again.
CopyPlayer(p) ==
    /\ At(p, "pug copy")
    /\ LET i == req[p].pug
           old == req[p].players
       IN  IF req[p].left = {}
           THEN /\ Continue(p, [req[p] EXCEPT !.pc = "pug copy creator"])
                /\ UNCHANGED <<pugRoster, pugCaptains>>
           ELSE \E x \in req[p].left :
                   /\ pugRoster' = [pugRoster EXCEPT ![i] = Moved(Seated(@, x), x, old[x])]
                   /\ pugCaptains' = [pugCaptains EXCEPT ![i] = @ \cup ({x} \cap pugCaptains[req[p].from])]
                   /\ Continue(p, [req[p] EXCEPT !.left = @ \ {x}])
    /\ UNCHANGED <<pugs, pugEntries, pugMatch>>

\* The creator, seated on team 1 so far, goes back to the old side last.
CopyCreator(p) ==
    /\ At(p, "pug copy creator")
    /\ set_player_team(req[p].pug, PugCreator, req[p].players[PugCreator])
    /\ Continue(p, [pc |-> "pug rematched", pug |-> req[p].pug, players |-> req[p].players])
    /\ UNCHANGED <<pugs, pugCaptains, pugEntries, pugMatch>>

RematchCreated(p) == At(p, "pug rematched") /\ Finish(p) /\ UNCHANGED pugTables

-----------------------------------------------------------------------------
PugRequest(p) ==
    \/ CreatePug(p) \/ JoinByCode(p) \/ LeavePug(p) \/ SetTeam(p) \/ DraftPick(p)
    \/ ShuffleTeams(p) \/ SwapTeams(p) \/ SetCaptain(p) \/ NominateMap(p)
    \/ LockPug(p) \/ CancelPug(p) \/ RematchPug(p)

PugStep(p) ==
    \/ InsertPug(p) \/ AddPlayer(p) \/ RemovePlayer(p) \/ MovePlayer(p) \/ AssignTeams(p)
    \/ SwapWrite(p) \/ SetPlayerCaptain(p) \/ UpsertWheelEntry(p)
    \/ LockCas(p) \/ FreezeRoster(p) \/ CreateContainer(p) \/ CreateMatch(p)
    \/ StartPugVeto(p) \/ MatchToPickBan(p) \/ SetMaterialized(p) \/ RollbackLock(p)
    \/ CancelVeto(p) \/ CancelServer(p) \/ CancelMatch(p) \/ SetCancelled(p)
    \/ OnVetoCompleted(p) \/ OnMatchLive(p) \/ SetLive(p) \/ OnSeriesEnd(p)
    \/ SetExpired(p) \/ CopyPlayer(p) \/ CopyCreator(p) \/ RematchCreated(p)

PugMatchStep(p) == VetoFinishes(p) \/ MatchGoesLive(p) \/ SeriesEnds(p)

SweepPugs(p, i) == ExpireGathering(p, i) \/ ReconcileWithMatch(p, i) \/ CancelStalled(p, i)

PugDie(p) == Die(p) /\ UNCHANGED pugTables

PugNext ==
    \/ \E p \in Tasks : PugRequest(p) \/ PugMatchStep(p) \/ PugStep(p) \/ PugDie(p)
    \/ \E p \in Tasks, i \in PugIds : SweepPugs(p, i)
    \/ \E i \in PugIds : MatchEndsElsewhere(i)

pugVars == <<requestVars, pugTables>>

PugSpec == RequestsInit /\ PugInit /\ [][PugNext]_pugVars

\* A task goes on, the sweeper comes back for ever, and a match ends one day.
PugFairness ==
    /\ \A p \in Tasks : WF_pugVars(PugStep(p))
    /\ \A i \in PugIds : SF_pugVars(SweepPugs(Pass, i)) /\ SF_pugVars(MatchEndsElsewhere(i))

-----------------------------------------------------------------------------
(* Properties                                                               *)

\* The rows: a lobby, a seat in it, and the hidden container with its teams.
PugRow == [status : PugStatus \cup {"none"}, attached : BOOLEAN, winner : 0 .. 2]
AdhocTeam == SUBSET PugPlayers
PugContainer ==
    [match : {"none", "tournament", "scheduled", "pick_ban", "live", "completed", "cancelled"},
     veto : {"none", "active", "completed", "cancelled"}, server : BOOLEAN, winner : 0 .. 2,
     teams : AdhocTeam \X AdhocTeam]

\* The tables are well formed: statuses and teams are known ones, and captains
\* are in their lobby.
PugTypeOK ==
    \A i \in PugIds :
        /\ pugs[i] \in PugRow
        /\ pugRoster[i] \in PugRosters
        /\ pugCaptains[i] \subseteq DOMAIN pugRoster[i]
        /\ pugEntries[i] \subseteq PugPlayers
        /\ pugMatch[i] \in PugContainer
        /\ pugMatch[i].veto # "none" => pugMatch[i].match # "none"

\* A lobby with a match is never open again: no two callers lock it, and no
\* rollback of one lock undoes another.
LockedForGood ==
    \A i \in PugIds : pugs[i].attached => pugs[i].status # "gathering"

\* The match is played by two teams that have a player each and share none,
\* whatever was moved, dealt or swapped while the lobby was being locked.
TeamsAreSound ==
    \A i \in PugIds : pugMatch[i].match \notin {"none", "tournament"} =>
        /\ pugMatch[i].teams[1] # {} /\ pugMatch[i].teams[2] # {}
        /\ pugMatch[i].teams[1] \cap pugMatch[i].teams[2] = {}

\* A lobby that was called off leaves no match of its own behind, with its veto
\* timing out and its server kept, though tasks die half way through.  (A
\* cancellation that read the lobby before it was locked still does.)
CancelledPugIsTornDown ==
    \A i \in PugIds :
        scenario.serial /\ Quiescent /\ pugs[i].status = "cancelled" /\ pugs[i].attached
            => /\ MatchOver(i)
               /\ crashes = 0 => pugMatch[i].veto # "active"

\* Every lobby ends, however its match ended and whoever died on the way, so it
\* stops counting against its creator.
PugEnds ==
    \A i \in PugIds :
        (scenario.serial /\ pugs[i] # NoPug) ~> PugOver(pugs[i].status)

\* A lobby that is locked stays locked, plays with the teams it froze, and
\* leaves nothing behind when it is called off.
PugIsSound == PugTypeOK /\ LockedForGood /\ TeamsAreSound /\ CancelledPugIsTornDown

=============================================================================
