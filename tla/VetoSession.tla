----------------------------- MODULE VetoSession -----------------------------
(***************************************************************************)
(* The map veto of one match.  A session row holds a cursor (the number of *)
(* the next action, whose turn it is, the maps left and the maps chosen);  *)
(* the action rows, unique per number, are the record.  Every operation    *)
(* reads the session, inserts or finds the action row of the number it     *)
(* read, and writes the cursor back from what it read, so any two of them  *)
(* (two clicks, a click and the timeout, a spin and a spin) can overlap.   *)
(* Maps are numbered by their place in the pool.                           *)
(* Source: services/tournament/veto.rs, adapters/tournament/veto.rs,       *)
(* handlers/veto.rs, handlers/veto_ws.rs, background/mod.rs, pug_flow.rs   *)
(***************************************************************************)
EXTENDS Requests, Sequences, FiniteSets, FiniteSetsExt

CONSTANTS
    VetoSetups,     \* the [format, pool, mode] a session may be created with
    Sides           \* the values of side_selection

VARIABLES
    veto,           \* the row of veto_sessions, or NoSession
    vetoActions,    \* vetoActions[n]: the row of veto_actions with number n
    vetoMatch,      \* the status of the match, as far as the veto reads it
    vetoFlips,      \* coin flips written (history, capped at 2)
    vetoAssigned    \* the server assignment was triggered (history)

vetoTables == <<veto, vetoActions, vetoMatch, vetoFlips, vetoAssigned>>

None == "none"
NoSession == [status |-> None]

\* The two registrations of the match and the statuses of the session.
Registrations == {"p1", "p2"}
OtherSide(r) == IF r = "p1" THEN "p2" ELSE "p1"
VetoStatus == {"pending", "coin_flip", "in_progress", "completed", "cancelled"}
VetoActionType == {"ban", "pick", "decider", "random"}
SideSelectionMode == {"picker_choice", "coin_flip", "knife"}

-----------------------------------------------------------------------------
(* Formats: sequences of [team, type]; team 0 belongs to nobody.           *)

Step(team, type) == [team |-> team, type |-> type]
Alternating(types) == [i \in 1 .. Len(types) |-> Step(IF i % 2 = 1 THEN 1 ELSE 2, types[i])]
Decider == <<Step(0, "decider")>>

bo1 == Alternating(<<"ban", "ban", "ban", "ban", "ban", "ban">>) \o Decider
bo3 == Alternating(<<"ban", "ban", "pick", "pick", "ban", "ban">>) \o Decider
bo5 == Alternating(<<"ban", "ban", "pick", "pick", "pick", "pick">>) \o Decider
bo7 == Alternating(<<"pick", "pick", "pick", "pick", "pick", "pick">>) \o Decider
wheel(map_count) == [i \in 1 .. map_count |-> Step(0, "random")]

has_team_actions(format) == \E i \in DOMAIN format : format[i].team # 0
is_complete_at(format, number) == number > Len(format)
maps_selected(format) == Cardinality({i \in DOMAIN format : format[i].type # "ban"})

MaxActions == 7

\* The built-in formats play as many maps as their name says, and a format
\* never needs more maps than its smallest pool has; whoever wins the coin
\* flip acts first.
ASSUME VetoAssumption ==
    /\ maps_selected(bo1) = 1 /\ maps_selected(bo3) = 3
    /\ maps_selected(bo5) = 5 /\ maps_selected(bo7) = 7
    /\ \A f \in {bo1, bo3, bo5, bo7} : Len(f) = 7
    /\ \A n \in {1, 3, 5} : maps_selected(wheel(n)) = n /\ ~has_team_actions(wheel(n))
    /\ \A s \in VetoSetups :
           /\ s.format \in Seq([team : 0 .. 2, type : VetoActionType])
           /\ Len(s.format) <= Cardinality(s.pool) /\ Len(s.format) <= MaxActions
           /\ s.format = <<>> \/ s.format[1].team # 2
           /\ s.pool \subseteq Nat /\ s.mode \in SideSelectionMode

ActionNumbers == 1 .. MaxActions
NoAction == [type |-> None]

-----------------------------------------------------------------------------
(* The two tables                                                           *)

\* UPDATE veto_sessions SET the given columns WHERE id = ...: nothing else is
\* tested, whatever the row holds by now.
UpdateVetoSession(columns) ==
    veto' = [c \in DOMAIN veto |-> IF c \in DOMAIN columns THEN columns[c] ELSE veto[c]]

\* A new session: nothing is decided.
CreatedSession(setup) ==
    [status |-> "pending", format |-> setup.format, mode |-> setup.mode,
     pool |-> setup.pool, remaining |-> setup.pool, selected |-> <<>>,
     number |-> 0, turn |-> None, first |-> None, winner |-> None,
     deadline |-> None]

\* INSERT; a second session of the match violates the unique index.
CreateVetoSession(setup) ==
    veto' = CreatedSession(setup)

\* Mutant: INSERT ... ON CONFLICT DO UPDATE: the last one wins.
LastAction(number, row) == row

\* INSERT ... ON CONFLICT DO NOTHING, then SELECT: the row that is there wins.
CreateVetoAction(number, row) ==
    IF vetoActions[number] = NoAction THEN row ELSE vetoActions[number]

UpdateSideSelection(number, side) ==
    vetoActions' = [vetoActions EXCEPT ![number].side = side]

\* find_timed_out: the deadline is a clock that runs out by itself.
find_timed_out == veto.status = "in_progress" /\ veto.deadline = "passed"
is_timed_out(s) == s.deadline = "passed"

\* The statuses of the match that matter here.
MatchTerminal == vetoMatch \in {"cancelled", "completed"}

-----------------------------------------------------------------------------
\* A serial scenario begins with the check-in window, the others with a
\* session that waits for its coin or its first spin.
StartedSession(setup) ==
    IF has_team_actions(setup.format)
    THEN [CreatedSession(setup) EXCEPT !.status = "coin_flip"]
    ELSE [CreatedSession(setup) EXCEPT !.status = "in_progress", !.number = 1]

VetoInit ==
    /\ IF scenario.of = "veto" /\ ~scenario.serial
       THEN /\ \E setup \in scenario.setups : veto = StartedSession(setup)
            /\ vetoMatch = "pick_ban"
       ELSE veto = NoSession /\ vetoMatch = "checking_in"
    /\ vetoActions = [n \in ActionNumbers |-> NoAction]
    /\ vetoFlips = 0
    /\ vetoAssigned = FALSE

(* Creating the session: the participant's or admin's request, the pass    *)
(* when it opens the check-in window, and the hook of the pick/ban         *)
(* transition, which also starts the session.                              *)

\* create_session: participants and pool are fine, and no session exists.
CreateSession(p, label) ==
    \E setup \in scenario.setups :
        Begin(p, [pc |-> "veto create", setup |-> setup, then |-> label])

CreateVetoSessionRequest(p) ==
    /\ veto = NoSession
    /\ p \in Users
    /\ CreateSession(p, "done")
    /\ UNCHANGED vetoTables

EnsureVetoSession(p) ==
    /\ veto = NoSession
    /\ p = Pass
    /\ vetoMatch = "checking_in"
    /\ CreateSession(p, "done")
    /\ UNCHANGED vetoTables

\* Both sides are in, or an admin forces the status: the match enters
\* pick_ban, and the same request then runs auto_create_veto_session.
AutoCreateVetoSession(p) ==
    /\ p \in Users
    /\ vetoMatch = "checking_in"
    /\ vetoMatch' = "pick_ban"
    /\ \/ /\ veto = NoSession
          /\ CreateSession(p, "start")
       \/ /\ veto # NoSession
          /\ veto.status = "pending"
          /\ Begin(p, [pc |-> "veto start"])
       \/ /\ veto # NoSession
          /\ veto.status # "pending"
          /\ p \in Users /\ UNCHANGED requestVars
    /\ UNCHANGED <<veto, vetoActions, vetoFlips, vetoAssigned>>

\* INSERT the row, or fail on the unique index and end the request.
SessionInsert(p) ==
    /\ At(p, "veto create")
    /\ IF veto = NoSession
       THEN /\ CreateVetoSession(req[p].setup)
            /\ IF req[p].then = "start" THEN Continue(p, [pc |-> "veto start"])
                                        ELSE Finish(p)
       ELSE Finish(p) /\ UNCHANGED veto
    /\ UNCHANGED <<vetoActions, vetoMatch, vetoFlips, vetoAssigned>>

(* Starting it                                                              *)

\* Mutant: the pass leaves a pending session to the check-in hook.
StartByUsersOnly(p) ==
    /\ veto # NoSession
    /\ p # Pass
    /\ Begin(p, [pc |-> "veto start"])
    /\ UNCHANGED vetoTables

\* POST /veto/start, and the pass for a pending session in pick_ban.
StartVetoSession(p) ==
    /\ veto # NoSession
    /\ p = Pass => veto.status = "pending" /\ vetoMatch = "pick_ban"
    /\ Begin(p, [pc |-> "veto start"])
    /\ UNCHANGED vetoTables

\* start_session reads: a session under way is left alone ...
StartSession(p) ==
    /\ At(p, "veto start")
    /\ IF veto.status = "pending"
       THEN Continue(p, [pc |-> "veto started", wheel |-> ~has_team_actions(veto.format)])
       ELSE Finish(p)
    /\ UNCHANGED vetoTables

\* ... and writes: a wheel has no coin to flip and no clock.
StartSessionUpdate(p) ==
    /\ At(p, "veto started")
    /\ UpdateVetoSession(
           IF req[p].wheel
           THEN [status |-> "in_progress", number |-> 1, turn |-> None, deadline |-> None]
           ELSE [status |-> "coin_flip"])
    /\ Finish(p)
    /\ UNCHANGED <<vetoActions, vetoMatch, vetoFlips, vetoAssigned>>

(* The coin flip                                                            *)

\* record_coin_flip reads: only in coin_flip, and only while nobody won.
MayFlip == veto # NoSession /\ veto.status = "coin_flip" /\ veto.winner = None

FlipCoin(p, winner, goes_first) ==
    /\ MayFlip
    /\ Begin(p, [pc |-> "veto flip", winner |-> winner,
                 first |-> IF goes_first THEN winner ELSE OtherSide(winner)])
    /\ UNCHANGED vetoTables

\* POST /veto/coin-flip: the caller names the winner.
RecordCoinFlip(p) ==
    \E winner \in Registrations, goes_first \in BOOLEAN :
        p \in Users /\ FlipCoin(p, winner, goes_first)

\* Nobody flips it for longer than the grace, or both sides are connected to
\* the lobby: the winner is random and goes first.
AutoCoinFlip(p) ==
    /\ p = Pass => ~MatchTerminal
    /\ \E winner \in Registrations : FlipCoin(p, winner, TRUE)

CoinFlipUpdate(p) ==
    /\ At(p, "veto flip")
    /\ UpdateVetoSession([winner |-> req[p].winner, first |-> req[p].first, number |-> 1,
                          turn |-> req[p].first, status |-> "in_progress",
                          deadline |-> "running"])
    /\ vetoFlips' = IF vetoFlips = 2 THEN 2 ELSE vetoFlips + 1
    /\ Finish(p)
    /\ UNCHANGED <<vetoActions, vetoMatch, vetoAssigned>>

-----------------------------------------------------------------------------
(* Acting: every path ends in record_action_internal with the session it   *)
(* read (snap), the map, and who acts.                                     *)

\* `via` is the path the action came on, `drawn` the map the wheel drew.
Recording(snap, map, by, via) ==
    [pc |-> "veto insert", snap |-> snap, map |-> map, by |-> by, via |-> via,
     drawn |-> IF via = "wheel" THEN map ELSE 0]

\* perform_action, from the REST handler or the lobby socket.
PerformAction(p) ==
    /\ veto # NoSession
    /\ veto.status = "in_progress"
    /\ veto.turn # None
    /\ ~is_complete_at(veto.format, veto.number)
    /\ \E map \in veto.remaining : Request(p, Recording(veto, map, veto.turn, "player"))
    /\ UNCHANGED vetoTables

\* The wheel: the caller read the session and drew a map for that slot ...
SpinWheel(p) ==
    /\ veto # NoSession
    /\ veto.status = "in_progress"
    /\ \E map \in veto.remaining :
           Request(p, [pc |-> "veto spin", map |-> map, expected |-> veto.number])
    /\ UNCHANGED vetoTables

\* ... and perform_wheel_action refuses the draw when the slot is taken.
PerformWheelAction(p) ==
    /\ At(p, "veto spin")
    /\ IF /\ veto.status = "in_progress"
          /\ veto.number = req[p].expected
          /\ req[p].map \in veto.remaining
          /\ ~is_complete_at(veto.format, veto.number)
          /\ veto.format[veto.number].type = "random"
       THEN Continue(p, Recording(veto, req[p].map, None, "wheel"))
       ELSE Finish(p)
    /\ UNCHANGED vetoTables

\* The pass finds the turn timed out: a dead match ends its session, a match
\* still checking in is left alone, anything else is acted on.
ProcessVetoTimeout(p) ==
    /\ veto # NoSession
    /\ find_timed_out
    /\ vetoMatch # "checking_in"
    /\ Wake(p, [pc |-> IF MatchTerminal THEN "veto cancel" ELSE "veto timeout"])
    /\ UNCHANGED vetoTables

\* process_timeout reads again; the status is not tested.
ProcessTimeout(p) ==
    /\ At(p, "veto timeout")
    /\ \/ /\ is_timed_out(veto)
          /\ ~is_complete_at(veto.format, veto.number)
          /\ \E map \in veto.remaining : Continue(p, Recording(veto, map, veto.turn, "timeout"))
       \/ /\ ~is_timed_out(veto) \/ is_complete_at(veto.format, veto.number)
             \/ veto.remaining = {}
          /\ Finish(p)
    /\ UNCHANGED vetoTables

\* The action row; in coin_flip mode a pick without a side then gets one.
ActionInsert(p) ==
    /\ At(p, "veto insert")
    /\ LET s    == req[p].snap
           type == s.format[s.number].type
           row  == CreateVetoAction(s.number, [type |-> type, map |-> req[p].map,
                                             by |-> req[p].by, side |-> None])
       IN  /\ vetoActions' = [vetoActions EXCEPT ![s.number] = row]
           /\ Continue(p, [req[p] EXCEPT
                  !.map = row.map,
                  !.pc = IF s.mode = "coin_flip" /\ type \in {"pick", "random"} /\ row.side = None
                         THEN "veto side" ELSE "veto advance"])
    /\ UNCHANGED <<veto, vetoMatch, vetoFlips, vetoAssigned>>

AssignSide(p) ==
    /\ At(p, "veto side")
    /\ \E side \in Sides : UpdateSideSelection(req[p].snap.number, side)
    /\ Continue(p, [req[p] EXCEPT !.pc = "veto advance"])
    /\ UNCHANGED <<veto, vetoMatch, vetoFlips, vetoAssigned>>

\* determine_next_team: a team-0 action parks the turn on the first team.
determine_next_team(s, number) ==
    IF s.format[number].team = 2 THEN OtherSide(s.first) ELSE s.first

\* The columns after the action on `map`, computed from what was read.
Advanced(s, map) ==
    LET next == s.number + 1
        type == s.format[s.number].type
        done == is_complete_at(s.format, next)
    IN  [number    |-> next,
         remaining |-> s.remaining \ {map},
         selected  |-> IF type # "ban" /\ \A i \in DOMAIN s.selected : s.selected[i] # map
                       THEN Append(s.selected, map) ELSE s.selected,
         status    |-> IF done THEN "completed" ELSE "in_progress",
         turn      |-> IF done THEN None ELSE determine_next_team(s, next),
         deadline  |-> IF done \/ s.format[next].type = "random" THEN None ELSE "running"]

\* The cursor; the caller of a completed veto triggers the server, a decider
\* that comes next is chained.
CursorUpdate(p) ==
    /\ At(p, "veto advance")
    /\ LET s    == req[p].snap
           next == s.number + 1
       IN  /\ UpdateVetoSession(Advanced(s, req[p].map))
           /\ IF is_complete_at(s.format, next)
              THEN Continue(p, [pc |-> "veto assign", via |-> req[p].via,
                                map |-> req[p].map, drawn |-> req[p].drawn])
              ELSE IF s.format[next].type = "decider"
              THEN Continue(p, [pc |-> "veto decider", via |-> req[p].via])
              ELSE IF req[p].via = "wheel"
              THEN Continue(p, [pc |-> "veto spun", map |-> req[p].map, drawn |-> req[p].drawn])
              ELSE Finish(p)
    /\ UNCHANGED <<vetoActions, vetoMatch, vetoFlips, vetoAssigned>>

\* chain_deciders reads the session again and takes its first map left.
ChainDeciders(p) ==
    /\ At(p, "veto decider")
    /\ IF is_complete_at(veto.format, veto.number) \/ veto.remaining = {}
       THEN Finish(p)
       ELSE Continue(p, Recording(veto, Min(veto.remaining), None, req[p].via))
    /\ UNCHANGED vetoTables

\* server_assignment_tx.send, by whichever path completed the veto.
TriggerAssignment(p) ==
    /\ At(p, "veto assign")
    /\ vetoAssigned' = TRUE
    /\ Finish(p)
    /\ UNCHANGED <<veto, vetoActions, vetoMatch, vetoFlips>>

\* The spin is recorded and every client's wheel is set in motion.
BroadcastSpin(p) ==
    /\ At(p, "veto spun")
    /\ Finish(p)
    /\ UNCHANGED vetoTables

-----------------------------------------------------------------------------
(* Sides, cancellation, the clock and the match                            *)

\* select_side reads the action: a pick without a side, in picker_choice
\* mode; the opponent of the picker speaks.
SelectSide(p) ==
    /\ veto # NoSession
    /\ veto.mode = "picker_choice"
    /\ \E n \in ActionNumbers, side \in Sides :
           /\ vetoActions[n].type = "pick"
           /\ vetoActions[n].by # None
           /\ vetoActions[n].side = None
           /\ Request(p, [pc |-> "veto choose", number |-> n, side |-> side])
    /\ UNCHANGED vetoTables

SideSelectionUpdate(p) ==
    /\ At(p, "veto choose")
    /\ UpdateSideSelection(req[p].number, req[p].side)
    /\ Finish(p)
    /\ UNCHANGED <<veto, vetoMatch, vetoFlips, vetoAssigned>>

\* cancel_session_for_match: a session that ended is left alone.
CancelSessionForMatch(p) ==
    /\ At(p, "veto cancel")
    /\ IF veto # NoSession /\ veto.status \notin {"completed", "cancelled"}
       THEN Continue(p, [pc |-> "veto cancelled"])
       ELSE Finish(p)
    /\ UNCHANGED vetoTables

CancelUpdate(p) ==
    /\ At(p, "veto cancelled")
    /\ UpdateVetoSession([status |-> "cancelled"])
    /\ Finish(p)
    /\ UNCHANGED <<vetoActions, vetoMatch, vetoFlips, vetoAssigned>>

\* The match is called off; only a pick-up game cancels the session with it.
MatchCalledOff(p) ==
    /\ ~MatchTerminal
    /\ vetoMatch' = "cancelled"
    /\ \/ Request(p, [pc |-> "veto cancel"])
       \/ Request(p, NoRequest)
    /\ UNCHANGED <<veto, vetoActions, vetoFlips, vetoAssigned>>

DeadlinePasses ==
    /\ veto # NoSession
    /\ veto.deadline = "running"
    /\ UpdateVetoSession([deadline |-> "passed"])
    /\ UNCHANGED <<requestVars, vetoActions, vetoMatch, vetoFlips, vetoAssigned>>

-----------------------------------------------------------------------------
\* What the pass starts by itself.
VetoWake(p) ==
    /\ scenario.of = "veto"
    /\ \/ EnsureVetoSession(p)
       \/ StartVetoSession(p)
       \/ AutoCoinFlip(p)
       \/ ProcessVetoTimeout(p)

\* What a user may ask for.
VetoRequest(p) ==
    \/ CreateVetoSessionRequest(p)
    \/ AutoCreateVetoSession(p)
    \/ RecordCoinFlip(p)
    \/ PerformAction(p)
    \/ SpinWheel(p)
    \/ SelectSide(p)
    \/ MatchCalledOff(p)

\* The next statement of a task that has begun.
VetoStep(p) ==
    \/ SessionInsert(p)
    \/ StartSession(p)
    \/ StartSessionUpdate(p)
    \/ CoinFlipUpdate(p)
    \/ PerformWheelAction(p)
    \/ ProcessTimeout(p)
    \/ ActionInsert(p)
    \/ AssignSide(p)
    \/ CursorUpdate(p)
    \/ ChainDeciders(p)
    \/ TriggerAssignment(p)
    \/ BroadcastSpin(p)
    \/ SideSelectionUpdate(p)
    \/ CancelSessionForMatch(p)
    \/ CancelUpdate(p)

VetoDie(p) == Die(p) /\ UNCHANGED vetoTables

VetoNext ==
    \/ \E p \in Tasks : VetoWake(p) \/ VetoRequest(p) \/ VetoStep(p) \/ VetoDie(p)
    \/ DeadlinePasses

vetoVars == <<requestVars, vetoTables>>

VetoSpec == RequestsInit /\ VetoInit /\ [][VetoNext]_vetoVars

\* A task that has begun goes on, the pass comes round, the clock runs.
VetoFairness ==
    /\ \A p \in Tasks : WF_vetoVars(VetoStep(p))
    /\ WF_vetoVars(VetoWake(Pass))
    /\ WF_vetoVars(DeadlinePasses)

-----------------------------------------------------------------------------
(* Properties                                                               *)

SessionType ==
    [status : VetoStatus, format : {s.format : s \in VetoSetups}, mode : SideSelectionMode,
     pool : {s.pool : s \in VetoSetups}, remaining : SUBSET UNION {s.pool : s \in VetoSetups},
     selected : Seq(UNION {s.pool : s \in VetoSetups}), number : 0 .. MaxActions + 1,
     turn : Registrations \cup {None}, first : Registrations \cup {None},
     winner : Registrations \cup {None}, deadline : {None, "running", "passed"}]

\* The session and its action rows are well formed: the cursor stays within
\* the format, whoever advances it, and a session under way has one (the
\* column starts at 0).
VetoTypeOK ==
    /\ veto = NoSession \/ veto \in SessionType
    /\ veto # NoSession => veto.number <= Len(veto.format) + 1
    /\ veto # NoSession /\ veto.status \in {"in_progress", "completed"} => veto.number >= 1
    /\ \A n \in ActionNumbers :
           vetoActions[n] = NoAction
           \/ vetoActions[n] \in [type : VetoActionType, map : UNION {s.pool : s \in VetoSetups},
                                  by : Registrations \cup {None}, side : Sides \cup {None}]

\* The maps of the first k actions, and those among them that are played.
MapsOf(k) == {vetoActions[n].map : n \in 1 .. k}
PlayedOf(k) == {vetoActions[n].map : n \in {i \in 1 .. k : vetoActions[i].type # "ban"}}

\* Whatever overlaps or dies, the session is some prefix of the action rows,
\* at least up to its cursor: the maps left are the pool without the maps of
\* that prefix, the maps chosen are its picks, and no map is used by two
\* actions (record_action_internal recomputes from the committed row, so a
\* stale cursor may go back but never forks).
MapsFollowActions ==
    veto # NoSession =>
        /\ \E k \in 0 .. Len(veto.format) :
               /\ veto.number <= k + 1
               /\ \A n \in 1 .. k : vetoActions[n] # NoAction
               /\ veto.remaining = veto.pool \ MapsOf(k)
               /\ {veto.selected[i] : i \in DOMAIN veto.selected} = PlayedOf(k)
        /\ \A m, n \in ActionNumbers :
               /\ m # n /\ vetoActions[m] # NoAction /\ vetoActions[n] # NoAction
               => vetoActions[m].map # vetoActions[n].map

\* A completed veto has exactly the maps its format plays, and the players'
\* socket, the REST handler or the pass, whichever completed it, asked for a
\* server unless it died.
CompletedVetoIsPlayable ==
    veto # NoSession /\ veto.status = "completed" /\ Quiescent =>
        /\ Len(veto.selected) = maps_selected(veto.format)
        /\ crashes = 0 => vetoAssigned

\* When the coin was flipped once, the two sides acted in the order of the
\* format: nobody, the timeout included, takes a turn of the other side.
TurnsFollowFormat ==
    veto # NoSession /\ vetoFlips = 1 =>
        \A n \in ActionNumbers :
            vetoActions[n] # NoAction /\ vetoActions[n].by # None /\ veto.format[n].team # 0 =>
                vetoActions[n].by = IF veto.format[n].team = 1 THEN veto.first ELSE OtherSide(veto.first)

\* With nobody at the keyboard, and one task dying anywhere, the pass starts
\* the session, flips the coin, times the turns out and chains the decider:
\* the veto of a match that is in pick_ban ends, and that of a dead match is
\* not played on.  (Wheels wait for a human.)
VetoEnds ==
    (scenario.serial /\ veto # NoSession /\ has_team_actions(veto.format) /\ vetoMatch # "checking_in"
        /\ (MatchTerminal => veto.status = "in_progress"))
    ~> (veto.status \in {"completed", "cancelled"}
        \/ (MatchTerminal /\ veto.status \in {"pending", "coin_flip"}))

\* A veto is fair whatever overlaps or dies: its maps are those its actions
\* left, its turns are those of the format, and what it ends with can be
\* played.
VetoIsFair == VetoTypeOK /\ MapsFollowActions /\ TurnsFollowFormat /\ CompletedVetoIsPlayable

=============================================================================
