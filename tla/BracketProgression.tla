------------------------- MODULE BracketProgression -------------------------
(***************************************************************************)
(* A bracket being played: results, the saga that moves winner and loser   *)
(* on, and the three admin endpoints that repair a bracket: process,       *)
(* revert and reapply.                                                     *)
(*                                                                         *)
(* A behaviour has one of four modes.  "draw" only creates the bracket.    *)
(* "play": results are confirmed, and a saga may die half-way and be       *)
(* driven again.  "manual": matches are also forfeited, which starts no    *)
(* saga, and an admin processes them.  "repair": results are overridden    *)
(* and an admin reverts and reapplies them.  Requests do not overlap here; *)
(* CompletionSaga has the overlapping sagas of two matches.                *)
(*                                                                         *)
(* The saga is CompletionSaga's, reduced to its steps that write matches;  *)
(* scores, names and logs are left out, and so is the loser column, which  *)
(* every statement here writes together with the winner column.            *)
(***************************************************************************)
EXTENDS BracketGenerator, MatchStatus

CONSTANTS
    Cases,       \* the brackets and modes to consider, each with a bound on the
                 \*   number of requests of an admin
    MaxCrashes   \* bound on the number of sagas that die half-way

Modes == {"draw", "play", "manual", "repair"}

ASSUME ProgressionAssumption ==
    /\ Cases \subseteq [shape : [format : {"single", "double"}, n : Nat \ {0, 1}],
                      mode : Modes, repairs : Nat]
    /\ MaxCrashes \in Nat

VARIABLES
    shape,     \* format and number of participants
    mode,
    seat,      \* seat[p][s]: participant1/2_registration_id, 0 is NULL
    status,    \* tournament_matches.status
    winner,    \* winner_registration_id, 0 is NULL
    saga,      \* the latest saga of each match: next step and winner
    admin,     \* the request of an admin in flight
    undone,    \* history: what an admin last did to the result of a match
    crashes,   \* number of dead sagas so far
    repairs,   \* number of requests an admin may still make
    misused    \* history: an admin has had a result processed that was none

vars == <<shape, mode, seat, status, winner, saga, admin, undone, crashes, repairs, misused>>

Slots == {1, 2}
Shapes == {c.shape : c \in Cases}

\* What the rows of a bracket say from its creation on: who fills each side,
\* where winner and loser go, and who is seated at the start.
Rows == [sh \in Shapes |-> [m \in Positions(sh) |->
            [source |-> [s \in Slots |-> Source(sh, m, s)],
             seated |-> [s \in Slots |-> Seated(sh, m, s)],
             winner |-> winner_progresses_to(sh, m),
             loser  |-> loser_progresses_to(sh, m)]]]

Matches == DOMAIN Rows[shape]
SourceOf(m, s) == Rows[shape][m].source[s]
Roles == {"winner", "loser"}

Other(m, x) == IF seat[m][1] = x THEN seat[m][2] ELSE seat[m][1]
Players(m) == {seat[m][1], seat[m][2]} \ {0}
HasBoth(m) == seat[m][1] # 0 /\ seat[m][2] # 0

LinkOf(sh, m, role) == IF role = "winner" THEN Rows[sh][m].winner ELSE Rows[sh][m].loser

\* The match that the winner or the loser of m goes to.
Target(m, role) == LinkOf(shape, m, role)

target_is_still_untouched(st) == st \in {"pending", "ready", "scheduled"}

\* The rows of one tournament_brackets row: the winners bracket, the losers
\* bracket and the grand final are three.
SameBracket(m) == {q \in Matches : q[1] = m[1]}

SagaSteps == {"none", "advance", "route", "read_winner", "write_winner",
              "read_loser", "write_loser", "done", "dead"}
AdminSteps == {"idle", "withdraw_winner", "pending_winner", "withdraw_loser",
               "pending_loser", "record", "advance", "route", "mark"}

\* The steps that are taken for the winner and again for the loser.
ReadStep(role) == IF role = "winner" THEN "read_winner" ELSE "read_loser"
WriteStep(role) == IF role = "winner" THEN "write_winner" ELSE "write_loser"
WithdrawStep(role) == IF role = "winner" THEN "withdraw_winner" ELSE "withdraw_loser"
PendingStep(role) == IF role = "winner" THEN "pending_winner" ELSE "pending_loser"

Running(m) == saga[m].step \notin {"none", "done", "dead"}
Quiet == admin.step = "idle" /\ \A m \in Matches : ~Running(m)
MayEnter == mode # "draw" /\ Quiet

NoSaga == [step |-> "none", win |-> 0]
NoAdmin == [op |-> "none", step |-> "idle", match |-> NoPos, win |-> 0, lose |-> 0]

Init ==
    /\ \E c \in Cases : shape = c.shape /\ mode = c.mode /\ repairs = c.repairs
    /\ seat = [m \in Matches |-> Rows[shape][m].seated]
    /\ status = [m \in Matches |-> IF HasBoth(m) THEN "ready" ELSE "pending"]
    /\ winner = [m \in Matches |-> 0]
    /\ saga = [m \in Matches |-> NoSaga]
    /\ admin = NoAdmin
    /\ undone = [m \in Matches |-> "no"]
    /\ crashes = 0 /\ misused = FALSE

-----------------------------------------------------------------------------
(* The match lifecycle and the result claims, seen from here *)

Schedule(m) ==
    /\ MayEnter /\ mode = "repair"
    /\ can_schedule(status[m])
    /\ status' = [status EXCEPT ![m] = "scheduled"]
    /\ UNCHANGED <<shape, mode, misused, seat, winner, saga, admin, undone, crashes, repairs>>

StartMatch(m) ==
    /\ MayEnter
    /\ can_start(status[m])
    /\ status' = [status EXCEPT ![m] = "in_progress"]
    /\ UNCHANGED <<shape, mode, misused, seat, winner, saga, admin, undone, crashes, repairs>>

\* The claim is confirmed and the saga starts.
ConfirmResult(m, w) ==
    /\ MayEnter
    /\ can_submit_result(status[m])
    /\ w \in Players(m)
    /\ status' = [status EXCEPT ![m] = "completed"]
    /\ winner' = [winner EXCEPT ![m] = w]
    /\ saga' = [saga EXCEPT ![m] = [step |-> "advance", win |-> w]]
    /\ undone' = [undone EXCEPT ![m] = "no"]
    /\ UNCHANGED <<shape, mode, misused, seat, admin, crashes, repairs>>

\* process_forfeit: the result is recorded and nothing moves it on.
Forfeit(m, w) ==
    /\ MayEnter /\ mode = "manual"
    /\ can_forfeit(status[m])
    /\ w \in Players(m)
    /\ status' = [status EXCEPT ![m] = "forfeit"]
    /\ winner' = [winner EXCEPT ![m] = w]
    /\ undone' = [undone EXCEPT ![m] = "no"]
    /\ UNCHANGED <<shape, mode, misused, seat, saga, admin, crashes, repairs>>

\* override_result: the score is corrected, the bracket is left as it is.
OverrideResult(m) ==
    /\ MayEnter /\ mode = "repair"
    /\ winner[m] # 0
    /\ repairs > 0 /\ repairs' = repairs - 1
    /\ winner' = [winner EXCEPT ![m] = Other(m, @)]
    /\ undone' = [undone EXCEPT ![m] = "overridden"]
    /\ UNCHANGED <<shape, mode, misused, seat, status, saga, admin, crashes>>

-----------------------------------------------------------------------------
(* The steps of the saga *)

\* determine_target_slot: the side that names m, whatever the role; without one
\* the first side if it is empty.
determine_target_slot(m, t) ==
    IF SourceOf(t, 1).pos = m THEN 1
    ELSE IF SourceOf(t, 2).pos = m THEN 2
    ELSE IF seat[t][1] = 0 THEN 1 ELSE 2

Step(m, from, to) ==
    /\ saga[m].step = from
    /\ saga' = [saga EXCEPT ![m].step = to]

Assign(m, role, x) ==
    LET t == Target(m, role)
    IN  seat' = IF t = NoPos THEN seat
                ELSE [seat EXCEPT ![t][determine_target_slot(m, t)] = x]

StepAdvanceWinner(m) ==
    /\ Step(m, "advance", "route")
    /\ Assign(m, "winner", saga[m].win)
    /\ UNCHANGED <<shape, mode, misused, status, winner, admin, undone, crashes, repairs>>

\* The loser is the input of the saga: the other participant.
StepRouteLoser(m) ==
    /\ Step(m, "route", "read_winner")
    /\ Assign(m, "loser", Other(m, saga[m].win))
    /\ UNCHANGED <<shape, mode, misused, status, winner, admin, undone, crashes, repairs>>

\* step_mark_ready_matches, for the winner's match and then the loser's: read
\* it, and write `ready` without looking again.
ReadTarget(m, role) ==
    LET t == Target(m, role)
        next == IF role = "winner" THEN "read_loser" ELSE "done"
    IN  /\ Step(m, ReadStep(role), IF t # NoPos /\ status[t] = "pending" /\ HasBoth(t)
                                    THEN WriteStep(role) ELSE next)
        /\ UNCHANGED <<shape, mode, misused, seat, status, winner, admin, undone, crashes, repairs>>

WriteTarget(m, role) ==
    /\ Step(m, WriteStep(role), IF role = "winner" THEN "read_loser" ELSE "done")
    /\ status' = [status EXCEPT ![Target(m, role)] = "ready"]
    /\ UNCHANGED <<shape, mode, misused, seat, winner, admin, undone, crashes, repairs>>

\* The process dies, and the background pass drives the saga again from the
\* start: a completed match is left alone.
CrashSaga(m) ==
    /\ mode = "play" /\ crashes < MaxCrashes
    /\ Running(m)
    /\ crashes' = crashes + 1
    /\ saga' = [saga EXCEPT ![m].step = "dead"]
    /\ UNCHANGED <<shape, mode, misused, seat, status, winner, admin, undone, repairs>>

\* Mutant: a saga that died is taken for one that has moved everybody.
RedriveFromReady(m) ==
    /\ MayEnter
    /\ Step(m, "dead", "read_winner")
    /\ UNCHANGED <<shape, mode, misused, seat, status, winner, admin, undone, crashes, repairs>>

Redrive(m) ==
    /\ MayEnter
    /\ Step(m, "dead", "advance")
    /\ UNCHANGED <<shape, mode, misused, seat, status, winner, admin, undone, crashes, repairs>>

-----------------------------------------------------------------------------
(* The endpoints of an admin.  A request runs alone, so a read and the write *)
(* that rests on it are one step.                                            *)

Enter(op, step, m, w, l) ==
    /\ MayEnter
    /\ repairs > 0 /\ repairs' = repairs - 1
    /\ admin' = [op |-> op, step |-> step, match |-> m, win |-> w, lose |-> l]
    /\ UNCHANGED <<shape, mode, seat, status, winner, saga, undone, crashes>>

Goto(step) == admin' = [admin EXCEPT !.step = step]

\* The result of a match: its two sides, and the winner it has recorded, if any.
IsResult(m, w, l) ==
    HasBoth(m) /\ w \in Players(m) /\ l = Other(m, w) /\ winner[m] \in {0, w}

\* process_progression: the winner and the loser are the request's; nothing
\* compares them with the match.
ProcessProgression(m, w, l) ==
    /\ mode = "manual"
    /\ Enter("process", "record", m, w, l)
    /\ misused' = (misused \/ ~IsResult(m, w, l))

RevertProgression(m) ==
    /\ mode = "repair"
    /\ Enter("revert", "withdraw_winner", m, 0, 0)
    /\ UNCHANGED misused

\* reapply_progression: the loser is the other side of the match, or the first
\* one if the winner is on neither; refused if that side is empty.
ReapplyProgression(m, w) ==
    /\ mode = "repair"
    /\ Other(m, w) # 0
    /\ Enter("reapply", "withdraw_winner", m, w, Other(m, w))
    /\ misused' = (misused \/ w \notin Players(m))

\* What fills_from says of the sides of t; 0 if no side is wired to m.
WiredSlot(m, t, role) ==
    IF SourceOf(t, 1) = [of |-> role, seed |-> 0, pos |-> m] THEN 1
    ELSE IF SourceOf(t, 2) = [of |-> role, seed |-> 0, pos |-> m] THEN 2
    ELSE 0

\* The side of t to empty: by wiring, else by whoever sits there.
ResolvedSlot(m, t, role) ==
    IF WiredSlot(m, t, role) # 0 THEN WiredSlot(m, t, role)
    ELSE IF seat[t][1] \in Players(m) THEN 1
    ELSE IF seat[t][2] \in Players(m) THEN 2
    ELSE 0

\* Mutant: only the status of the target is asked for, as before a result.
StatusOnly(t) == status[t] = "in_progress"

\* ensure_target_has_not_moved_on
MovedOn(t) ==
    LET deeper == Target(t, "winner")
    IN  \/ winner[t] # 0
        \/ ~target_is_still_untouched(status[t])
        \/ IF deeper = NoPos THEN FALSE ELSE Players(deeper) \cap Players(t) # {}

NothingToWithdraw(m, role) ==
    LET t == Target(m, role)
    IN  IF t = NoPos \/ Players(m) = {} THEN TRUE
        ELSE ResolvedSlot(m, t, role) = 0 \/ seat[t][ResolvedSlot(m, t, role)] = 0

Refused(m, role) ==
    LET t == Target(m, role)
    IN  /\ ~NothingToWithdraw(m, role)
        /\ seat[t][ResolvedSlot(m, t, role)] \notin Players(m) \/ MovedOn(t)

NoteRevert(role) ==
    undone' = IF role = "loser" /\ winner[admin.match] # 0
              THEN [undone EXCEPT ![admin.match] = "reverted"] ELSE undone

AfterWithdraw(role) ==
    IF role = "winner" THEN "withdraw_loser"
    ELSE IF admin.op = "reapply" THEN "record"
    ELSE "idle"

\* withdraw_from_target: nothing to do, a Conflict, or the side is emptied.  A
\* Conflict over the loser's side leaves the winner's side empty.
WithdrawFromTarget(role) ==
    LET m == admin.match
        t == Target(m, role)
    IN  /\ admin.step = WithdrawStep(role)
        /\ \/ /\ NothingToWithdraw(m, role)
              /\ Goto(AfterWithdraw(role))
              /\ NoteRevert(role)
              /\ UNCHANGED seat
           \/ /\ Refused(m, role)
              /\ admin' = NoAdmin
              /\ UNCHANGED <<seat, undone>>
           \/ /\ ~NothingToWithdraw(m, role) /\ ~Refused(m, role)
              /\ seat' = [seat EXCEPT ![t][ResolvedSlot(m, t, role)] = 0]
              /\ Goto(PendingStep(role))
              /\ UNCHANGED undone
        /\ UNCHANGED <<shape, mode, misused, status, winner, saga, crashes, repairs>>

\* Mutant: the match that lost a side stays ready.
KeepTargetReady(role) ==
    /\ admin.step = PendingStep(role)
    /\ Goto(AfterWithdraw(role))
    /\ NoteRevert(role)
    /\ UNCHANGED <<shape, mode, misused, seat, status, winner, saga, crashes, repairs>>

\* The match that lost a side is pending again.
ReturnTargetToPending(role) ==
    LET t == Target(admin.match, role)
    IN  /\ admin.step = PendingStep(role)
        /\ status' = [status EXCEPT ![t] = IF target_is_still_untouched(@) THEN "pending" ELSE @]
        /\ Goto(AfterWithdraw(role))
        /\ NoteRevert(role)
        /\ UNCHANGED <<shape, mode, misused, seat, winner, saga, crashes, repairs>>

\* process_match_completion.  record_outcome: the row names the winner before
\* anything is derived from it, unless winner and loser are recorded already.
\* (Once results have been misused the loser column may name anybody.)
RecordOutcome ==
    LET m == admin.match
    IN  /\ admin.step = "record"
        /\ \/ /\ winner[m] = admin.win
              /\ admin.lose = Other(m, admin.win) \/ misused
              /\ UNCHANGED <<status, winner>>
           \/ /\ winner[m] # admin.win \/ admin.lose # Other(m, admin.win) \/ misused
              /\ status' = [status EXCEPT ![m] = "completed"]
              /\ winner' = [winner EXCEPT ![m] = admin.win]
        /\ undone' = [undone EXCEPT ![m] = "no"]
        /\ Goto("advance")
        /\ UNCHANGED <<shape, mode, misused, seat, saga, crashes, repairs>>

\* determine_target_position: by wiring and role, else the first empty side.
determine_target_position(m, t, role) ==
    IF WiredSlot(m, t, role) # 0 THEN WiredSlot(m, t, role)
    ELSE IF seat[t][1] = 0 THEN 1
    ELSE IF seat[t][2] = 0 THEN 2
    ELSE 0

Place(m, role, x) ==
    LET t == Target(m, role)
    IN  seat' = IF t = NoPos \/ determine_target_position(m, t, role) = 0 THEN seat
                ELSE [seat EXCEPT ![t][determine_target_position(m, t, role)] = x]

AdvanceWinner ==
    /\ admin.step = "advance"
    /\ Place(admin.match, "winner", admin.win)
    /\ Goto("route")
    /\ UNCHANGED <<shape, mode, misused, status, winner, saga, undone, crashes, repairs>>

RouteLoser ==
    /\ admin.step = "route"
    /\ Place(admin.match, "loser", admin.lose)
    /\ Goto("mark")
    /\ UNCHANGED <<shape, mode, misused, status, winner, saga, undone, crashes, repairs>>

\* find_newly_ready_matches: those of the bracket of the processed match only.
FindNewlyReadyMatches ==
    /\ admin.step = "mark"
    /\ status' = [m \in Matches |->
                    IF m \in SameBracket(admin.match) /\ status[m] = "pending" /\ HasBoth(m)
                    THEN "ready" ELSE status[m]]
    /\ admin' = NoAdmin
    /\ UNCHANGED <<shape, mode, misused, seat, winner, saga, undone, crashes, repairs>>

-----------------------------------------------------------------------------

SagaStep(m) ==
    \/ StepAdvanceWinner(m) \/ StepRouteLoser(m)
    \/ \E role \in Roles : ReadTarget(m, role) \/ WriteTarget(m, role)

AdminStep ==
    \/ \E role \in Roles : WithdrawFromTarget(role) \/ ReturnTargetToPending(role)
    \/ RecordOutcome \/ AdvanceWinner \/ RouteLoser \/ FindNewlyReadyMatches

Next ==
    \/ \E m \in Matches :
        \/ Schedule(m) \/ StartMatch(m) \/ OverrideResult(m)
        \/ \E w \in Players(m) : ConfirmResult(m, w) \/ Forfeit(m, w)
        \/ \E w \in 1..shape.n : \/ ReapplyProgression(m, w)
                                \/ \E l \in 1..shape.n : ProcessProgression(m, w, l)
        \/ SagaStep(m) \/ CrashSaga(m) \/ Redrive(m)
        \/ RevertProgression(m)
    \/ AdminStep

Spec == Init /\ [][Next]_vars

\* Captains play the match that waits for them and report it (or its check-in
\* runs out), a request that runs goes on, and the background pass drives a dead
\* saga again every minute.
Fairness ==
    /\ WF_vars(\E m \in Matches : SagaStep(m) \/ Redrive(m))
    /\ WF_vars(\E m \in Matches : StartMatch(m) \/ \E w \in Players(m) : ConfirmResult(m, w))

FairSpec == Spec /\ Fairness

-----------------------------------------------------------------------------
(* Properties *)

\* Every variable of the bracket has its type.
TypeOK ==
    /\ \E c \in Cases : shape = c.shape /\ mode = c.mode /\ repairs \in 0..c.repairs
    /\ seat \in [Matches -> [Slots -> 0..shape.n]]
    /\ status \in [Matches -> TournamentMatchStatus]
    /\ winner \in [Matches -> 0..shape.n]
    /\ saga \in [Matches -> [step : SagaSteps, win : 0..shape.n]]
    /\ admin \in [op : {"none", "process", "revert", "reapply"}, step : AdminSteps,
                  match : Matches \cup {NoPos}, win : 0..shape.n, lose : 0..shape.n]
    /\ undone \in [Matches -> {"no", "reverted", "overridden"}]
    /\ crashes \in 0..MaxCrashes
    /\ misused \in BOOLEAN

\* Where a match sends its winner or loser there is one side that names it.
LinksAgree(sh) ==
    \A m \in DOMAIN Rows[sh], role \in Roles :
        LET t == LinkOf(sh, m, role)
        IN  t # NoPos =>
                /\ t \in DOMAIN Rows[sh] \ {m}
                /\ \E s \in Slots :
                    /\ Rows[sh][t].source[s] = [of |-> role, seed |-> 0, pos |-> m]
                    /\ \A r \in Slots \ {s} : Rows[sh][t].source[r].pos # m

\* Every participant has one seat; a side that is wired to a match is seated
\* only if that match is a bye, which has nobody.
SeatsDrawn(sh) ==
    /\ \A m \in DOMAIN Rows[sh], s \in Slots :
        LET src == Rows[sh][m].source[s]
        IN  /\ Rows[sh][m].seated[s] \in 0..sh.n
            /\ Rows[sh][m].seated[s] # 0 /\ src.of \in Roles =>
                \A r \in Slots : /\ Rows[sh][src.pos].source[r].of \notin Roles
                                 /\ Rows[sh][src.pos].seated[r] = 0
    /\ \A m, q \in DOMAIN Rows[sh], s, r \in Slots :
        Rows[sh][m].seated[s] # 0 /\ Rows[sh][m].seated[s] = Rows[sh][q].seated[r] =>
            m = q /\ s = r

WellWired(sh) == LinksAgree(sh) /\ SeatsDrawn(sh)

\* The generators wire a bracket consistently: the link of a match and the source
\* of the side it leads to name each other, so two matches never fill one side,
\* and every participant is seated exactly once.  (Two participants have no losers
\* bracket to feed the grand final of a double elimination.)
WiringIsConsistent ==
    mode = "draw" =>
        /\ WellWired(shape)
        /\ {seat[x[1]][x[2]] : x \in Matches \X Slots} \ {0} = 1..shape.n
        /\ \A m \in Matches, s \in Slots :
            LET src == SourceOf(m, s)
            IN  src.of \in Roles /\ (shape.format = "single" \/ shape.n > 2)
                    => src.pos \in Matches /\ Target(src.pos, src.of) = m

\* The half, quarter, ... of the first round that a seed is drawn into.
BlockOf(i, k) ==
    CHOOSE b \in 0..(2^k - 1) :
        \E m \in 1..(Size(shape.n) \div 2), s \in Slots :
            SeedAt(shape.n, m, s) = i /\ (m - 1) \div (2^(Rounds(shape.n) - 1 - k)) = b

\* The seeding is fair: the best 2^k seeds are drawn into 2^k different blocks, so
\* they cannot meet before that many are left, and byes go to the best seeds.
SeedsMeetLate ==
    mode = "draw" =>
        /\ \A k \in 1..(Rounds(shape.n) - 1) :
            \A i, j \in 1..2^k : i # j => BlockOf(i, k) # BlockOf(j, k)
        /\ \A i, j \in 1..shape.n :
            i < j /\ (\E m \in Matches, s \in Slots : m[2] = 2 /\ seat[m][s] = j)
                => \E m \in Matches, s \in Slots : m[2] = 2 /\ seat[m][s] = i

\* A match that has been paired and not yet played to the end holds its
\* participants alone: nobody waits in two matches, whatever is forfeited,
\* processed, reverted or reapplied.
NobodyWaitsTwice ==
    LET open == {m \in Matches : ~is_terminal(status[m])}
    IN  /\ \A m \in open : HasBoth(m) => seat[m][1] # seat[m][2]
        /\ \A m, q \in open : m # q => Players(m) \cap Players(q) = {}

\* Statuses follow the pairings: a match is offered for play only with both sides
\* known, and once nothing runs no full match is left pending.  (An admin's
\* request marks only matches of the same bracket ready, so for double
\* elimination the second half is claimed of the saga alone.)
ReadyMeansPaired ==
    Quiet =>
        \A m \in Matches :
            /\ status[m] # "pending" => HasBoth(m)
            /\ status[m] = "pending" /\ HasBoth(m) =>
                \/ \E q \in Matches : saga[q].step = "dead"
                \/ mode \in {"manual", "repair"} /\ shape.format = "double"

\* Apart from an override, which corrects the record only, the participant that a
\* match sent on is the one it names as its winner once nothing runs.
RecordMatchesBracket ==
    Quiet =>
        \A m \in Matches :
            LET t == Target(m, "winner")
            IN  t # NoPos /\ winner[m] # 0 /\ undone[m] # "overridden"
                    => seat[t][WiredSlot(m, t, "winner")] \in {0, winner[m]}

FeederOf == [sh \in Shapes |->
                [m \in DOMAIN Rows[sh] |-> [s \in Slots |-> Rows[sh][m].source[s].pos]]]
DrawnAt == [sh \in Shapes |-> [m \in DOMAIN Rows[sh] |-> Rows[sh][m].seated]]

\* What a bracket promises: BracketTree, with a match under way once its status
\* or its winner column says so.
Tree == INSTANCE BracketTree WITH
            Draws <- Shapes,
            Feeder <- FeederOf,
            Drawn <- DrawnAt,
            draw <- shape,
            seats <- seat,
            started <- {m \in Matches : winner[m] # 0 \/ ~target_is_still_untouched(status[m])}

\* Requests that do not overlap, with sagas that die and are driven again, with
\* forfeits, overrides, reverts and reapplies, keep that promise: no played
\* pairing is ever changed and every side is filled by its own source.  (The
\* endpoints that process and reapply a result take any participant for its
\* winner: the promise is kept for as long as an admin names results.)
ImplementsTree ==
    Tree!TreeInit /\ [][misused \/ Tree!TreeNextStep]_(Tree!treeVars)

\* Every bracket whose first round has no bye, and every single elimination
\* bracket, is played to the end, even if sagas die on the way.
ChampionEmerges ==
    mode = "play" /\ (shape.format = "single" \/ (shape.n > 2 /\ shape.n = Size(shape.n)))
        => <>(\E m \in Matches : Target(m, "winner") = NoPos /\ status[m] = "completed")

\* The generated bracket is sound: its links agree from both ends, and the
\* seeds are spread as the format promises.
DrawIsSound == WiringIsConsistent /\ SeedsMeetLate

\* The seats of the bracket, its statuses and its results tell one story,
\* whichever step a saga, a repair or a revert was interrupted at, until an admin
\* has had a result processed that was none of the match.
SeatsAreSound ==
    TypeOK /\ (misused \/ (NobodyWaitsTwice /\ ReadyMeansPaired /\ RecordMatchesBracket))

=============================================================================
