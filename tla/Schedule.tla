------------------------------ MODULE Schedule ------------------------------
(***************************************************************************)
(* Agreeing on the time of one match: proposals, answers and               *)
(* counter-proposals of the two sides, the admin's direct scheduling, the  *)
(* expiry by the lifecycle pass; and who may speak for a side at all: the  *)
(* roster, and the captains, owners and delegates who act in veto and      *)
(* check-in; and what a player is asked to do.  A user stands for the      *)
(* account and its player.                                                 *)
(***************************************************************************)
EXTENDS Requests, Sequences, FiniteSets

LOCAL INSTANCE MatchStatus

CONSTANTS
    SdRoster,       \* side -> the members when the match is made
    SdCaptains,     \* side -> the captains among them
    SdOwner,        \* side -> the owner of the team
    SdStaff,        \* users with tournament.manage
    SdTimes,        \* the points in time that may be proposed, all to come
    MaxProposals,   \* bound: proposals ever made
    MaxDelegations  \* bound: delegations ever made

VARIABLES
    sd_match,       \* [status, at]: the match row; at is a set of at most one time
    sd_props,       \* sequence of proposals, in order of creation
    sd_members,     \* side -> active members (left_at IS NULL)
    sd_delegates,   \* sequence of [side, player, role, scope, active]
    sd_acted        \* <<user, side, role>>: check-ins and veto turns taken

sdTables == <<sd_match, sd_props, sd_members, sd_delegates, sd_acted>>
sdVars == <<requestVars, sdTables>>

ASSUME ScheduleAssumption ==
    /\ DOMAIN SdRoster = {"A", "B"}
    /\ \A s \in {"A", "B"} : SdCaptains[s] \subseteq SdRoster[s]
    /\ SdRoster["A"] \cap SdRoster["B"] = {}
    /\ MaxProposals \in Nat
    /\ MaxDelegations \in Nat

SdSides == {"A", "B"}
Opposite(s) == IF s = "A" THEN "B" ELSE "A"
SdPlayers == SdRoster["A"] \cup SdRoster["B"] \cup {SdOwner[s] : s \in SdSides}
                \cup SdStaff

SdAllowed(op) == scenario.of = "schedule" /\ op \in scenario.ops

ProposalStatus ==
    {"pending", "accepted", "rejected", "counter_proposed", "expired", "cancelled"}
DelegatedByRole == {"captain", "owner", "tournament_admin"}
\* tournament_id: NULL for all tournaments, this match's one or another.
DelegationScope == {"all", "this", "other"}

SdInit ==
    /\ sd_match = [status |-> "ready", at |-> {}]
    /\ sd_props = << >>
    /\ sd_members = SdRoster
    /\ sd_delegates = << >>
    /\ sd_acted = {}

----------------------------------------------------------------------------
(* Who speaks for a side. *)

\* The one rule for scheduling, results, evidence and disputes.  The owner of
\* an individual registration is the user who created its row.
speaks_for_registration(s, u) ==
    IF scenario.kind = "individual"
    THEN u \in sd_members[s] \/ u = SdOwner[s]
    ELSE u \in sd_members[s]

SidesOf(u) == {s \in SdSides : speaks_for_registration(s, u)}

\* The first participant the user speaks for.
find_actor_registration(u) == IF "A" \in SidesOf(u) THEN "A" ELSE "B"

is_tournament_admin(u) == u \in SdStaff
is_captain(s, u) == u \in sd_members[s] \cap SdCaptains[s]
is_owner(s, u) == u = SdOwner[s]

\* A delegation for all tournaments of the team, or for this one.
is_delegate(s, u) ==
    \E i \in DOMAIN sd_delegates : /\ sd_delegates[i].side = s
                                   /\ sd_delegates[i].player = u
                                   /\ sd_delegates[i].active
                                   /\ sd_delegates[i].scope \in {"all", "this"}

\* The role under which a user acts in veto and check-in, or "none".
ActingRole(s, u) ==
    CASE is_tournament_admin(u) -> "admin"
      [] scenario.kind = "individual" -> IF u \in sd_members[s] THEN "player" ELSE "none"
      [] scenario.kind = "adhoc" ->
            IF is_captain(s, u) THEN "captain"
            ELSE IF u \in sd_members[s] THEN "player" ELSE "none"
      [] is_captain(s, u) -> "captain"
      [] is_owner(s, u) -> "owner"
      [] is_delegate(s, u) -> "delegate"
      [] OTHER -> "none"

can_act_for_registration(s, u) == ActingRole(s, u) # "none"

\* A check-in or a veto turn of a side.
ActForSide(p, u, s) ==
    /\ SdAllowed("act")
    /\ can_act_for_registration(s, u)
    /\ sd_acted' = sd_acted \cup {<<u, s, ActingRole(s, u)>>}
    /\ Request(p, NoRequest)
    /\ UNCHANGED <<sd_match, sd_props, sd_members, sd_delegates>>

\* A member's row gets its left_at (the league teams' component).
MemberLeaves(p, u, s) ==
    /\ SdAllowed("leave")
    /\ scenario.kind = "team"
    /\ u \in sd_members[s]
    /\ sd_members' = [sd_members EXCEPT ![s] = @ \ {u}]
    /\ Request(p, NoRequest)
    /\ UNCHANGED <<sd_match, sd_props, sd_delegates, sd_acted>>

----------------------------------------------------------------------------
(* Delegations of a team's authority. *)

\* The role that lets u delegate for side s or revoke a delegation of it.
DelegatingRole(s, u) ==
    CASE is_tournament_admin(u) -> "tournament_admin"
      [] is_owner(s, u) -> "owner"
      [] is_captain(s, u) -> "captain"
      [] OTHER -> "none"

can_create_delegation(s, u) == DelegatingRole(s, u) # "none"

\* One active delegation per player and team.
unique_active(s, d) ==
    \A i \in DOMAIN sd_delegates :
        ~(/\ sd_delegates[i].side = s
          /\ sd_delegates[i].player = d
          /\ sd_delegates[i].active)

CreateVetoDelegate(s, d, role, scope) ==
    IF unique_active(s, d)
    THEN sd_delegates' = Append(sd_delegates,
            [side |-> s, player |-> d, role |-> role, scope |-> scope,
             active |-> TRUE])
    ELSE UNCHANGED sd_delegates

\* The delegate must be a member of the team.
MayDelegate(u, s, d) == can_create_delegation(s, u) /\ d \in sd_members[s]

CreateDelegation(p, u, s, d, scope) ==
    /\ SdAllowed("delegate")
    /\ scenario.kind = "team"
    /\ Len(sd_delegates) < MaxDelegations
    /\ MayDelegate(u, s, d)
    /\ Request(p, [pc |-> "sd_delegate", side |-> s, player |-> d,
                   role |-> DelegatingRole(s, u), scope |-> scope])
    /\ UNCHANGED sdTables

InsertDelegation(p) ==
    /\ At(p, "sd_delegate")
    /\ CreateVetoDelegate(req[p].side, req[p].player, req[p].role, req[p].scope)
    /\ Finish(p)
    /\ UNCHANGED <<sd_match, sd_props, sd_members, sd_acted>>

\* An admin revokes every delegation, an owner those of owners and captains,
\* a captain those of captains.
can_revoke(role, other) ==
    CASE role = "tournament_admin" -> TRUE
      [] role = "owner" -> other \in {"captain", "owner"}
      [] role = "captain" -> other = "captain"
      [] OTHER -> FALSE

can_revoke_delegation(u, i) ==
    /\ sd_delegates[i].active
    /\ can_revoke(DelegatingRole(sd_delegates[i].side, u), sd_delegates[i].role)

RevokeDelegation(p, u, i) ==
    /\ SdAllowed("delegate")
    /\ can_revoke_delegation(u, i)
    /\ Request(p, [pc |-> "sd_revoke", row |-> i])
    /\ UNCHANGED sdTables

\* UPDATE ... WHERE revoked_at IS NULL.
WriteRevoked(p) ==
    /\ At(p, "sd_revoke")
    /\ sd_delegates' = [sd_delegates EXCEPT ![req[p].row].active = FALSE]
    /\ Finish(p)
    /\ UNCHANGED <<sd_match, sd_props, sd_members, sd_acted>>

----------------------------------------------------------------------------
(* Proposals. *)

SdPending == {i \in DOMAIN sd_props : sd_props[i].status = "pending"}

\* The newest pending proposal of the match, due or not.
find_pending_by_match_id == {i \in SdPending : \A j \in SdPending : j <= i}

can_respond(i) == sd_props[i].status = "pending" /\ ~sd_props[i].due

contains_time(i, t) == t \in sd_props[i].times

NewProposal(u, s, ts) ==
    [by |-> u, side |-> s, times |-> ts, status |-> "pending", due |-> FALSE,
     selected |-> {}, counter |-> 0, responder |-> {}]

\* One to five times, each in the future.
ValidTimes(ts) == ts \in SUBSET SdTimes /\ Cardinality(ts) \in 1 .. 5

\* Mutant: a match with a proposal on the table takes another one.
MayProposeAnother(u, ts) ==
    can_schedule(sd_match.status) /\ ValidTimes(ts) /\ SidesOf(u) # {}

\* A ready match with no pending proposal, and a proposer who speaks for a side.
MayPropose(u, ts) ==
    /\ can_schedule(sd_match.status)
    /\ ValidTimes(ts)
    /\ find_pending_by_match_id = {}
    /\ SidesOf(u) # {}

ProposeSchedule(p, u, ts) ==
    /\ SdAllowed("propose")
    /\ Len(sd_props) < MaxProposals
    /\ MayPropose(u, ts)
    /\ Request(p, [pc |-> "sd_propose",
                   new |-> NewProposal(u, find_actor_registration(u), ts)])
    /\ UNCHANGED sdTables

\* The insert; nothing in the schema counts the pending proposals of a match.
InsertProposal(p) ==
    /\ At(p, "sd_propose")
    /\ sd_props' = Append(sd_props, req[p].new)
    /\ Finish(p)
    /\ UNCHANGED <<sd_match, sd_members, sd_delegates, sd_acted>>

\* Neither the proposer nor somebody of the proposer's side.
validate_responder_is_opponent(u, i) ==
    /\ u # sd_props[i].by
    /\ SidesOf(u) # {}
    /\ find_actor_registration(u) # sd_props[i].side

\* The whole row is written back from the copy the request read.
UpdateProposal(i, row) ==
    sd_props' = [sd_props EXCEPT ![i] =
                    [row EXCEPT !.due = sd_props[i].due]]

MayAccept(u, i, t) ==
    can_respond(i) /\ contains_time(i, t) /\ validate_responder_is_opponent(u, i)

\* The answered row: its new status and who answered.
Answered(i, status, u) ==
    [sd_props[i] EXCEPT !.status = status, !.responder = {u}]

AcceptProposal(p, u, i, t) ==
    /\ SdAllowed("answer")
    /\ MayAccept(u, i, t)
    /\ Request(p, [pc |-> "sd_answer", row |-> i, then |-> "sd_time", at |-> t,
                   new |-> [Answered(i, "accepted", u) EXCEPT !.selected = {t}]])
    /\ UNCHANGED sdTables

MayReject(u, i) == can_respond(i) /\ validate_responder_is_opponent(u, i)

RejectProposal(p, u, i) ==
    /\ SdAllowed("answer")
    /\ MayReject(u, i)
    /\ Request(p, [pc |-> "sd_answer", row |-> i, then |-> "idle",
                   new |-> Answered(i, "rejected", u)])
    /\ UNCHANGED sdTables

\* Only the proposer; a proposal past its deadline may still be withdrawn.
MayCancel(u, i) == sd_props[i].by = u /\ sd_props[i].status = "pending"

CancelProposal(p, u, i) ==
    /\ SdAllowed("cancel")
    /\ MayCancel(u, i)
    /\ Request(p, [pc |-> "sd_answer", row |-> i, then |-> "idle",
                   new |-> Answered(i, "cancelled", u)])
    /\ UNCHANGED sdTables

\* The one UPDATE of an answer.
WriteAnswer(p) ==
    /\ At(p, "sd_answer")
    /\ UpdateProposal(req[p].row, req[p].new)
    /\ IF req[p].then = "idle" THEN Finish(p)
       ELSE Continue(p, [pc |-> req[p].then, at |-> req[p].at])
    /\ UNCHANGED <<sd_match, sd_members, sd_delegates, sd_acted>>

\* An accepted proposal: scheduled_at first ...
WriteScheduledAt(p) ==
    /\ At(p, "sd_time")
    /\ sd_match' = [sd_match EXCEPT !.at = {req[p].at}]
    /\ Continue(p, [pc |-> "sd_status"])
    /\ UNCHANGED <<sd_props, sd_members, sd_delegates, sd_acted>>

\* ... then the status, whatever it is by now.
WriteScheduled(p) ==
    /\ At(p, "sd_status")
    /\ sd_match' = [sd_match EXCEPT !.status = "scheduled"]
    /\ Finish(p)
    /\ UNCHANGED <<sd_props, sd_members, sd_delegates, sd_acted>>

\* The handler takes the side opposite to the newest pending proposal; the
\* service checks the proposal the request names.
CounterSide == Opposite(sd_props[CHOOSE i \in find_pending_by_match_id : TRUE].side)

MayCounter(u, i, ts) ==
    can_respond(i) /\ ValidTimes(ts) /\ validate_responder_is_opponent(u, i)

CounterPropose(p, u, i, ts) ==
    /\ SdAllowed("counter")
    /\ Len(sd_props) < MaxProposals
    /\ find_pending_by_match_id # {}
    /\ MayCounter(u, i, ts)
    /\ Request(p, [pc |-> "sd_counter", row |-> i, by |-> u,
                   new |-> NewProposal(u, CounterSide, ts), old |-> sd_props[i]])
    /\ UNCHANGED sdTables

\* The counter-proposal first, the answered one after it.
InsertCounter(p) ==
    /\ At(p, "sd_counter")
    /\ sd_props' = Append(sd_props, req[p].new)
    /\ Continue(p, [pc |-> "sd_answer", row |-> req[p].row, then |-> "idle",
                    new |-> [req[p].old EXCEPT !.status = "counter_proposed",
                                !.counter = Len(sd_props) + 1,
                                !.responder = {req[p].by}]])
    /\ UNCHANGED <<sd_match, sd_members, sd_delegates, sd_acted>>

----------------------------------------------------------------------------
(* The admin, the pass, and the world. *)

AdminSchedule(p, t) ==
    /\ SdAllowed("admin")
    /\ can_schedule(sd_match.status)
    /\ Request(p, [pc |-> "sd_admin", at |-> t,
                   read |-> {[row |-> i, new |-> [sd_props[i] EXCEPT !.status = "cancelled"]] :
                                i \in find_pending_by_match_id}])
    /\ UNCHANGED sdTables

\* The newest pending proposal is cancelled; older ones are not looked for.
CancelPending(p) ==
    /\ At(p, "sd_admin")
    /\ IF req[p].read = {} THEN UNCHANGED sd_props
       ELSE \E c \in req[p].read : UpdateProposal(c.row, c.new)
    /\ Continue(p, [pc |-> "sd_admin_time", at |-> req[p].at])
    /\ UNCHANGED <<sd_match, sd_members, sd_delegates, sd_acted>>

WriteAdminTime(p) ==
    /\ At(p, "sd_admin_time")
    /\ sd_match' = [sd_match EXCEPT !.at = {req[p].at}]
    /\ Continue(p, [pc |-> "sd_admin_status"])
    /\ UNCHANGED <<sd_props, sd_members, sd_delegates, sd_acted>>

\* The lifecycle service moves the status along an edge, or refuses.
TransitionScheduled(p) ==
    /\ At(p, "sd_admin_status")
    /\ sd_match' = IF can_transition_to(sd_match.status, "scheduled")
                   THEN [sd_match EXCEPT !.status = "scheduled"] ELSE sd_match
    /\ Finish(p)
    /\ UNCHANGED <<sd_props, sd_members, sd_delegates, sd_acted>>

\* The pending proposals whose deadline is behind us, the earliest first.
find_expired == {i \in SdPending : sd_props[i].due}

PassExpire(p) ==
    /\ SdAllowed("expire")
    /\ find_expired # {}
    /\ Wake(p, [pc |-> "sd_expire", todo |-> find_expired])
    /\ UNCHANGED sdTables

\* UPDATE ... WHERE status = 'pending'; a row answered meanwhile ends the
\* sweep with an error.
mark_expired(p) ==
    /\ At(p, "sd_expire")
    /\ LET i == CHOOSE j \in req[p].todo : \A k \in req[p].todo : j <= k
           rest == req[p].todo \ {i} IN
       IF sd_props[i].status = "pending"
       THEN /\ sd_props' = [sd_props EXCEPT ![i].status = "expired"]
            /\ IF rest = {} THEN Finish(p)
               ELSE Continue(p, [req[p] EXCEPT !.todo = rest])
       ELSE Finish(p) /\ UNCHANGED sd_props
    /\ UNCHANGED <<sd_match, sd_members, sd_delegates, sd_acted>>

\* The 48 hours of a proposal are over.
ProposalFallsDue ==
    /\ SdAllowed("expire")
    /\ scenario.serial => Quiescent
    /\ \E i \in SdPending : /\ ~sd_props[i].due
                            /\ sd_props' = [sd_props EXCEPT ![i].due = TRUE]
    /\ UNCHANGED <<requestVars, sd_match, sd_members, sd_delegates, sd_acted>>

\* The match moves on by other means (the lifecycle component).
MatchMovesOn ==
    /\ SdAllowed("move")
    /\ scenario.serial => Quiescent
    /\ \E t \in allowed_transitions(sd_match.status) :
            sd_match' = [sd_match EXCEPT !.status = t]
    /\ UNCHANGED <<requestVars, sd_props, sd_members, sd_delegates, sd_acted>>

SdDie(p) == scenario.of = "schedule" /\ Die(p) /\ UNCHANGED sdTables

SdStep(p) ==
    \/ InsertDelegation(p) \/ WriteRevoked(p) \/ InsertProposal(p)
    \/ WriteAnswer(p) \/ WriteScheduledAt(p) \/ WriteScheduled(p)
    \/ InsertCounter(p) \/ CancelPending(p) \/ WriteAdminTime(p)
    \/ TransitionScheduled(p) \/ mark_expired(p)

SdArrive(p) ==
    \/ \E u \in SdPlayers, s \in SdSides : ActForSide(p, u, s) \/ MemberLeaves(p, u, s)
    \/ \E u \in SdPlayers, s \in SdSides, d \in SdPlayers, c \in DelegationScope :
            CreateDelegation(p, u, s, d, c)
    \/ \E u \in SdPlayers, i \in DOMAIN sd_delegates : RevokeDelegation(p, u, i)
    \/ \E u \in SdPlayers, ts \in SUBSET SdTimes : ProposeSchedule(p, u, ts)
    \/ \E u \in SdPlayers, i \in DOMAIN sd_props :
            \/ \E t \in SdTimes : AcceptProposal(p, u, i, t)
            \/ RejectProposal(p, u, i)
            \/ CancelProposal(p, u, i)
            \/ \E ts \in SUBSET SdTimes : CounterPropose(p, u, i, ts)
    \/ \E t \in SdTimes : AdminSchedule(p, t)

SdNext ==
    \/ \E p \in Users : SdArrive(p)
    \/ PassExpire(Pass)
    \/ \E p \in Tasks : SdStep(p) \/ SdDie(p)
    \/ ProposalFallsDue
    \/ MatchMovesOn

SdSpec == RequestsInit /\ SdInit /\ [][SdNext]_sdVars

\* Every task runs on, and the pass wakes up again and again.
SdFairness ==
    /\ \A p \in Tasks : WF_sdVars(SdStep(p))
    /\ WF_sdVars(PassExpire(Pass))

SdFairSpec == SdSpec /\ SdFairness

----------------------------------------------------------------------------
(* What a player is asked to do: one query over the open matches of the
   player's registrations, their proposals, vetoes, claims and reviews, as a
   function of what it sees of one match. *)

\* Any seat that the player ever had: the join does not look at left_at.
my_registrations(m, u) == {s \in SdSides : u \in m.seats[s]}

my_match(m) ==
    m.status \in {"ready", "scheduled", "checking_in", "pick_ban", "in_progress", "awaiting_result"}

ActProposals(m, s) ==
    {a \in {"schedule_match", "respond_proposal"} :
        /\ m.status = "ready"
        /\ IF a = "schedule_match" THEN m.scheduling_mode = "self_scheduled" /\ m.proposals = {}
           ELSE Opposite(s) \in m.proposals}

ActCheckIn(m, s) ==
    IF m.status \in {"scheduled", "checking_in"} /\ s \notin m.checked_in THEN {"check_in"} ELSE {}

ActVeto(m, s) == IF m.status = "pick_ban" /\ m.turn = s THEN {"veto_turn"} ELSE {}

\* A claim of the game server has no registration, and no registration differs
\* from none in SQL.
ActResult(m, s) ==
    {a \in {"submit_result", "confirm_result"} :
        IF a = "submit_result" THEN can_submit_result(m.status) /\ m.claim = "none"
        ELSE m.status = "awaiting_result" /\ m.claim = Opposite(s)}

ActReview(m) == IF m.review THEN {"acknowledge_review"} ELSE {}

ItemsOf(m, s) ==
    IF my_match(m)
    THEN ActProposals(m, s) \cup ActCheckIn(m, s) \cup ActVeto(m, s) \cup ActResult(m, s) \cup ActReview(m)
    ELSE {}

\* DISTINCT ON (tm.id): of two registrations in one match any one.
list_by_player(m, u) == {ItemsOf(m, s) : s \in my_registrations(m, u)}

(* Pictures the tables can show.  A confirmation completes the match before *)
(* its saga asks for a review, and a claim waits from its first submission. *)

ActSeats == [A |-> {"a", "old"}, B |-> {"b", "old"}]
ActPictures ==
    {m \in [status : TournamentMatchStatus, scheduling_mode : {"self_scheduled", "admin_assigned"},
            proposals : SUBSET SdSides, checked_in : SUBSET SdSides, turn : SdSides \cup {"none"},
            claim : SdSides \cup {"none", "server"}, review : BOOLEAN, seats : {ActSeats}] :
        /\ m.turn # "none" => m.status = "pick_ban"
        /\ m.claim # "none" => m.status \in {"in_progress", "awaiting_result", "forfeit", "cancelled"}
        /\ m.checked_in = SdSides => m.status \notin {"pending", "ready", "scheduled"}
        /\ m.checked_in # {} => m.status \notin {"pending", "ready"}
        /\ m.review => m.status \in {"completed", "forfeit"}}

----------------------------------------------------------------------------
(* Properties. *)

\* The rows of schedule_proposals and veto_delegates.
ScheduleProposalRow ==
    [status : ProposalStatus, times : SUBSET SdTimes, selected : SUBSET SdTimes, side : SdSides,
     by : SdPlayers, responder : SUBSET SdPlayers, counter : Nat, due : BOOLEAN]
VetoDelegateRow ==
    [side : SdSides, player : SdPlayers, role : DelegatedByRole, scope : DelegationScope,
     active : BOOLEAN]

\* The columns have their types, and a counter-proposal exists.
SdTypeOK ==
    /\ RequestsTypeOK
    /\ sd_match.status \in TournamentMatchStatus
    /\ sd_match.at \subseteq SdTimes
    /\ \A i \in DOMAIN sd_props :
        /\ sd_props[i] \in ScheduleProposalRow
        /\ sd_props[i].selected \subseteq sd_props[i].times
        /\ sd_props[i].status = "counter_proposed" <=>
                sd_props[i].counter \in (i + 1) .. Len(sd_props)
    /\ \A s \in SdSides : sd_members[s] \subseteq SdRoster[s]
    /\ \A i \in DOMAIN sd_delegates : sd_delegates[i] \in VetoDelegateRow

\* Served one after the other and never cut short, the requests leave at most
\* one proposal on the table (between a counter-proposal's two writes there
\* are two).
OneOnTheTable ==
    scenario.serial /\ crashes = 0 /\ Quiescent => Cardinality(SdPending) <= 1

\* And every proposal carries the side its proposer played for, so that the
\* other side can answer it.
ProposerSide ==
    scenario.serial /\ crashes = 0 =>
        \A i \in DOMAIN sd_props :
            scenario.kind # "individual" => sd_props[i].by \in SdRoster[sd_props[i].side]

\* A time both sides agreed on is the match's time as long as nobody agreed
\* on another: the last accepted proposal decides, or an admin did.
AgreedTimeStands ==
    scenario.of = "schedule" /\ scenario.serial /\ crashes = 0
        /\ Quiescent /\ "admin" \notin scenario.ops =>
        LET agreed == {i \in DOMAIN sd_props : sd_props[i].status = "accepted"} IN
        /\ agreed # {} => /\ sd_match.status # "ready"
                          /\ \E i \in agreed : sd_match.at = sd_props[i].selected
        /\ agreed = {} => sd_match.at = {}

\* No answer to a proposal comes from the side that made it.
OtherSideAnswers ==
    scenario.of = "schedule" /\ scenario.serial /\ crashes = 0 /\ scenario.kind # "individual" =>
        \A i \in DOMAIN sd_props :
            sd_props[i].status \in {"accepted", "rejected", "counter_proposed"} =>
                sd_props[i].responder \subseteq SdRoster[Opposite(sd_props[i].side)]

\* Who took a turn of a side belongs to it: was on its roster, owns the team,
\* or is staff; a delegation reaches nobody else.
OwnPeopleAct ==
    \A a \in sd_acted : a[3] = "admin" \/ a[1] \in SdRoster[a[2]] \cup {SdOwner[a[2]]}

\* A proposal nobody answers does not block the match for ever.
DueProposalExpires ==
    \A i \in 1 .. MaxProposals :
        (/\ scenario.serial
         /\ i \in DOMAIN sd_props
         /\ sd_props[i].status = "pending" /\ sd_props[i].due) ~>
            (i \in DOMAIN sd_props /\ sd_props[i].status # "pending")

\* The negotiation of a time keeps to its rules: one proposal at a time, made
\* and answered by the right sides, and the match is at the time they agreed.
ProposalsAreSound ==
    SdTypeOK /\ OneOnTheTable /\ ProposerSide /\ OtherSideAnswers /\ OwnPeopleAct
    /\ AgreedTimeStands

\* A player is asked one thing about a match at a time, and what the services
\* take at this status: a time while it may be scheduled, the check-in of a side
\* that is missing, a result while results are taken, an answer only to what the
\* other side proposed or claimed (action_item.rs).
QuestionsCanBeAnswered ==
    \A m \in ActPictures, u \in {"a", "b", "old"} : \A items \in list_by_player(m, u) :
        /\ Cardinality(items) <= 1
        /\ \A s \in my_registrations(m, u) : (\A t \in my_registrations(m, u) : s = t) =>
              /\ items \cap {"schedule_match", "respond_proposal"} # {} => can_schedule(m.status)
              /\ items \cap {"submit_result", "confirm_result"} # {} => can_submit_result(m.status)
              /\ "respond_proposal" \in items => m.proposals # {s}
              /\ "confirm_result" \in items => m.claim \notin {s, "none", "server"}
              /\ "check_in" \in items => s \notin m.checked_in
        /\ is_terminal(m.status) => items = {}

\* An open match asks one of its sides, but for a time that an admin assigns, the
\* step from the last check-in to the next status, the coin flip of a veto, and a
\* claim whose answer is not asked for: the server's, which the sweep confirms,
\* and one of a match still in progress.
SomebodyIsAsked ==
    \A m \in ActPictures :
        (my_match(m) /\ \A s \in SdSides : ItemsOf(m, s) = {}) =>
            \/ m.status = "ready" /\ m.scheduling_mode # "self_scheduled"
            \/ m.status = "checking_in" /\ m.checked_in = SdSides
            \/ m.status = "pick_ban" /\ m.turn = "none"
            \/ m.status = "awaiting_result" /\ m.claim = "server"
            \/ m.status = "in_progress" /\ m.claim # "none"

\* Who is asked can answer, and an open match asks.
ItemsAreSound == QuestionsCanBeAnswered /\ SomebodyIsAsked

=============================================================================
