---------------------------- MODULE LeagueTeams ----------------------------
(***************************************************************************)
(* League teams and their seasonal rosters: founding and registering a     *)
(* team, seating and releasing players, captaincy, ownership, invitations  *)
(* and join requests, archive, restore, disband, the move to another       *)
(* league, and the season's status and roster lock that gate all of it.    *)
(* A roster is a pair <<team, season>>; a team stands for its own name and *)
(* tag.  The service reads and checks in one step and writes in a later    *)
(* one; a repository method that is a transaction is one step.             *)
(***************************************************************************)
EXTENDS Requests, Sequences, FiniteSets, FiniteSetsExt, TLC

CONSTANTS
    LtPlayers,      \* the players
    LtEligible,     \* those who meet the league's entry requirements for a player
    LtRating,       \* player -> rating
    LtTeams,        \* the teams that may be founded
    LtSeasons,      \* the seasons
    LtLeagueOf,     \* the league each season belongs to
    team_size_max, max_substitutes, max_teams,   \* the limits seasons are made with
    LtLimits,       \* the limits an organiser may set instead
    MaxInvites      \* bound: invitations ever created

VARIABLES
    lt_seasons,     \* season -> [status, lock, archived] and its limits
    lt_teams,       \* founded team -> [league, owner, status, archived, archives]
    lt_regs,        \* roster -> [status, born]: league_team_seasons
    lt_seats,       \* <<team, season, player>> -> [role, st, at]
    lt_grants,      \* founded team -> holders of its team_captain grant
    lt_invites,     \* sequence of invitations and join requests
    lt_entries,     \* roster -> its entry in a cup
    lt_enrolled,    \* league -> its members
    lt_audits       \* rosters with a roster_lock_override audit row

ltTables == <<lt_seasons, lt_teams, lt_regs, lt_seats, lt_grants, lt_invites,
              lt_entries, lt_enrolled, lt_audits>>
ltVars == <<requestVars, ltTables>>

ASSUME LeagueTeamsAssumption ==
    /\ LtEligible \subseteq LtPlayers
    /\ DOMAIN LtLeagueOf = LtSeasons
    /\ LtRating \in [LtPlayers -> Nat]
    /\ {team_size_max, max_substitutes, max_teams, MaxInvites} \cup LtLimits \subseteq Nat

LtLeagues == {LtLeagueOf[s] : s \in LtSeasons}
----------------------------------------------------------------------------
(* The tables' columns. *)

SeasonStatus == {"draft", "registration", "active", "playoffs", "completed", "cancelled"}
RosterLockStatus == {"open", "soft_lock", "hard_lock"}
LeagueTeamRole == {"captain", "player", "substitute"}
is_primary(role) == role \in {"captain", "player"}
SeasonOver(status) == status \in {"completed", "cancelled"}

\* The season's lifecycle chain.
allowed_transitions(status) ==
    CASE status = "draft" -> {"registration", "cancelled"}
      [] status = "registration" -> {"active", "cancelled"}
      [] status = "active" -> {"playoffs", "completed", "cancelled"}
      [] status = "playoffs" -> {"completed", "cancelled"}
      [] OTHER -> {}

\* A seat is open (left_at is null) exactly while its status is active;
\* "inactive" is what an archive leaves, stamped with the archive's instant.
Seat(role) == [role |-> role, st |-> "active", at |-> 0]
LtSeated(k, x) == <<k[1], k[2], x>> \in DOMAIN lt_seats /\ lt_seats[k[1], k[2], x].st = "active"
SeatRole(k, x) == lt_seats[k[1], k[2], x].role
LtMembers(k) == {x \in LtPlayers : LtSeated(k, x)}
Primaries(k) == {x \in LtMembers(k) : is_primary(SeatRole(k, x))}
Captains(k) == {x \in LtMembers(k) : SeatRole(k, x) = "captain"}

LtAllowed(op) == scenario.of = "teams" /\ op \in scenario.ops

\* A league with one founded team, its owner seated as captain with the
\* scenario's team mates, in the first season of the scenario.
LtInit ==
    IF scenario.of # "teams"
    THEN /\ lt_seasons = << >> /\ lt_teams = << >> /\ lt_regs = << >> /\ lt_seats = << >>
         /\ lt_grants = << >> /\ lt_invites = << >> /\ lt_entries = << >>
         /\ lt_enrolled = << >> /\ lt_audits = {}
    ELSE LET t == scenario.team  s == scenario.season IN
         /\ lt_seasons = [z \in LtSeasons |->
                [status |-> IF z = s THEN scenario.status ELSE "registration",
                 lock |-> IF z = s THEN scenario.lock ELSE "open",
                 archived |-> FALSE, team_size_max |-> team_size_max,
                 max_substitutes |-> max_substitutes, max_teams |-> max_teams]]
         /\ lt_teams = (t :> [league |-> LtLeagueOf[s], owner |-> scenario.owner,
                              status |-> "active", archived |-> FALSE, archives |-> 0])
         /\ lt_regs = (<<t, s>> :> [status |-> "forming", born |-> 1])
         /\ lt_seats = [c \in {<<t, s, x>> : x \in DOMAIN scenario.mates} |->
                            Seat(scenario.mates[c[3]])]
         /\ lt_grants = (t :> {scenario.owner})
         /\ lt_invites = << >>
         /\ lt_entries = << >>
         /\ lt_enrolled = [l \in LtLeagues |-> LtPlayers]
         /\ lt_audits = {}

----------------------------------------------------------------------------
(* What the services ask before they write. *)

PrimaryTeams(s, x) == {k \in DOMAIN lt_regs : k[2] = s /\ x \in Primaries(k)}

can_register_team(s) ==
    lt_seasons[s].status = "registration" /\ ~lt_seasons[s].archived

RegOver(status) == status \in {"eliminated", "disqualified", "withdrawn"}

\* Can this roster still take a player, or enter a cup?
ensure_roster_live(k) ==
    /\ lt_teams[k[1]].status # "disbanded"
    /\ ~lt_teams[k[1]].archived
    /\ ~RegOver(lt_regs[k].status)
    /\ ~lt_seasons[k[2]].archived

ensure_league_member(s, x) == x \in lt_enrolled[LtLeagueOf[s]]

\* Registrations that hold one of the season's slots.
count_teams(s) ==
    Cardinality({k \in DOMAIN lt_regs :
        /\ k[2] = s
        /\ lt_regs[k].status \notin {"withdrawn", "disqualified"}
        /\ ~lt_teams[k[1]].archived
        /\ lt_teams[k[1]].status # "disbanded"})

within_size(k, role) ==
    IF is_primary(role) THEN Cardinality(Primaries(k)) < lt_seasons[k[2]].team_size_max
    ELSE Cardinality(LtMembers(k) \ Primaries(k)) < lt_seasons[k[2]].max_substitutes

\* Why the season refuses a change of an existing roster: "role" is a
\* captaincy change, otherwise the change seats or lifts a member of a role.
refusal_reason(s, change) ==
    LET season == lt_seasons[s] IN
    \/ SeasonOver(season.status)
    \/ change = "role" /\ season.lock = "hard_lock"
    \/ is_primary(change) /\ season.lock # "open"
    \/ change = "substitute" /\ season.lock = "hard_lock"

\* An override lets any refusal pass, once its audit row is written.
enforce_roster_lock(k, change, override) ==
    /\ refusal_reason(k[2], change) => override
    /\ lt_audits' = IF refusal_reason(k[2], change) THEN lt_audits \cup {k} ELSE lt_audits

----------------------------------------------------------------------------
(* The repositories' writes. *)

\* The unique index on a player's active primary seats of a season, for a
\* seat on roster k.
one_primary_team_per_season(k, x, role) ==
    is_primary(role) => PrimaryTeams(k[2], x) \subseteq {k}

\* INSERT ... ON CONFLICT reopens a seat that was left.
may_seat(k, x, role) ==
    /\ k \in DOMAIN lt_regs
    /\ ~LtSeated(k, x)
    /\ one_primary_team_per_season(k, x, role)

seat_member(k, x, role) == lt_seats' = (<<k[1], k[2], x>> :> Seat(role)) @@ lt_seats

remove_member(k, x) ==
    lt_seats' = IF LtSeated(k, x)
                THEN [lt_seats EXCEPT ![k[1], k[2], x].st = "left"]
                ELSE lt_seats

\* A role is only written to an open seat; the index may refuse it.
update_role(k, x, role) ==
    lt_seats' = IF LtSeated(k, x) /\ one_primary_team_per_season(k, x, role)
                THEN [lt_seats EXCEPT ![k[1], k[2], x].role = role]
                ELSE lt_seats

live_team_season_ids(t) ==
    {k \in DOMAIN lt_regs : /\ k[1] = t
                            /\ ~RegOver(lt_regs[k].status)
                            /\ ~SeasonOver(lt_seasons[k[2]].status)}

EntryOf(k) == IF k \in DOMAIN lt_entries THEN lt_entries[k] ELSE "none"

\* An entry in a cup with a bracket refuses the release; an open entry is
\* withdrawn by it.
entries_withdrawable(ks) == \A k \in ks : EntryOf(k) # "bracket"
withdraw_open_cup_entries(ks) ==
    lt_entries' = [k \in DOMAIN lt_entries |->
                       IF k \in ks /\ lt_entries[k] = "open" THEN "withdrawn" ELSE lt_entries[k]]

\* Mutant: the status changes and the seats are left alone.
KeepSeats(ks, st, at) == UNCHANGED lt_seats

release_seats(ks, st, at) ==
    lt_seats' = [c \in DOMAIN lt_seats |->
                    IF <<c[1], c[2]>> \in ks /\ lt_seats[c].st = "active"
                    THEN [lt_seats[c] EXCEPT !.st = st, !.at = at]
                    ELSE lt_seats[c]]

\* created_at of a team's next registration.
NextBorn(t) ==
    LET born == {lt_regs[k].born : k \in {j \in DOMAIN lt_regs : j[1] = t}} IN
    CHOOSE n \in 1 .. Cardinality(LtSeasons) + 2 : n \notin born /\ \A m \in born : m < n

----------------------------------------------------------------------------
(* Founding a team, and registering one for another season. *)

create_team(t, s, x) ==
    /\ can_register_team(s)
    /\ ~SeasonOver(lt_seasons[s].status)
    /\ ensure_league_member(s, x)
    /\ count_teams(s) < lt_seasons[s].max_teams
    /\ PrimaryTeams(s, x) = {}
    /\ t \notin DOMAIN lt_teams

\* POST league-seasons/{id}/teams.
CreateTeam(p) ==
    /\ LtAllowed("create")
    /\ \E t \in LtTeams, s \in LtSeasons, x \in LtPlayers :
         /\ create_team(t, s, x)
         /\ Request(p, [pc |-> "found", roster |-> <<t, s>>, player |-> x])
    /\ UNCHANGED ltTables

\* Team, registration, captain's seat and the owner's grant commit together;
\* a taken name or the primary-seat index rolls all of it back.
create_team_with_season_and_captain(p) ==
    /\ At(p, "found")
    /\ LET k == req[p].roster  x == req[p].player IN
         IF k[1] \notin DOMAIN lt_teams /\ one_primary_team_per_season(k, x, "captain")
         THEN /\ lt_teams' = (k[1] :> [league |-> LtLeagueOf[k[2]], owner |-> x,
                                       status |-> "active", archived |-> FALSE,
                                       archives |-> 0]) @@ lt_teams
              /\ lt_regs' = (k :> [status |-> "forming", born |-> NextBorn(k[1])]) @@ lt_regs
              /\ seat_member(k, x, "captain")
              /\ lt_grants' = (k[1] :> {x}) @@ lt_grants
         ELSE UNCHANGED <<lt_teams, lt_regs, lt_seats, lt_grants>>
    /\ Finish(p)
    /\ UNCHANGED <<lt_seasons, lt_invites, lt_entries, lt_enrolled, lt_audits>>

register_for_season(t, s, x) ==
    /\ lt_teams[t].league = LtLeagueOf[s]
    /\ lt_teams[t].status # "disbanded"
    /\ ~lt_teams[t].archived
    /\ can_register_team(s)
    /\ ensure_league_member(s, x)
    /\ ~SeasonOver(lt_seasons[s].status)
    /\ <<t, s>> \notin DOMAIN lt_regs
    /\ PrimaryTeams(s, x) = {}
    /\ count_teams(s) < lt_seasons[s].max_teams

\* The owner enters the team in another season of its league.
RegisterForSeason(p) ==
    /\ LtAllowed("register")
    /\ \E t \in DOMAIN lt_teams, s \in LtSeasons :
         /\ lt_teams[t].owner \in lt_grants[t]
         /\ register_for_season(t, s, lt_teams[t].owner)
         /\ Request(p, [pc |-> "enter", roster |-> <<t, s>>, player |-> lt_teams[t].owner])
    /\ UNCHANGED ltTables

create_with_captain(p) ==
    /\ At(p, "enter")
    /\ LET k == req[p].roster  x == req[p].player IN
         IF k \notin DOMAIN lt_regs /\ one_primary_team_per_season(k, x, "captain")
         THEN /\ lt_regs' = (k :> [status |-> "forming", born |-> NextBorn(k[1])]) @@ lt_regs
              /\ seat_member(k, x, "captain")
         ELSE UNCHANGED <<lt_regs, lt_seats>>
    /\ Finish(p)
    /\ UNCHANGED <<lt_seasons, lt_teams, lt_grants, lt_invites, lt_entries, lt_enrolled,
                   lt_audits>>

----------------------------------------------------------------------------
(* Changing an existing roster.  A captain of the roster or a platform     *)
(* admin may; only an admin may carry a roster-lock override, which a      *)
(* scenario grants with "override".  The first step ends with the lock.    *)

LtOverride == IF LtAllowed("override") THEN BOOLEAN ELSE {FALSE}

\* The league's entry requirements are checked on the player named, and the cap on
\* the total with this player added.
check_roster_addition(k, x) ==
    /\ x \in LtEligible
    /\ MapThenSumSet(LAMBDA y : LtRating[y], LtMembers(k) \cup {x}) <= scenario.total_cap

AddMember(p) ==
    /\ LtAllowed("add")
    /\ \E k \in DOMAIN lt_regs, x \in LtPlayers, role \in LeagueTeamRole, o \in LtOverride :
         /\ check_roster_addition(k, x)
         /\ enforce_roster_lock(k, role, o)
         /\ Request(p, [pc |-> "add", roster |-> k, player |-> x, role |-> role])
    /\ UNCHANGED <<lt_seasons, lt_teams, lt_regs, lt_seats, lt_grants, lt_invites,
                   lt_entries, lt_enrolled>>

\* The rest of add_member_authorized's checks.
AddMemberChecks(p) ==
    /\ At(p, "add")
    /\ LET k == req[p].roster  x == req[p].player  role == req[p].role IN
         IF /\ k \in DOMAIN lt_regs
            /\ ensure_roster_live(k)
            /\ ensure_league_member(k[2], x)
            /\ ~LtSeated(k, x)
            /\ is_primary(role) => PrimaryTeams(k[2], x) = {}
            /\ within_size(k, role)
         THEN Continue(p, [req[p] EXCEPT !.pc = "seat"])
         ELSE Finish(p)
    /\ UNCHANGED ltTables

add_member(p) ==
    /\ At(p, "seat")
    /\ IF may_seat(req[p].roster, req[p].player, req[p].role)
       THEN seat_member(req[p].roster, req[p].player, req[p].role)
       ELSE UNCHANGED lt_seats
    /\ Finish(p)
    /\ UNCHANGED <<lt_seasons, lt_teams, lt_regs, lt_grants, lt_invites, lt_entries,
                   lt_enrolled, lt_audits>>

promote_to_captain(k, x) == SeatRole(k, x) # "captain"
demote_from_captain(k, x) == SeatRole(k, x) = "captain"

\* Removing, promoting and demoting remember the member as it was found; only
\* a removal asks the roster lock for the member's role.
ChangeMember(p, op) ==
    /\ LtAllowed(op)
    /\ \E k \in DOMAIN lt_regs, o \in LtOverride :
         \E x \in LtMembers(k) :
            /\ enforce_roster_lock(k, IF op = "remove" THEN SeatRole(k, x) ELSE "role", o)
            /\ op = "promote" => promote_to_captain(k, x)
            /\ op = "demote" => demote_from_captain(k, x)
            /\ Request(p, [pc |-> op, roster |-> k, player |-> x,
                           role |-> SeatRole(k, x)])
    /\ UNCHANGED <<lt_seasons, lt_teams, lt_regs, lt_seats, lt_grants, lt_invites,
                   lt_entries, lt_enrolled>>

RemoveMember(p) == ChangeMember(p, "remove")
PromoteToCaptain(p) == ChangeMember(p, "promote")
DemoteFromCaptain(p) == ChangeMember(p, "demote")

\* A captain may only go while another one is counted.
LastCaptain(k) == Cardinality(Captains(k)) <= 1

CountCaptains(p) ==
    /\ req[p].pc \in {"remove", "demote"}
    /\ IF req[p].role = "captain" /\ LastCaptain(req[p].roster)
       THEN Finish(p)
       ELSE Continue(p, [req[p] EXCEPT !.pc = req[p].pc \o "_write"])
    /\ UNCHANGED ltTables

WriteMember(p) ==
    /\ req[p].pc \in {"remove_write", "demote_write", "promote"}
    /\ LET k == req[p].roster  x == req[p].player IN
         CASE req[p].pc = "remove_write" -> remove_member(k, x)
           [] req[p].pc = "demote_write" -> update_role(k, x, "player")
           [] req[p].pc = "promote" -> update_role(k, x, "captain")
    /\ Finish(p)
    /\ UNCHANGED <<lt_seasons, lt_teams, lt_regs, lt_grants, lt_invites, lt_entries,
                   lt_enrolled, lt_audits>>

\* A player leaves: the captains are counted first, the lock asked last.
leave_team(k, x) ==
    /\ SeatRole(k, x) = "captain" => ~LastCaptain(k)
    /\ ~refusal_reason(k[2], SeatRole(k, x))

LeaveTeam(p) ==
    /\ LtAllowed("leave")
    /\ \E k \in DOMAIN lt_regs : \E x \in LtMembers(k) :
         /\ leave_team(k, x)
         /\ Request(p, [pc |-> "remove_write", roster |-> k, player |-> x,
                        role |-> SeatRole(k, x)])
    /\ UNCHANGED ltTables

----------------------------------------------------------------------------
(* Invitations and join requests. *)

create_invitation(k, x, role) ==
    /\ ensure_roster_live(k)
    /\ ~refusal_reason(k[2], role)
    /\ ~LtSeated(k, x)
    /\ is_primary(role) => PrimaryTeams(k[2], x) = {}
    /\ \A i \in DOMAIN lt_invites :
         ~(lt_invites[i].roster = k /\ lt_invites[i].player = x /\ lt_invites[i].status = "pending")

create_join_request(k, x, role) ==
    create_invitation(k, x, role) /\ ensure_league_member(k[2], x)

InviteToTeam(p) ==
    /\ LtAllowed("invite")
    /\ \E k \in DOMAIN lt_regs, x \in LtPlayers, role \in LeagueTeamRole :
         /\ create_invitation(k, x, role)
         /\ Request(p, [pc |-> "invite", roster |-> k, player |-> x, role |-> role,
                        type |-> "invite"])
    /\ UNCHANGED ltTables

ApplyToTeam(p) ==
    /\ LtAllowed("invite")
    /\ \E k \in DOMAIN lt_regs, x \in LtPlayers, role \in LeagueTeamRole :
         /\ create_join_request(k, x, role)
         /\ Request(p, [pc |-> "invite", roster |-> k, player |-> x, role |-> role,
                        type |-> "request"])
    /\ UNCHANGED ltTables

InsertInvitation(p) ==
    /\ At(p, "invite")
    /\ lt_invites' =
         IF req[p].roster \in DOMAIN lt_regs /\ Len(lt_invites) < MaxInvites
         THEN Append(lt_invites, [roster |-> req[p].roster, player |-> req[p].player,
                                  role |-> req[p].role, type |-> req[p].type,
                                  status |-> "pending"])
         ELSE lt_invites
    /\ Finish(p)
    /\ UNCHANGED <<lt_seasons, lt_teams, lt_regs, lt_seats, lt_grants, lt_entries,
                   lt_enrolled, lt_audits>>

\* Seven days pass.
InvitationExpires ==
    /\ LtAllowed("expire")
    /\ \E i \in DOMAIN lt_invites :
         /\ lt_invites[i].status = "pending"
         /\ lt_invites' = [lt_invites EXCEPT ![i].status = "expired"]
    /\ UNCHANGED <<requestVars, lt_seasons, lt_teams, lt_regs, lt_seats, lt_grants,
                   lt_entries, lt_enrolled, lt_audits>>

\* Who answers: the invited player, or a captain for a join request.
Answerers(v) == IF v.type = "invite" THEN {v.player} ELSE Captains(v.roster)

\* The handler checks the entry requirements of the player who answers.
EntryCheckedFor(v, by) == by

accept_invitation(v) ==
    LET k == v.roster IN
    /\ v.status = "pending"
    /\ ensure_roster_live(k)
    /\ ensure_league_member(k[2], v.player)
    /\ ~refusal_reason(k[2], v.role)
    /\ is_primary(v.role) => PrimaryTeams(k[2], v.player) = {}
    /\ within_size(k, v.role)

AcceptInvitation(p) ==
    /\ LtAllowed("accept")
    /\ \E i \in DOMAIN lt_invites :
         LET v == lt_invites[i] IN
         /\ accept_invitation(v)
         /\ \E by \in Answerers(v) : check_roster_addition(v.roster, EntryCheckedFor(v, by))
         /\ Request(p, [pc |-> "accept", invite |-> i])
    /\ UNCHANGED ltTables

\* One transaction: a refused seat takes the answer back with it.
accept_and_add_member(p) ==
    /\ At(p, "accept")
    /\ LET i == req[p].invite  v == lt_invites[req[p].invite] IN
         IF may_seat(v.roster, v.player, v.role)
         THEN /\ seat_member(v.roster, v.player, v.role)
              /\ lt_invites' = [lt_invites EXCEPT ![i].status = "accepted"]
         ELSE UNCHANGED <<lt_seats, lt_invites>>
    /\ Finish(p)
    /\ UNCHANGED <<lt_seasons, lt_teams, lt_regs, lt_grants, lt_entries, lt_enrolled,
                   lt_audits>>

\* Declining wants a live invitation; cancelling (a captain's invite, the
\* applicant's request) only one that is still marked pending.
decline_invitation(v) == v.status = "pending" /\ Answerers(v) # {}
cancel_invitation(v) ==
    v.status \in {"pending", "expired"} /\ (v.type = "invite" => Captains(v.roster) # {})

RefuseInvitation(p) ==
    /\ LtAllowed("refuse")
    /\ \E i \in DOMAIN lt_invites, status \in {"declined", "cancelled"} :
         /\ IF status = "declined" THEN decline_invitation(lt_invites[i])
            ELSE cancel_invitation(lt_invites[i])
         /\ Request(p, [pc |-> "refuse", invite |-> i, status |-> status])
    /\ UNCHANGED ltTables

WriteRefusal(p) ==
    /\ At(p, "refuse")
    /\ lt_invites' = [lt_invites EXCEPT ![req[p].invite].status =
                         IF @ = "deleted" THEN @ ELSE req[p].status]
    /\ Finish(p)
    /\ UNCHANGED <<lt_seasons, lt_teams, lt_regs, lt_seats, lt_grants, lt_entries,
                   lt_enrolled, lt_audits>>

----------------------------------------------------------------------------
(* The team: archive, restore, disband, ownership, the move. *)

\* Archiving releases the seats of live registrations under its own stamp.
ArchiveTeam(p) ==
    /\ LtAllowed("archive")
    /\ \E t \in DOMAIN lt_teams :
         LET n == lt_teams[t].archives + 1  live == live_team_season_ids(t) IN
         /\ ~lt_teams[t].archived
         /\ entries_withdrawable(live)
         /\ withdraw_open_cup_entries(live)
         /\ release_seats(live, "inactive", n)
         /\ lt_teams' = [lt_teams EXCEPT ![t].archived = TRUE, ![t].archives = n]
    /\ Request(p, NoRequest)
    /\ UNCHANGED <<lt_seasons, lt_regs, lt_grants, lt_invites, lt_enrolled, lt_audits>>

\* The slots of the seasons it comes back to must still be free.
restore_capacity_check(t) ==
    \A k \in live_team_season_ids(t) :
        Cardinality({j \in DOMAIN lt_regs :
            /\ j[2] = k[2] /\ j[1] # t
            /\ lt_regs[j].status \notin {"withdrawn", "disqualified"}
            /\ ~lt_teams[j[1]].archived
            /\ lt_teams[j[1]].status # "disbanded"}) < lt_seasons[k[2]].max_teams

\* A seat of this archive comes back unless its player has since taken a
\* primary seat in the same season.
Comes(c, t, live) ==
    /\ c[1] = t /\ <<c[1], c[2]>> \in live
    /\ lt_seats[c].st = "inactive"
    /\ lt_seats[c].at = lt_teams[t].archives
    /\ is_primary(lt_seats[c].role) => PrimaryTeams(c[2], c[3]) = {}

RestoreTeam(p) ==
    /\ LtAllowed("archive")
    /\ \E t \in DOMAIN lt_teams :
         LET live == live_team_season_ids(t) IN
         /\ lt_teams[t].archived
         /\ restore_capacity_check(t)
         /\ lt_seats' = [c \in DOMAIN lt_seats |->
                            IF Comes(c, t, live) THEN Seat(lt_seats[c].role) ELSE lt_seats[c]]
         /\ lt_teams' = [lt_teams EXCEPT ![t].archived = FALSE]
    /\ Request(p, NoRequest)
    /\ UNCHANGED <<lt_seasons, lt_regs, lt_grants, lt_invites, lt_entries, lt_enrolled,
                   lt_audits>>

disband_team(t) == lt_teams[t].status # "disbanded"

DisbandTeam(p) ==
    /\ LtAllowed("disband")
    /\ \E t \in DOMAIN lt_teams :
         /\ disband_team(t)
         /\ Request(p, [pc |-> "disband", team |-> t])
    /\ UNCHANGED ltTables

\* update_status(Disbanded): the team withdraws from every live season.
WriteDisbanded(p) ==
    /\ At(p, "disband")
    /\ LET t == req[p].team  live == live_team_season_ids(req[p].team) IN
         IF entries_withdrawable(live)
         THEN /\ withdraw_open_cup_entries(live)
              /\ release_seats(live, "left", 0)
              /\ lt_regs' = [k \in DOMAIN lt_regs |->
                                IF k \in live THEN [lt_regs[k] EXCEPT !.status = "withdrawn"]
                                ELSE lt_regs[k]]
              /\ lt_teams' = [lt_teams EXCEPT ![t].status = "disbanded"]
         ELSE UNCHANGED <<lt_entries, lt_seats, lt_regs, lt_teams>>
    /\ Finish(p)
    /\ UNCHANGED <<lt_seasons, lt_grants, lt_invites, lt_enrolled, lt_audits>>

\* Any player may be named the new owner.
TransferOwnership(p) ==
    /\ LtAllowed("transfer")
    /\ \E t \in DOMAIN lt_teams, x \in LtPlayers :
         Request(p, [pc |-> "transfer", team |-> t, from |-> lt_teams[t].owner, to |-> x])
    /\ UNCHANGED ltTables

\* The outgoing owner is read under the row lock: revoke, then grant.
MovedGrant(r) == (lt_grants[r.team] \ {lt_teams[r.team].owner}) \cup {r.to}

transfer_ownership(p) ==
    /\ At(p, "transfer")
    /\ lt_grants' = [lt_grants EXCEPT ![req[p].team] = MovedGrant(req[p])]
    /\ lt_teams' = [lt_teams EXCEPT ![req[p].team].owner = req[p].to]
    /\ Finish(p)
    /\ UNCHANGED <<lt_seasons, lt_regs, lt_seats, lt_invites, lt_entries, lt_enrolled,
                   lt_audits>>

\* The move of a team that has played nothing to a season of another league.
move_team_to_league(t, s) == lt_teams[t].league # LtLeagueOf[s]

MoveTeam(p) ==
    /\ LtAllowed("move")
    /\ \E t \in DOMAIN lt_teams, s \in LtSeasons :
         /\ move_team_to_league(t, s)
         /\ Request(p, [pc |-> "move", roster |-> <<t, s>>])
    /\ UNCHANGED ltTables

Latest(t) == CHOOSE k \in DOMAIN lt_regs :
                 k[1] = t /\ \A j \in DOMAIN lt_regs : j[1] = t => lt_regs[j].born <= lt_regs[k].born

\* What the cascade from the team's deleted registrations leaves.
SeatsLeft(t) == {c \in DOMAIN lt_seats : c[1] # t}

\* The target season gets the newest roster's members; every other
\* registration of the team goes, and its seats, invitations and entries
\* with it.  A member with a primary seat in the target season stops it.
move_to_league(p) ==
    /\ At(p, "move")
    /\ LET k == req[p].roster
           t == k[1]
           mine == {j \in DOMAIN lt_regs : j[1] = t}
           carried == LtMembers(Latest(t))
       IN IF /\ entries_withdrawable(mine)
             /\ k \notin DOMAIN lt_regs
             /\ \A x \in carried : one_primary_team_per_season(k, x, SeatRole(Latest(t), x))
          THEN /\ lt_teams' = [lt_teams EXCEPT ![t].league = LtLeagueOf[k[2]]]
               /\ lt_regs' = (k :> [status |-> "registered", born |-> 1])
                             @@ [j \in DOMAIN lt_regs \ mine |-> lt_regs[j]]
               /\ lt_seats' = [c \in {<<t, k[2], x>> : x \in carried} |->
                                   Seat(SeatRole(Latest(t), c[3]))]
                              @@ [c \in SeatsLeft(t) |-> lt_seats[c]]
               /\ lt_entries' = [j \in DOMAIN lt_entries \ mine |-> lt_entries[j]]
               /\ lt_invites' = [i \in DOMAIN lt_invites |->
                                    IF lt_invites[i].roster \in mine
                                    THEN [lt_invites[i] EXCEPT !.status = "deleted"]
                                    ELSE lt_invites[i]]
          ELSE UNCHANGED <<lt_teams, lt_regs, lt_seats, lt_entries, lt_invites>>
    /\ Finish(p)
    /\ UNCHANGED <<lt_seasons, lt_grants, lt_enrolled, lt_audits>>

----------------------------------------------------------------------------
(* The season, the league and the cups. *)

\* PATCH of a season: status and lock are validated against what was read, the lock
\* against the status the request moves to; the limits are not compared with the
\* teams and rosters there are.
update_season(s, set) ==
    LET read == lt_seasons[s]
        status == IF "status" \in DOMAIN set THEN set["status"] ELSE read.status IN
    /\ status \in allowed_transitions(read.status) \cup {read.status}
    /\ SeasonOver(status) /\ "lock" \in DOMAIN set => set["lock"] = "open"

\* Of the fields a request may give: status and lock together or one of them, or
\* one limit.
SeasonPatches ==
    LET statuses == {"status" :> st : st \in SeasonStatus}
        locks == {"lock" :> lock : lock \in RosterLockStatus} IN
    statuses \cup locks \cup {x[1] @@ x[2] : x \in statuses \X locks}
LimitPatches ==
    {x[1] :> x[2] : x \in {"team_size_max", "max_substitutes", "max_teams"} \X LtLimits}

UpdateSeason(p) ==
    /\ \E s \in LtSeasons, set \in SeasonPatches \cup LimitPatches :
         /\ LtAllowed(IF set \in LimitPatches THEN "limits" ELSE "season")
         /\ update_season(s, set)
         /\ Request(p, [pc |-> "season", season |-> s, set |-> set])
    /\ UNCHANGED ltTables

\* COALESCE: an absent field leaves the column as the write finds it.
WriteSeason(p) ==
    LET set == req[p].set
        row == lt_seasons[req[p].season] IN
    /\ At(p, "season")
    /\ lt_seasons' = [lt_seasons EXCEPT ![req[p].season] =
            [f \in DOMAIN row |-> IF f \in DOMAIN set THEN set[f] ELSE row[f]]]
    /\ Finish(p)
    /\ UNCHANGED <<lt_teams, lt_regs, lt_seats, lt_grants, lt_invites, lt_entries,
                   lt_enrolled, lt_audits>>

\* Archiving a season touches nothing else.
SetSeasonArchived(p) ==
    /\ LtAllowed("season_archive")
    /\ \E s \in LtSeasons :
         lt_seasons' = [lt_seasons EXCEPT ![s].archived = ~@]
    /\ Request(p, NoRequest)
    /\ UNCHANGED <<lt_teams, lt_regs, lt_seats, lt_grants, lt_invites, lt_entries,
                   lt_enrolled, lt_audits>>

\* A player leaves a league; the seats on its rosters stay.
LeaveLeague(p) ==
    /\ LtAllowed("leave_league")
    /\ \E l \in LtLeagues : \E x \in lt_enrolled[l] :
         lt_enrolled' = [lt_enrolled EXCEPT ![l] = @ \ {x}]
    /\ Request(p, NoRequest)
    /\ UNCHANGED <<lt_seasons, lt_teams, lt_regs, lt_seats, lt_grants, lt_invites,
                   lt_entries, lt_audits>>

\* A roster enters a cup (live_entry), and the cup draws its bracket.
EnterCup(p) ==
    /\ LtAllowed("cup")
    /\ \E k \in DOMAIN lt_regs :
         /\ ensure_roster_live(k)
         /\ EntryOf(k) = "none"
         /\ lt_entries' = (k :> "open") @@ lt_entries
    /\ Request(p, NoRequest)
    /\ UNCHANGED <<lt_seasons, lt_teams, lt_regs, lt_seats, lt_grants, lt_invites,
                   lt_enrolled, lt_audits>>

CupDrawsBracket ==
    /\ LtAllowed("cup")
    /\ \E k \in DOMAIN lt_entries :
         /\ lt_entries[k] = "open"
         /\ lt_entries' = [lt_entries EXCEPT ![k] = "bracket"]
    /\ UNCHANGED <<requestVars, lt_seasons, lt_teams, lt_regs, lt_seats, lt_grants,
                   lt_invites, lt_enrolled, lt_audits>>

LtDie(p) == Die(p) /\ UNCHANGED ltTables

LtStep(p) ==
    \/ CreateTeam(p) \/ create_team_with_season_and_captain(p)
    \/ RegisterForSeason(p) \/ create_with_captain(p)
    \/ AddMember(p) \/ AddMemberChecks(p) \/ add_member(p)
    \/ RemoveMember(p) \/ PromoteToCaptain(p) \/ DemoteFromCaptain(p)
    \/ CountCaptains(p) \/ WriteMember(p) \/ LeaveTeam(p)
    \/ InviteToTeam(p) \/ ApplyToTeam(p) \/ InsertInvitation(p)
    \/ AcceptInvitation(p) \/ accept_and_add_member(p)
    \/ RefuseInvitation(p) \/ WriteRefusal(p)
    \/ ArchiveTeam(p) \/ RestoreTeam(p)
    \/ DisbandTeam(p) \/ WriteDisbanded(p)
    \/ TransferOwnership(p) \/ transfer_ownership(p)
    \/ MoveTeam(p) \/ move_to_league(p)
    \/ UpdateSeason(p) \/ WriteSeason(p) \/ SetSeasonArchived(p)
    \/ LeaveLeague(p) \/ EnterCup(p)
    \/ LtDie(p)

LtNext == InvitationExpires \/ CupDrawsBracket \/ \E p \in Users : LtStep(p)

LtSpec == RequestsInit /\ LtInit /\ [][LtNext]_ltVars

----------------------------------------------------------------------------
(* Properties. *)

\* The rows: seasons, teams, a team's season, seats, invitations and requests.
LeagueSeasonRow ==
    [status : SeasonStatus, lock : RosterLockStatus, archived : BOOLEAN,
     team_size_max : Nat, max_substitutes : Nat, max_teams : Nat]
LeagueTeamRow ==
    [league : LtLeagues, owner : LtPlayers, status : {"active", "disbanded"}, archived : BOOLEAN,
     archives : Nat]
LeagueTeamSeasonStatus ==
    {"forming", "pending", "registered", "active", "eliminated", "disqualified", "withdrawn"}
LeagueTeamSeasonRow == [status : LeagueTeamSeasonStatus, born : Nat]
LeagueTeamMemberRow == [role : LeagueTeamRole, st : {"active", "left", "inactive"}, at : Nat]
\* "deleted" marks a row that went with its roster.
LeagueTeamInvitationStatus ==
    {"pending", "accepted", "declined", "expired", "cancelled", "deleted"}
LeagueTeamInvitationRow ==
    [roster : LtTeams \X LtSeasons, player : LtPlayers, role : LeagueTeamRole,
     type : {"invite", "request"}, status : LeagueTeamInvitationStatus]

\* Every row points at rows that exist.
LtTypeOK ==
    /\ DOMAIN lt_teams = DOMAIN lt_grants
    /\ \A s \in DOMAIN lt_seasons : lt_seasons[s] \in LeagueSeasonRow
    /\ \A t \in DOMAIN lt_teams : lt_teams[t] \in LeagueTeamRow
    /\ \A k \in DOMAIN lt_regs : k[1] \in DOMAIN lt_teams /\ lt_regs[k] \in LeagueTeamSeasonRow
    /\ \A c \in DOMAIN lt_seats :
         /\ <<c[1], c[2]>> \in DOMAIN lt_regs
         /\ lt_seats[c] \in LeagueTeamMemberRow
         /\ lt_seats[c].st = "inactive" => lt_seats[c].at \in 1 .. lt_teams[c[1]].archives
    /\ DOMAIN lt_entries \subseteq DOMAIN lt_regs
    /\ \A i \in DOMAIN lt_invites :
         /\ lt_invites[i] \in LeagueTeamInvitationRow
         /\ lt_invites[i].status # "deleted" => lt_invites[i].roster \in DOMAIN lt_regs

\* However founding, registering, adding, accepting, promoting, restoring
\* and moving interleave, a player holds one primary seat in a season
\* (idx_one_primary_team_per_season).
OnePrimaryTeam ==
    \A s \in DOMAIN lt_seasons, x \in LtPlayers : Cardinality(PrimaryTeams(s, x)) <= 1

\* The team_captain grant, which the owner-gated endpoints check, is held by
\* the owner and by nobody else, however transfers race (transfer_ownership).
GrantFollowsOwner ==
    \A t \in DOMAIN lt_teams : lt_grants[t] = {lt_teams[t].owner}

\* A roster that takes part has a captain, unless its team was put away and
\* restored after its captain had joined another one (the last-captain
\* checks of remove, demote and leave).  Served one request at a time.
CaptainRemains ==
    (scenario.of = "teams" /\ scenario.serial) =>
        \A k \in DOMAIN lt_regs :
            (ensure_roster_live(k) /\ lt_teams[k[1]].archives = 0) => Captains(k) # {}

\* Nobody's primary seat of a running season is spent on a team that is
\* disbanded or archived, or has withdrawn from it (roster_release).
\* Served one request at a time.
GoneTeamHoldsNobody ==
    (scenario.of = "teams" /\ scenario.serial) =>
        \A k \in DOMAIN lt_regs :
            (~SeasonOver(lt_seasons[k[2]].status)
               /\ (lt_teams[k[1]].status = "disbanded" \/ lt_teams[k[1]].archived
                     \/ RegOver(lt_regs[k].status)))
            => LtMembers(k) = {}

\* A season takes no team beyond its max_teams, also when an archived team comes
\* back (count_teams, restore_capacity_check); one that is lowered later excludes
\* nobody.  Served one request at a time, and without the administrative move.
SeasonWithinCapacity ==
    (scenario.of = "teams" /\ scenario.serial /\ "move" \notin scenario.ops) =>
        \A s \in LtSeasons :
            count_teams(s)' > count_teams(s) => count_teams(s)' <= lt_seasons[s].max_teams

\* The roster of a finished season is the record of who played it: no step changes
\* it unless an override is on record for it.  (refusal_reason says of the refusal
\* that "an admin override cannot buy past this either"; enforce_roster_lock lets
\* an override pass every refusal, and leaves the audit row.)
FinishedRosterIsHistory ==
    \A s \in DOMAIN lt_seasons :
          (SeasonOver(lt_seasons[s].status) /\ scenario.serial) =>
             \A k \in DOMAIN lt_regs :
                 k[2] = s /\ k \notin lt_audits
                    => LtMembers(k)' = LtMembers(k) /\ Captains(k)' = Captains(k)

\* Teams, seasons and rosters agree on who belongs where.
RostersAreSound ==
    LtTypeOK /\ OnePrimaryTeam /\ GrantFollowsOwner /\ CaptainRemains /\ GoneTeamHoldsNobody

=============================================================================
