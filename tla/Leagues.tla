------------------------------ MODULE Leagues ------------------------------
(***************************************************************************)
(* Leagues: founding and updating one, archive and restore, joining,       *)
(* leaving, roles of members, invitations and applications, and the entry  *)
(* requirements a league keeps in its settings and imposes on rosters and  *)
(* on its cups.  A league stands for its own slug; the cup and the roster  *)
(* are the one cup and the one team whose entry the rules decide.          *)
(***************************************************************************)
EXTENDS Requests, Eligibility, Sequences, TLC

CONSTANTS
    LgUsers,        \* the users, each with the one player of the account
    LgLeagues,      \* the leagues that may be founded
    LgData,         \* user -> what the rating tables say of the player
    LgRules,        \* the restriction sets an organiser may store
    MaxLgInvites    \* bound: invitations and applications ever created

VARIABLES
    lg_leagues,     \* founded league -> [access, status, archived, settings], and whether
                    \* it was ever open
    lg_members,     \* <<league, user>> -> membership_type
    lg_invites,     \* sequence of [league, user, type, status]
    lg_grants,      \* <<user, league>> with the scoped league_admin role
    lg_cup,         \* [league, rules, entered]: a cup of the league
    lg_roster       \* the team's members, by user

lgTables == <<lg_leagues, lg_members, lg_invites, lg_grants, lg_cup, lg_roster>>
lgVars == <<requestVars, lgTables>>

ASSUME LeaguesAssumption ==
    /\ DOMAIN LgData = LgUsers
    /\ \A x \in LgUsers : IsPlayerData(LgData[x])
    /\ \A r \in LgRules : IsRestrictions(r) /\ ~unsatisfiable(r)
    /\ MaxLgInvites \in Nat

----------------------------------------------------------------------------
(* The tables' columns. *)

LeagueAccessType == {"open", "invite_only", "application"}
LeagueStatus == {"active", "archived", "suspended"}
LeagueMembershipType == {"admin", "moderator", "member"}
LeagueInvitationType == {"invite", "application"}
LeagueInvitationStatus == {"pending", "accepted", "rejected"}
SettingKeys == {"eligibility", "side_selection_mode"}

LgAllowed(op) == scenario.of = "leagues" /\ op \in scenario.ops

\* One founded league with the scenario's members.
LgInit ==
    IF scenario.of # "leagues"
    THEN /\ lg_leagues = << >> /\ lg_members = << >> /\ lg_invites = << >>
         /\ lg_grants = {} /\ lg_cup = << >> /\ lg_roster = {}
    ELSE LET l == scenario.league IN
         /\ lg_leagues = (l :> [access |-> scenario.access, status |-> "active",
                                archived |-> FALSE, opened |-> scenario.access = "open",
                                settings |-> ("side_selection_mode" :> "knife")])
         /\ lg_members = [k \in {<<l, u>> : u \in DOMAIN scenario.members} |->
                            scenario.members[k[2]]]
         /\ lg_invites = << >>
         /\ lg_grants = {<<u, l>> : u \in {v \in DOMAIN scenario.members :
                                            scenario.members[v] = "admin"}}
         /\ lg_cup = [league |-> l, rules |-> Unrestricted, entered |-> FALSE]
         /\ lg_roster = {}

----------------------------------------------------------------------------
(* What the services ask before they write. *)

lg_is_member(l, u) == <<l, u>> \in DOMAIN lg_members
find_member(l, u) == lg_members[l, u]
LgAdmins(l) == {u \in LgUsers : lg_is_member(l, u) /\ find_member(l, u) = "admin"}
count_admins(l) == Cardinality(LgAdmins(l))

find_pending_invite(l, u) ==
    {i \in DOMAIN lg_invites : /\ lg_invites[i].league = l
                               /\ lg_invites[i].user = u
                               /\ lg_invites[i].status = "pending"}

\* An archived or suspended league takes no new members.
ensure_accepting_members(l) ==
    ~lg_leagues[l].archived /\ lg_leagues[l].status = "active"

\* The scoped grant of the league, or the platform's staff.
require_league_permission(u, l) == <<u, l>> \in lg_grants \/ u \in scenario.staff

\* The restrictions under the settings' "eligibility" key.
from_settings(settings) ==
    IF "eligibility" \in DOMAIN settings THEN settings["eligibility"] ELSE Unrestricted

LeagueRules(l) == from_settings(lg_leagues[l].settings)

\* The per-player rules, asked by the handlers of join and apply.
check_league_entry_requirements(l, u) ==
    check_player_eligibility(LeagueRules(l), LgData[u])

\* A cup may tighten its league's rules, never loosen them.
effective_restrictions == intersect(lg_cup.rules, LeagueRules(lg_cup.league))

\* The league's archive is inherited by its cups.
ensure_league_live(l) == ~lg_leagues[l].archived

----------------------------------------------------------------------------
(* Founding, updating, archiving. *)

\* create_league: the slug is free when it is looked up.
CreateLeague(p, u, l) ==
    /\ LgAllowed("create")
    /\ l \notin DOMAIN lg_leagues
    /\ \E access \in LeagueAccessType :
          Request(p, [pc |-> "lg_create", user |-> u, league |-> l, access |-> access])
    /\ UNCHANGED lgTables

\* The row, under the unique slug.
InsertLeague(p) ==
    /\ At(p, "lg_create")
    /\ LET l == req[p].league IN
       IF l \in DOMAIN lg_leagues
       THEN Finish(p) /\ UNCHANGED lg_leagues
       ELSE /\ lg_leagues' = lg_leagues @@
                (l :> [access |-> req[p].access, status |-> "active", archived |-> FALSE,
                       opened |-> req[p].access = "open", settings |-> << >>])
            /\ Continue(p, [req[p] EXCEPT !.pc = "lg_founder"])
    /\ UNCHANGED <<lg_members, lg_invites, lg_grants, lg_cup, lg_roster>>

\* The insert of a membership: one row per league and user.
InsertMember(l, u, type) ==
    /\ ~lg_is_member(l, u)
    /\ lg_members' = lg_members @@ (<<l, u>> :> type)

\* The creator becomes the founding admin.
InsertFounder(p) ==
    /\ At(p, "lg_founder")
    /\ InsertMember(req[p].league, req[p].user, "admin")
    /\ Continue(p, [req[p] EXCEPT !.pc = "lg_grant"])
    /\ UNCHANGED <<lg_leagues, lg_invites, lg_grants, lg_cup, lg_roster>>

\* The founder's scoped role; a failure is logged and the league stands.
GrantFounder(p) ==
    /\ At(p, "lg_grant")
    /\ lg_grants' \in {lg_grants, lg_grants \cup {<<req[p].user, req[p].league>>}}
    /\ Finish(p)
    /\ UNCHANGED <<lg_leagues, lg_members, lg_invites, lg_cup, lg_roster>>

\* A patch names the keys it sets and, by null, those it clears.
Patches ==
    {[set |-> ("eligibility" :> r), unset |-> {}] : r \in LgRules}
    \cup {[set |-> ("side_selection_mode" :> "vote"), unset |-> {}],
          [set |-> << >>, unset |-> {"eligibility"}]}

\* Keys of the patch replace or remove, the others are kept.
shallow_merge(stored, patch) ==
    [k \in (DOMAIN stored \cup DOMAIN patch.set) \ patch.unset |->
        IF k \in DOMAIN patch.set THEN patch.set[k] ELSE stored[k]]

\* update_league: the settings are merged over the row that was just read; of the
\* fields an update may give, one at a time.
UpdateLeague(p, u, l) ==
    /\ LgAllowed("update")
    /\ l \in DOMAIN lg_leagues
    /\ require_league_permission(u, l)
    /\ \E set \in {"settings" :> shallow_merge(lg_leagues[l].settings, patch) : patch \in Patches}
                     \cup {"status" :> st : st \in LeagueStatus}
                     \cup {"access" :> access : access \in LeagueAccessType} :
          Request(p, [pc |-> "lg_update", league |-> l, set |-> set])
    /\ UNCHANGED lgTables

\* COALESCE: what the update gives is written, the settings as a whole.
WriteLeague(p) ==
    LET set == req[p].set
        row == lg_leagues[req[p].league] IN
    /\ At(p, "lg_update")
    /\ lg_leagues' = [lg_leagues EXCEPT ![req[p].league] =
            [f \in DOMAIN row |->
                IF f \in DOMAIN set THEN set[f]
                ELSE IF f = "opened" /\ "access" \in DOMAIN set
                THEN row.opened \/ set["access"] = "open"
                ELSE row[f]]]
    /\ Finish(p)
    /\ UNCHANGED <<lg_members, lg_invites, lg_grants, lg_cup, lg_roster>>

set_archived(l, to) == lg_leagues' = [lg_leagues EXCEPT ![l].archived = to]

ArchiveLeague(p, u, l) ==
    /\ LgAllowed("archive")
    /\ l \in DOMAIN lg_leagues
    /\ require_league_permission(u, l)
    /\ set_archived(l, TRUE)
    /\ Request(p, NoRequest)
    /\ UNCHANGED <<lg_members, lg_invites, lg_grants, lg_cup, lg_roster>>

RestoreLeague(p, u, l) ==
    /\ LgAllowed("archive")
    /\ l \in DOMAIN lg_leagues
    /\ require_league_permission(u, l)
    /\ set_archived(l, FALSE)
    /\ Request(p, NoRequest)
    /\ UNCHANGED <<lg_members, lg_invites, lg_grants, lg_cup, lg_roster>>

----------------------------------------------------------------------------
(* Members. *)

join_league(l, u) ==
    /\ ensure_accepting_members(l)
    /\ lg_leagues[l].access = "open"
    /\ ~lg_is_member(l, u)

JoinLeague(p, u, l) ==
    /\ LgAllowed("join")
    /\ l \in DOMAIN lg_leagues
    /\ check_league_entry_requirements(l, u)
    /\ join_league(l, u)
    /\ Request(p, [pc |-> "lg_join", league |-> l, user |-> u])
    /\ UNCHANGED lgTables

\* The membership row, or the error of its unique index.
add_league_member(p) ==
    /\ At(p, "lg_join")
    /\ \/ InsertMember(req[p].league, req[p].user, "member")
       \/ lg_is_member(req[p].league, req[p].user) /\ UNCHANGED lg_members
    /\ Finish(p)
    /\ UNCHANGED <<lg_leagues, lg_invites, lg_grants, lg_cup, lg_roster>>

\* The last admin neither goes nor steps down.
AnotherAdmin(l, u) == find_member(l, u) = "admin" => count_admins(l) > 1

leave_league(l, u) == lg_is_member(l, u) /\ AnotherAdmin(l, u)

LeaveMembership(p, u, l) ==
    /\ LgAllowed("leave")
    /\ leave_league(l, u)
    /\ Request(p, [pc |-> "lg_remove", league |-> l, user |-> u])
    /\ UNCHANGED lgTables

\* remove_member_authorized, on a manager's request.
RemoveLeagueMember(p, u, l, target) ==
    /\ LgAllowed("manage")
    /\ require_league_permission(u, l)
    /\ leave_league(l, target)
    /\ Request(p, [pc |-> "lg_remove", league |-> l, user |-> target])
    /\ UNCHANGED lgTables

remove_league_member(p) ==
    /\ At(p, "lg_remove")
    /\ lg_members' = [k \in DOMAIN lg_members \ {<<req[p].league, req[p].user>>} |->
                        lg_members[k]]
    /\ Finish(p)
    /\ UNCHANGED <<lg_leagues, lg_invites, lg_grants, lg_cup, lg_roster>>

update_member_role_authorized(l, target, role) ==
    /\ lg_is_member(l, target)
    /\ role # "admin" => AnotherAdmin(l, target)

UpdateMemberRole(p, u, l, target, role) ==
    /\ LgAllowed("manage")
    /\ require_league_permission(u, l)
    /\ update_member_role_authorized(l, target, role)
    /\ Request(p, [pc |-> "lg_role", league |-> l, user |-> target, role |-> role])
    /\ UNCHANGED lgTables

\* An update by key: a member who left meanwhile is an error.
update_membership_type(p) ==
    /\ At(p, "lg_role")
    /\ IF lg_is_member(req[p].league, req[p].user)
       THEN lg_members' = [lg_members EXCEPT ![req[p].league, req[p].user] = req[p].role]
       ELSE UNCHANGED lg_members
    /\ Finish(p)
    /\ UNCHANGED <<lg_leagues, lg_invites, lg_grants, lg_cup, lg_roster>>

----------------------------------------------------------------------------
(* Invitations and applications. *)

apply_to_league(l, u) ==
    /\ ensure_accepting_members(l)
    /\ lg_leagues[l].access = "application"
    /\ ~lg_is_member(l, u)
    /\ find_pending_invite(l, u) = {}

ApplyToLeague(p, u, l) ==
    /\ LgAllowed("apply")
    /\ l \in DOMAIN lg_leagues
    /\ check_league_entry_requirements(l, u)
    /\ apply_to_league(l, u)
    /\ Len(lg_invites) < MaxLgInvites
    /\ Request(p, [pc |-> "lg_invite", league |-> l, user |-> u, type |-> "application"])
    /\ UNCHANGED lgTables

\* An invitation is sent by a closed league, too.
invite_user_authorized(l, target) ==
    /\ ~lg_is_member(l, target)
    /\ find_pending_invite(l, target) = {}

InviteUser(p, u, l, target) ==
    /\ LgAllowed("invite")
    /\ l \in DOMAIN lg_leagues
    /\ require_league_permission(u, l)
    /\ invite_user_authorized(l, target)
    /\ Len(lg_invites) < MaxLgInvites
    /\ Request(p, [pc |-> "lg_invite", league |-> l, user |-> target, type |-> "invite"])
    /\ UNCHANGED lgTables

\* No index keeps a second pending row away.
create_league_invitation(p) ==
    /\ At(p, "lg_invite")
    /\ lg_invites' = Append(lg_invites,
            [league |-> req[p].league, user |-> req[p].user, type |-> req[p].type,
             status |-> "pending"])
    /\ Finish(p)
    /\ UNCHANGED <<lg_leagues, lg_members, lg_grants, lg_cup, lg_roster>>

\* Pending, or accepted with the membership missing: the recovery of a
\* write that stopped halfway.
accept_league_invitation(i) ==
    LET inv == lg_invites[i] IN
    /\ ensure_accepting_members(inv.league)
    /\ \/ inv.status = "pending"
       \/ inv.status = "accepted" /\ ~lg_is_member(inv.league, inv.user)

\* The same questions, whoever answers.
approve_application_authorized(i) == accept_league_invitation(i)

\* By the user the row names; its type is not looked at.
AcceptLeagueInvitation(p, i) ==
    /\ LgAllowed("accept")
    /\ accept_league_invitation(i)
    /\ Request(p, [pc |-> "lg_accept", invite |-> i])
    /\ UNCHANGED lgTables

\* By a manager of the league in the path, which the row is not compared with.
ApproveApplication(p, u, l, i) ==
    /\ LgAllowed("approve")
    /\ require_league_permission(u, l)
    /\ approve_application_authorized(i)
    /\ Request(p, [pc |-> "lg_accept", invite |-> i])
    /\ UNCHANGED lgTables

\* One transaction: the status, whatever it is by now, and the membership;
\* an existing membership rolls both back.
accept_and_add_league_member(p) ==
    LET inv == lg_invites[req[p].invite] IN
    /\ At(p, "lg_accept")
    /\ \/ /\ InsertMember(inv.league, inv.user, "member")
          /\ lg_invites' = [lg_invites EXCEPT ![req[p].invite].status = "accepted"]
       \/ /\ lg_is_member(inv.league, inv.user)
          /\ UNCHANGED <<lg_members, lg_invites>>
    /\ Finish(p)
    /\ UNCHANGED <<lg_leagues, lg_grants, lg_cup, lg_roster>>

\* Mutant: whatever became of the invitation, it can still be turned down.
DeclineAny(i) == TRUE

\* Only a pending row is turned down, by a manager or by the invited user.
reject_invitation_authorized(i) == lg_invites[i].status = "pending"
decline_league_invitation(i) == lg_invites[i].status = "pending"

RejectApplication(p, u, l, i) ==
    /\ LgAllowed("approve")
    /\ require_league_permission(u, l)
    /\ reject_invitation_authorized(i)
    /\ Request(p, [pc |-> "lg_reject", invite |-> i])
    /\ UNCHANGED lgTables

DeclineLeagueInvitation(p, i) ==
    /\ LgAllowed("accept")
    /\ decline_league_invitation(i)
    /\ Request(p, [pc |-> "lg_reject", invite |-> i])
    /\ UNCHANGED lgTables

\* The status is written by id alone.
update_invitation_status(p) ==
    /\ At(p, "lg_reject")
    /\ lg_invites' = [lg_invites EXCEPT ![req[p].invite].status = "rejected"]
    /\ Finish(p)
    /\ UNCHANGED <<lg_leagues, lg_members, lg_grants, lg_cup, lg_roster>>

----------------------------------------------------------------------------
(* The rules at work: a roster of the league is assembled and enters a cup. *)

\* The cup's own rules are part of its settings.
UpdateCupRules(p, r) ==
    /\ LgAllowed("cup")
    /\ ~lg_cup.entered
    /\ lg_cup' = [lg_cup EXCEPT !.rules = r]
    /\ Request(p, NoRequest)
    /\ UNCHANGED <<lg_leagues, lg_members, lg_invites, lg_grants, lg_roster>>

\* A joining player meets the player rules and keeps the team under the
\* total cap, the one bound no later addition can repair.
check_league_roster_addition(l, x) ==
    LET rules == LeagueRules(l) IN
    /\ check_player_eligibility(rules, LgData[x])
    /\ check_team_eligibility(team_total_cap_only(rules), LgData, lg_roster \cup {x})

AddToRoster(p, x) ==
    /\ LgAllowed("cup")
    /\ x \notin lg_roster
    /\ check_league_roster_addition(lg_cup.league, x)
    /\ lg_roster' = lg_roster \cup {x}
    /\ Request(p, NoRequest)
    /\ UNCHANGED <<lg_leagues, lg_members, lg_invites, lg_grants, lg_cup>>

\* The whole roster against the composed rules, when the team registers.
check_eligibility_for_team ==
    check_team_eligibility(effective_restrictions, LgData, lg_roster)

EnterLeagueCup(p) ==
    /\ LgAllowed("cup")
    /\ ~lg_cup.entered /\ lg_roster # {}
    /\ ensure_league_live(lg_cup.league)
    /\ check_eligibility_for_team
    /\ lg_cup' = [lg_cup EXCEPT !.entered = TRUE]
    /\ Request(p, NoRequest)
    /\ UNCHANGED <<lg_leagues, lg_members, lg_invites, lg_grants, lg_roster>>

----------------------------------------------------------------------------

LgDie(p) == scenario.of = "leagues" /\ Die(p) /\ UNCHANGED lgTables

LgArrival(p) ==
    \/ \E u \in LgUsers, l \in LgLeagues :
        \/ CreateLeague(p, u, l) \/ JoinLeague(p, u, l) \/ ApplyToLeague(p, u, l)
        \/ LeaveMembership(p, u, l)
        \/ UpdateLeague(p, u, l) \/ ArchiveLeague(p, u, l) \/ RestoreLeague(p, u, l)
        \/ \E target \in LgUsers :
            \/ RemoveLeagueMember(p, u, l, target) \/ InviteUser(p, u, l, target)
            \/ \E role \in LeagueMembershipType : UpdateMemberRole(p, u, l, target, role)
    \/ \E i \in DOMAIN lg_invites :
        \/ AcceptLeagueInvitation(p, i) \/ DeclineLeagueInvitation(p, i)
        \/ \E u \in LgUsers, l \in LgLeagues :
            ApproveApplication(p, u, l, i) \/ RejectApplication(p, u, l, i)
    \/ \E r \in LgRules : UpdateCupRules(p, r)
    \/ \E x \in LgUsers : AddToRoster(p, x)
    \/ EnterLeagueCup(p)

LgWrite(p) ==
    \/ InsertLeague(p) \/ InsertFounder(p) \/ GrantFounder(p)
    \/ WriteLeague(p)
    \/ add_league_member(p) \/ remove_league_member(p) \/ update_membership_type(p)
    \/ create_league_invitation(p) \/ accept_and_add_league_member(p)
    \/ update_invitation_status(p)

LgNext ==
    scenario.of = "leagues" /\ \E p \in Users : LgArrival(p) \/ LgWrite(p) \/ LgDie(p)

LgSpec == RequestsInit /\ LgInit /\ [][LgNext]_lgVars

----------------------------------------------------------------------------
(* Properties. *)

InLeagues == scenario.of = "leagues"
NewMembers == {k \in DOMAIN lg_members' : k \notin DOMAIN lg_members}

\* The rows of leagues and league_invitations.
IsLeagueRow(row) ==
    /\ row.access \in LeagueAccessType /\ row.status \in LeagueStatus
    /\ row.archived \in BOOLEAN /\ (row.access = "open" => row.opened)
    /\ DOMAIN row.settings \subseteq SettingKeys
LeagueInvitationRow ==
    [league : LgLeagues, user : LgUsers, type : LeagueInvitationType, status : LeagueInvitationStatus]

\* The tables hold what their columns allow, members and invitations belong
\* to leagues that exist.
LgTypeOK ==
    /\ RequestsTypeOK
    /\ DOMAIN lg_leagues \subseteq LgLeagues
    /\ \A l \in DOMAIN lg_leagues :
        IsLeagueRow(lg_leagues[l]) /\ LeagueRules(l) \in LgRules \cup {Unrestricted}
    /\ DOMAIN lg_members \subseteq (DOMAIN lg_leagues) \X LgUsers
    /\ \A k \in DOMAIN lg_members : lg_members[k] \in LeagueMembershipType
    /\ \A i \in DOMAIN lg_invites :
        lg_invites[i] \in LeagueInvitationRow /\ lg_invites[i].league \in DOMAIN lg_leagues
    /\ lg_grants \subseteq LgUsers \X LgLeagues
    /\ lg_roster \subseteq LgUsers

\* An invitation or application becomes accepted only in the step that seats
\* the user it names, who was no member before: a race that lost to another
\* way in rolls back and leaves the invitation alone.
AcceptSeats ==
    \A i \in DOMAIN lg_invites :
        lg_invites[i].status # "accepted" /\ lg_invites'[i].status = "accepted"
        => <<lg_invites[i].league, lg_invites[i].user>> \in NewMembers

\* Requests served one after the other never take the last admin away from
\* a league: not by leaving, not by removal, not by a change of role.
LeagueKeepsAdmin ==
    scenario.serial =>
        \A l \in DOMAIN lg_leagues : LgAdmins(l) # {} => LgAdmins(l)' # {}

\* Whoever is in a league that never was open, and did not found it, got in by
\* an invitation or application that reads accepted.
MembersWereLetIn ==
    InLeagues /\ scenario.serial /\ ~lg_leagues[scenario.league].opened =>
        \A k \in DOMAIN lg_members :
            \/ k[1] # scenario.league
            \/ k[2] \in DOMAIN scenario.members
            \/ \E i \in DOMAIN lg_invites :
                /\ <<lg_invites[i].league, lg_invites[i].user>> = k
                /\ lg_invites[i].status = "accepted"

\* Who enters a cup meets the cup's own rules and its league's rules, each
\* taken for itself: composing them loosens neither.
EntryMeetsBothRules ==
    InLeagues /\ lg_cup # lg_cup' /\ lg_cup'.entered =>
        /\ check_team_eligibility(lg_cup.rules, LgData, lg_roster)
        /\ check_team_eligibility(LeagueRules(lg_cup.league), LgData, lg_roster)

\* A roster the total cap refuses could never have become legal: every
\* larger roster is refused by the league's full rules as well.
RefusalIsFinal ==
    InLeagues =>
        LET rules == LeagueRules(lg_cup.league) IN
        \A roster \in SUBSET LgUsers :
            ~check_team_eligibility(team_total_cap_only(rules), LgData, roster) =>
                \A larger \in SUBSET LgUsers :
                    roster \subseteq larger =>
                        ~check_team_eligibility(rules, LgData, larger)

\* What is reported as a contradiction of a cup's and its league's rules
\* indeed excludes every roster.
ContradictionExcludesAll ==
    InLeagues /\ unsatisfiable(effective_restrictions) =>
        \A roster \in SUBSET LgUsers \ {{}} :
            ~check_team_eligibility(effective_restrictions, LgData, roster)

\* Any part of a legal roster may play: the audit of the lineup does not
\* flag it (for rules without an average cap; with one it does).
LegalRosterFieldsAnyone ==
    InLeagues =>
        LET rules == LeagueRules(lg_cup.league) IN
        rules.max_team_average_rating = {} =>
            \A roster \in SUBSET LgUsers :
                check_team_eligibility(rules, LgData, roster) =>
                    \A lineup \in SUBSET roster :
                        check_team_eligibility(without_team_minimums(rules), LgData, lineup)

\* Members of a closed league were let in, and the rules that decide who may
\* enter a cup exclude nobody they should admit and admit nobody for ever
\* excluded.
MembershipIsSound ==
    LgTypeOK /\ MembersWereLetIn /\ RefusalIsFinal /\ ContradictionExcludesAll
    /\ LegalRosterFieldsAnyone

=============================================================================
