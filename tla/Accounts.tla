------------------------------ MODULE Accounts ------------------------------
(***************************************************************************)
(* Accounts: registration, password and Steam sign-in, rotating refresh    *)
(* tokens, bans and account status, and the roles an administrator grants. *)
(* A person stands for an account's unique username and email; display     *)
(* names are the numbers of the suffixes one contested name is given.      *)
(* Every statement, and every repository transaction, is one step.         *)
(***************************************************************************)
EXTENDS Requests, Sequences, FiniteSets

CONSTANTS
    AcLocal,        \* people who register with a password
    AcSteam,        \* people who sign in through Steam
    AcRoles,        \* the roles that may exist; "user" is the default role
    AcCallers,      \* administrators, not themselves in the user table
    MaxNames        \* the longest suffix a derived display name may get

VARIABLES
    ac_users,       \* account -> its status
    ac_players,     \* account -> [name, steam]: its player row
    ac_tokens,      \* sequence of [user, session, revoked, expired]
    ac_bans,        \* sequence of [user, type, scope, temporary, ended, lifted]
    ac_roles,       \* role -> [rank, system, perms]
    ac_grants       \* <<holder, role>> -> "held" or "expired": unrevoked rows

acTables == <<ac_users, ac_players, ac_tokens, ac_bans, ac_roles, ac_grants>>
acVars == <<requestVars, acTables>>

AcPeople == AcLocal \cup AcSteam
NoSteamId == "none"
\* The roles a migration inserts.
BuiltInRoles == {"user", "platform_admin", "super_admin"}

ASSUME AccountsAssumption ==
    /\ AcLocal \cap AcSteam = {}
    /\ AcPeople \cap AcCallers = {}
    /\ "user" \in AcRoles
    /\ NoSteamId \notin AcSteam
    /\ MaxNames \in Nat \ {0}
    /\ \A s \in Scenarios : s.of = "accounts" =>
           /\ s.people \subseteq AcPeople
           /\ \A c \in DOMAIN s.callers : s.callers[c] \in BuiltInRoles

UserStatus == {"active", "inactive", "banned"}
BanType == {"platform", "league"}
\* A ban is for everything, or for one league; a platform ban may name one too.
BanScopes == {"none", "league"}

AcAllowed(op) == scenario.of = "accounts" /\ op \in scenario.ops

\* The scenario's people already have an account, the first of its callers
\* is a super admin and the others platform admins.
AcInit ==
    IF scenario.of # "accounts"
    THEN /\ ac_users = << >> /\ ac_players = << >> /\ ac_tokens = << >>
         /\ ac_bans = << >> /\ ac_roles = << >> /\ ac_grants = << >>
    ELSE /\ ac_users = [x \in scenario.people |-> "active"]
         /\ ac_players = [x \in scenario.people |->
                [name |-> 0, steam |-> IF x \in AcSteam THEN x ELSE NoSteamId]]
         /\ ac_tokens = << >>
         /\ ac_bans = << >>
         /\ ac_roles = [r \in BuiltInRoles |->
                [rank |-> IF r = "user" THEN 1 ELSE IF r = "platform_admin" THEN 3 ELSE 4,
                 system |-> TRUE,
                 perms |-> IF r = "user" THEN {} ELSE {"admin.users.manage"}]]
         /\ ac_grants = [g \in {<<x, "user">> : x \in scenario.people}
                                \cup {<<c, scenario.callers[c]>> : c \in DOMAIN scenario.callers}
                          |-> "held"]

----------------------------------------------------------------------------
(* Users and players. *)

username_exists(x) == x \in DOMAIN ac_users
is_active(x) == ac_users[x] = "active"
display_name_taken(n) == \E x \in DOMAIN ac_players : ac_players[x].name = n /\ n # 0
find_by_steam_id_64(s) == {x \in DOMAIN ac_players : ac_players[x].steam = s}

\* Zero stands for the placeholder steam_<id>, which nobody else can hold.
derive_available_display_name ==
    {n \in 1 .. MaxNames : ~display_name_taken(n) /\ \A k \in 1 .. n - 1 : display_name_taken(k)}

Inserted(table, key, row) ==
    [k \in DOMAIN table \cup {key} |-> IF k = key THEN row ELSE table[k]]
InsertUser(x) == ac_users' = Inserted(ac_users, x, "active")
InsertPlayer(x, n) == ac_players' = Inserted(ac_players, x, [name |-> n, steam |-> NoSteamId])

update_user_status(x, status) == ac_users' = [ac_users EXCEPT ![x] = status]

----------------------------------------------------------------------------
(* Refresh tokens. *)

\* The token a sign-in creates starts a session; a rotation continues one.
create_token(x, session) ==
    ac_tokens' = Append(ac_tokens, [user |-> x, session |-> session, revoked |-> FALSE,
                                    expired |-> FALSE])

revoke(i) == ac_tokens' = [ac_tokens EXCEPT ![i].revoked = TRUE]
RevokedFor(tokens, x) ==
    [i \in DOMAIN tokens |-> IF tokens[i].user = x
                             THEN [tokens[i] EXCEPT !.revoked = TRUE] ELSE tokens[i]]
revoke_all_for_user(x) == ac_tokens' = RevokedFor(ac_tokens, x)

TokenExpires ==
    /\ AcAllowed("refresh")
    /\ \E i \in DOMAIN ac_tokens :
         /\ ~ac_tokens[i].expired
         /\ ac_tokens' = [ac_tokens EXCEPT ![i].expired = TRUE]
    /\ UNCHANGED <<requestVars, ac_users, ac_players, ac_bans, ac_roles, ac_grants>>

----------------------------------------------------------------------------
(* Roles held. *)

RolesOf(x) == {r \in DOMAIN ac_roles : <<x, r>> \in DOMAIN ac_grants /\ ac_grants[x, r] = "held"}
user_has_permission(x, perm) == \E r \in RolesOf(x) : perm \in ac_roles[r].perms

\* The insert fails without its role, and on a row that is not revoked: an
\* expired grant still blocks a new one.
assign_to_user(x, r) ==
    ac_grants' = IF r \in DOMAIN ac_roles /\ <<x, r>> \notin DOMAIN ac_grants
                 THEN Inserted(ac_grants, <<x, r>>, "held") ELSE ac_grants

revoke_from_user(x, r) ==
    ac_grants' = [g \in DOMAIN ac_grants \ {<<x, r>>} |-> ac_grants[g]]

\* The default role of a new account: a failed insert is only logged.
AssignDefaultRole(p) ==
    /\ At(p, "default role")
    /\ assign_to_user(req[p].user, "user")
    /\ Continue(p, [req[p] EXCEPT !.pc = "token"])
    /\ UNCHANGED <<ac_users, ac_players, ac_tokens, ac_bans, ac_roles>>

\* The last step of every sign-in.
IssueToken(p) ==
    /\ At(p, "token")
    /\ create_token(req[p].user, IF req[p].session = 0 THEN Len(ac_tokens) + 1
                                 ELSE req[p].session)
    /\ Finish(p)
    /\ UNCHANGED <<ac_users, ac_players, ac_bans, ac_roles, ac_grants>>

SigningIn(pc, x) == [pc |-> pc, user |-> x, session |-> 0]

----------------------------------------------------------------------------
(* Registration and password sign-in. *)

\* Every player wants the display name 1.
register_user(x) ==
    /\ x \in AcLocal
    /\ ~username_exists(x)
    /\ ~display_name_taken(1)

RegisterAccount(p) ==
    /\ AcAllowed("register")
    /\ \E x \in AcPeople : register_user(x) /\ Request(p, SigningIn("create account", x))
    /\ UNCHANGED acTables

\* One transaction: either unique index rolls both rows back.
create_account(p) ==
    /\ At(p, "create account")
    /\ LET x == req[p].user IN
         IF username_exists(x) \/ display_name_taken(1)
         THEN UNCHANGED <<ac_users, ac_players>> /\ Finish(p)
         ELSE /\ InsertUser(x)
              /\ InsertPlayer(x, 1)
              /\ Continue(p, [req[p] EXCEPT !.pc = "default role"])
    /\ UNCHANGED <<ac_tokens, ac_bans, ac_roles, ac_grants>>

authenticate(x) ==
    /\ username_exists(x)
    /\ is_active(x)
    /\ x \in AcLocal
    /\ x \in DOMAIN ac_players

Login(p) ==
    /\ AcAllowed("login")
    /\ \E x \in AcPeople : authenticate(x) /\ Request(p, SigningIn("token", x))
    /\ UNCHANGED acTables

\* The command line creates the two rows one after the other, and no grant.
CreateUser(p) ==
    /\ AcAllowed("create user")
    /\ \E x \in AcLocal :
         /\ ~username_exists(x)
         /\ Request(p, [pc |-> "cli player", user |-> x])
         /\ InsertUser(x)
    /\ UNCHANGED <<ac_players, ac_tokens, ac_bans, ac_roles, ac_grants>>

CreateUserPlayer(p) ==
    /\ At(p, "cli player")
    /\ IF display_name_taken(1) THEN UNCHANGED ac_players ELSE InsertPlayer(req[p].user, 1)
    /\ Finish(p)
    /\ UNCHANGED <<ac_users, ac_tokens, ac_bans, ac_roles, ac_grants>>

----------------------------------------------------------------------------
(* Steam sign-in: the account that holds the SteamID wins; a half          *)
(* provisioned one is finished; otherwise one is provisioned in steps.     *)

Steam(pc, s, x, n) == [pc |-> pc, steam |-> s, user |-> x, name |-> n, session |-> 0,
                       created |-> FALSE]

\* The SteamID's account may be a local one that linked it.
SignInToHolder(p, s, x, persona) ==
    /\ is_active(x)
    /\ IF persona /\ x = s /\ ac_players[x].name = 0
       THEN \E n \in derive_available_display_name : Request(p, Steam("self heal", s, x, n))
       ELSE Request(p, SigningIn("token", x))

recover_partial_steam_account(p, s) ==
    /\ is_active(s)
    /\ IF s \in DOMAIN ac_players
       THEN Request(p, Steam("stamp", s, s, 0))
       ELSE Request(p, Steam("player", s, s, 0))

login_with_steam(p, s, persona) ==
    LET holders == find_by_steam_id_64(s) IN
    \/ \E x \in holders : SignInToHolder(p, s, x, persona)
    \/ holders = {} /\ username_exists(s) /\ recover_partial_steam_account(p, s)
    \/ /\ holders = {} /\ ~username_exists(s)
       /\ Request(p, [Steam("provision", s, s, IF persona THEN 1 ELSE 0)
                          EXCEPT !.created = TRUE])

SteamCallback(p) ==
    /\ AcAllowed("steam")
    /\ \E s \in AcSteam, persona \in BOOLEAN : login_with_steam(p, s, persona)
    /\ UNCHANGED acTables

\* The name was free when it was looked up; the index decides.
SelfHeal(p) ==
    /\ At(p, "self heal")
    /\ IF display_name_taken(req[p].name)
       THEN UNCHANGED ac_players /\ Finish(p)
       ELSE /\ ac_players' = [ac_players EXCEPT ![req[p].user].name = req[p].name]
            /\ Continue(p, [req[p] EXCEPT !.pc = "token"])
    /\ UNCHANGED <<ac_users, ac_tokens, ac_bans, ac_roles, ac_grants>>

ProvisionUser(p) ==
    /\ At(p, "provision")
    /\ IF username_exists(req[p].user)
       THEN UNCHANGED ac_users /\ Finish(p)
       ELSE InsertUser(req[p].user) /\ Continue(p, [req[p] EXCEPT !.pc = "player name"])
    /\ UNCHANGED <<ac_players, ac_tokens, ac_bans, ac_roles, ac_grants>>

ProvisionName(p) ==
    /\ At(p, "player name")
    /\ IF req[p].name = 0 THEN Continue(p, [req[p] EXCEPT !.pc = "player"])
       ELSE \/ \E n \in derive_available_display_name :
                  Continue(p, [req[p] EXCEPT !.pc = "player", !.name = n])
            \/ derive_available_display_name = {} /\ Finish(p)
    /\ UNCHANGED acTables

ProvisionPlayer(p) ==
    /\ At(p, "player")
    /\ IF display_name_taken(req[p].name) \/ req[p].user \in DOMAIN ac_players
       THEN UNCHANGED ac_players /\ Finish(p)
       ELSE InsertPlayer(req[p].user, req[p].name) /\ Continue(p, [req[p] EXCEPT !.pc = "stamp"])
    /\ UNCHANGED <<ac_users, ac_tokens, ac_bans, ac_roles, ac_grants>>

AfterStamp(p) == [req[p] EXCEPT !.pc = IF req[p].created THEN "default role" ELSE "token"]

\* steam_id_64 is unique: the stamp fails when a profile linked it meanwhile.
StampSteamId(p) ==
    /\ At(p, "stamp")
    /\ IF find_by_steam_id_64(req[p].steam) \subseteq {req[p].user}
       THEN /\ ac_players' = [ac_players EXCEPT ![req[p].user].steam = req[p].steam]
            /\ Continue(p, AfterStamp(p))
       ELSE UNCHANGED ac_players /\ Finish(p)
    /\ UNCHANGED <<ac_users, ac_tokens, ac_bans, ac_roles, ac_grants>>

----------------------------------------------------------------------------
(* A player edits the profile: the name, or the SteamID once. *)

update_profile(x, change) ==
    /\ x \in DOMAIN ac_players
    /\ change = "steam" => ac_players[x].steam = NoSteamId
    /\ change = "name" => \A y \in DOMAIN ac_players \ {x} : ac_players[y].name # 1

UpdateMyProfile(p) ==
    /\ AcAllowed("profile")
    /\ \E x \in AcLocal, change \in {"name", "steam"}, s \in AcSteam :
         /\ update_profile(x, change)
         /\ Request(p, [pc |-> "profile", user |-> x, change |-> change, steam |-> s])
    /\ UNCHANGED acTables

WriteProfile(p) ==
    /\ At(p, "profile")
    /\ LET x == req[p].user IN
         ac_players' =
            IF req[p].change = "name"
            THEN IF \E y \in DOMAIN ac_players \ {x} : ac_players[y].name = 1 THEN ac_players
                 ELSE [ac_players EXCEPT ![x].name = 1]
            ELSE IF find_by_steam_id_64(req[p].steam) \subseteq {x}
                 THEN [ac_players EXCEPT ![x].steam = req[p].steam]
                 ELSE ac_players
    /\ Finish(p)
    /\ UNCHANGED <<ac_users, ac_tokens, ac_bans, ac_roles, ac_grants>>

----------------------------------------------------------------------------
(* Refreshing and ending a session. *)

\* A revoked token that is presented again ends every session of its user.
Refresh(p) ==
    /\ AcAllowed("refresh")
    /\ \E i \in DOMAIN ac_tokens :
         Request(p, [pc |-> IF ac_tokens[i].revoked THEN "revoke all"
                            ELSE IF ac_tokens[i].expired THEN "revoke" ELSE "rotate",
                     token |-> i, user |-> ac_tokens[i].user])
    /\ UNCHANGED acTables

\* Mutant: the token is revoked without asking whether it still was valid.
RotateBlindly(p) ==
    /\ At(p, "rotate")
    /\ revoke(req[p].token)
    /\ Continue(p, [req[p] EXCEPT !.pc = "gate"])
    /\ UNCHANGED <<ac_users, ac_players, ac_bans, ac_roles, ac_grants>>

\* Of two refreshes with one token, one consumes it.
try_revoke(p) ==
    /\ At(p, "rotate")
    /\ IF ac_tokens[req[p].token].revoked
       THEN UNCHANGED ac_tokens /\ Finish(p)
       ELSE revoke(req[p].token) /\ Continue(p, [req[p] EXCEPT !.pc = "gate"])
    /\ UNCHANGED <<ac_users, ac_players, ac_bans, ac_roles, ac_grants>>

\* The account-status gate: an account that is not active loses every token.
RefreshGate(p) ==
    /\ At(p, "gate")
    /\ LET x == req[p].user IN
         IF is_active(x)
         THEN Continue(p, [pc |-> "token", user |-> x,
                           session |-> ac_tokens[req[p].token].session])
         ELSE Continue(p, [req[p] EXCEPT !.pc = "revoke all"])
    /\ UNCHANGED acTables

RevokeAll(p) ==
    /\ At(p, "revoke all")
    /\ revoke_all_for_user(req[p].user)
    /\ Finish(p)
    /\ UNCHANGED <<ac_users, ac_players, ac_bans, ac_roles, ac_grants>>

Logout(p) ==
    /\ AcAllowed("logout")
    /\ \E i \in DOMAIN ac_tokens :
         ~ac_tokens[i].revoked /\ Request(p, [pc |-> "revoke", token |-> i])
    /\ UNCHANGED acTables

RevokeOne(p) ==
    /\ At(p, "revoke")
    /\ revoke(req[p].token)
    /\ Finish(p)
    /\ UNCHANGED <<ac_users, ac_players, ac_bans, ac_roles, ac_grants>>

LogoutAll(p) ==
    /\ AcAllowed("logout")
    /\ \E x \in DOMAIN ac_users : Request(p, NoRequest) /\ revoke_all_for_user(x)
    /\ UNCHANGED <<ac_users, ac_players, ac_bans, ac_roles, ac_grants>>

----------------------------------------------------------------------------
(* Bans. *)

is_lifted(b) == ac_bans[b].lifted
is_expired(b) == ac_bans[b].ended
get_active_for_user(x) == {b \in DOMAIN ac_bans : ac_bans[b].user = x /\ ~is_lifted(b)
                                                   /\ ~is_expired(b)}
is_platform_banned(x) == \E b \in get_active_for_user(x) : ac_bans[b].type = "platform"

\* The index knows nothing of expiry: it refuses a ban next to any unlifted
\* one of the same type and scope.
bans_unique_active(x, type, scope) ==
    \A b \in DOMAIN ac_bans :
        ac_bans[b].user = x /\ ac_bans[b].type = type /\ ac_bans[b].scope = scope => is_lifted(b)

InsertBan(x, type, scope, temporary) ==
    ac_bans' = Append(ac_bans, [user |-> x, type |-> type, scope |-> scope, temporary |-> temporary,
                                ended |-> FALSE, lifted |-> FALSE])

create_ban(x, type, scope) ==
    \A b \in get_active_for_user(x) : ac_bans[b].type = type => ac_bans[b].scope # scope

\* POST admin/bans.
CreateBan(p) ==
    /\ AcAllowed("ban")
    /\ \E x \in DOMAIN ac_users, type \in BanType, scope \in BanScopes, t \in BOOLEAN :
         /\ create_ban(x, type, scope)
         /\ Request(p, [pc |-> "enforce", user |-> x, type |-> type, scope |-> scope, temporary |-> t])
    /\ UNCHANGED acTables

\* One transaction: the ban and, for a platform ban, its enforcement.
create_and_enforce(p) ==
    /\ At(p, "enforce")
    /\ LET x == req[p].user  platform == req[p].type = "platform" IN
         IF bans_unique_active(x, req[p].type, req[p].scope)
         THEN /\ InsertBan(x, req[p].type, req[p].scope, req[p].temporary)
              /\ IF platform THEN update_user_status(x, "banned") ELSE UNCHANGED ac_users
              /\ IF platform THEN revoke_all_for_user(x) ELSE UNCHANGED ac_tokens
         ELSE UNCHANGED <<ac_users, ac_tokens, ac_bans>>
    /\ Finish(p)
    /\ UNCHANGED <<ac_players, ac_roles, ac_grants>>

\* Nothing runs when a ban's time is over.
BanEnds ==
    /\ AcAllowed("ban ends")
    /\ \E b \in DOMAIN ac_bans :
         /\ ac_bans[b].temporary /\ ~ac_bans[b].ended
         /\ ac_bans' = [ac_bans EXCEPT ![b].ended = TRUE]
    /\ UNCHANGED <<requestVars, ac_users, ac_players, ac_tokens, ac_roles, ac_grants>>

lift_ban(b) == ~is_lifted(b) /\ ~is_expired(b)

\* POST admin/bans/{id}/lift.
LiftBan(p) ==
    /\ AcAllowed("lift")
    /\ \E b \in DOMAIN ac_bans :
         lift_ban(b) /\ Request(p, [pc |-> "lift", ban |-> b, user |-> ac_bans[b].user])
    /\ UNCHANGED acTables

lift(p) ==
    /\ At(p, "lift")
    /\ ac_bans' = [ac_bans EXCEPT ![req[p].ban].lifted = TRUE]
    /\ IF ac_bans[req[p].ban].type = "platform"
       THEN Continue(p, [req[p] EXCEPT !.pc = "still banned"]) ELSE Finish(p)
    /\ UNCHANGED <<ac_users, ac_players, ac_tokens, ac_roles, ac_grants>>

StillBanned(p) ==
    /\ At(p, "still banned")
    /\ IF is_platform_banned(req[p].user) THEN Finish(p)
       ELSE Continue(p, [req[p] EXCEPT !.pc = "banned user"])
    /\ UNCHANGED acTables

FindBannedUser(p) ==
    /\ At(p, "banned user")
    /\ IF ac_users[req[p].user] = "banned" THEN Continue(p, [req[p] EXCEPT !.pc = "restore"])
       ELSE Finish(p)
    /\ UNCHANGED acTables

RestoreStatus(p) ==
    /\ At(p, "restore")
    /\ update_user_status(req[p].user, "active")
    /\ Finish(p)
    /\ UNCHANGED <<ac_players, ac_tokens, ac_bans, ac_roles, ac_grants>>

----------------------------------------------------------------------------
(* The command line's own ways to ban. *)

\* portal user ban: the record, then the status; the tokens stay.
BanUser(p) ==
    /\ AcAllowed("user ban")
    /\ \E x \in DOMAIN ac_users, t \in BOOLEAN :
         /\ bans_unique_active(x, "platform", "none")
         /\ Request(p, [pc |-> "cli banned", user |-> x])
         /\ InsertBan(x, "platform", "none", t)
    /\ UNCHANGED <<ac_users, ac_players, ac_tokens, ac_roles, ac_grants>>

BanUserStatus(p) ==
    /\ At(p, "cli banned")
    /\ update_user_status(req[p].user, "banned")
    /\ Finish(p)
    /\ UNCHANGED <<ac_players, ac_tokens, ac_bans, ac_roles, ac_grants>>

\* portal user unban lifts every ban that has not ended, then the status.
UnbanUser(p) ==
    /\ AcAllowed("user unban")
    /\ \E x \in DOMAIN ac_users :
         /\ get_active_for_user(x) # {}
         /\ Request(p, [pc |-> "cli unbanned", user |-> x])
         /\ ac_bans' = [b \in DOMAIN ac_bans |->
                IF b \in get_active_for_user(x) THEN [ac_bans[b] EXCEPT !.lifted = TRUE]
                ELSE ac_bans[b]]
    /\ UNCHANGED <<ac_users, ac_players, ac_tokens, ac_roles, ac_grants>>

UnbanUserStatus(p) ==
    /\ At(p, "cli unbanned")
    /\ update_user_status(req[p].user, "active")
    /\ Finish(p)
    /\ UNCHANGED <<ac_players, ac_tokens, ac_bans, ac_roles, ac_grants>>

\* portal user disable and enable.
DisableUser(p) ==
    /\ AcAllowed("disable")
    /\ \E x \in DOMAIN ac_users : Request(p, NoRequest) /\ update_user_status(x, "inactive")
    /\ UNCHANGED <<ac_players, ac_tokens, ac_bans, ac_roles, ac_grants>>

EnableUser(p) ==
    /\ AcAllowed("enable")
    /\ \E x \in DOMAIN ac_users : Request(p, NoRequest) /\ update_user_status(x, "active")
    /\ UNCHANGED <<ac_players, ac_tokens, ac_bans, ac_roles, ac_grants>>

\* portal ban create: the record alone; a league ban must name its league.
RecordBan(p) ==
    /\ AcAllowed("ban create")
    /\ \E x \in DOMAIN ac_users, type \in BanType, scope \in BanScopes, t \in BOOLEAN :
         /\ type = "league" => scope # "none"
         /\ bans_unique_active(x, type, scope) /\ Request(p, NoRequest) /\ InsertBan(x, type, scope, t)
    /\ UNCHANGED <<ac_users, ac_players, ac_tokens, ac_roles, ac_grants>>

\* portal ban lift: the record alone, if it is still unlifted.
LiftById(p) ==
    /\ AcAllowed("ban lift")
    /\ \E b \in DOMAIN ac_bans :
         /\ lift_ban(b)
         /\ Request(p, NoRequest)
         /\ ac_bans' = [ac_bans EXCEPT ![b].lifted = TRUE]
    /\ UNCHANGED <<ac_users, ac_players, ac_tokens, ac_roles, ac_grants>>

----------------------------------------------------------------------------
(* Administration of roles, by a caller who may manage users. *)

create_role_row(r) ==
    /\ ac_roles' = Inserted(ac_roles, r, [rank |-> 2, system |-> FALSE, perms |-> {}])
    /\ UNCHANGED ac_grants

\* The grants of a deleted role go with it.
delete_role_row(r) ==
    /\ ac_roles' = [k \in DOMAIN ac_roles \ {r} |-> ac_roles[k]]
    /\ ac_grants' = [g \in {h \in DOMAIN ac_grants : h[2] # r} |-> ac_grants[g]]

update_role_row(r, rank) ==
    /\ ac_roles' = [ac_roles EXCEPT ![r].rank = rank]
    /\ UNCHANGED ac_grants

set_role_permission(r, add) ==
    ac_roles' = [ac_roles EXCEPT ![r].perms =
        IF add THEN ac_roles[r].perms \cup {"admin.users.manage"}
        ELSE ac_roles[r].perms \ {"admin.users.manage"}]

require_permission(c) == user_has_permission(c, "admin.users.manage")

ensure_caller_outranks_role(c, r) ==
    \/ "super_admin" \in RolesOf(c)
    \/ \E held \in RolesOf(c) : ac_roles[r].rank < ac_roles[held].rank

RoleCall(op, c) == AcAllowed(op) /\ c \in AcCallers /\ require_permission(c)

AssignRole(p) ==
    /\ \E c \in AcCallers, x \in DOMAIN ac_users \cup AcCallers, r \in DOMAIN ac_roles :
         /\ RoleCall("assign", c)
         /\ ensure_caller_outranks_role(c, r)
         /\ Request(p, [pc |-> "assign", user |-> x, role |-> r])
    /\ UNCHANGED acTables

InsertGrant(p) ==
    /\ At(p, "assign")
    /\ assign_to_user(req[p].user, req[p].role)
    /\ Finish(p)
    /\ UNCHANGED <<ac_users, ac_players, ac_tokens, ac_bans, ac_roles>>

RevokeRole(p) ==
    /\ \E c \in AcCallers, x \in DOMAIN ac_users \cup AcCallers, r \in DOMAIN ac_roles :
         /\ RoleCall("revoke", c)
         /\ ensure_caller_outranks_role(c, r)
         /\ Request(p, [pc |-> "withdraw", user |-> x, role |-> r])
    /\ UNCHANGED acTables

WithdrawGrant(p) ==
    /\ At(p, "withdraw")
    /\ revoke_from_user(req[p].user, req[p].role)
    /\ Finish(p)
    /\ UNCHANGED <<ac_users, ac_players, ac_tokens, ac_bans, ac_roles>>

GrantExpires ==
    /\ AcAllowed("assign")
    /\ \E g \in DOMAIN ac_grants :
         /\ g[2] # "super_admin"
         /\ ac_grants[g] = "held"
         /\ ac_grants' = [ac_grants EXCEPT ![g] = "expired"]
    /\ UNCHANGED <<requestVars, ac_users, ac_players, ac_tokens, ac_bans, ac_roles>>

CreateRole(p) ==
    /\ \E c \in AcCallers, r \in AcRoles \ DOMAIN ac_roles :
         /\ RoleCall("role", c)
         /\ Request(p, NoRequest)
         /\ create_role_row(r)
    /\ UNCHANGED <<ac_users, ac_players, ac_tokens, ac_bans>>

DeleteRole(p) ==
    /\ \E c \in AcCallers, r \in DOMAIN ac_roles :
         /\ RoleCall("role", c)
         /\ ~ac_roles[r].system
         /\ Request(p, NoRequest)
         /\ delete_role_row(r)
    /\ UNCHANGED <<ac_users, ac_players, ac_tokens, ac_bans>>

UpdateRole(p) ==
    /\ \E c \in AcCallers, r \in DOMAIN ac_roles, rank \in 1 .. 3 :
         /\ RoleCall("role", c)
         /\ Request(p, NoRequest)
         /\ update_role_row(r, rank)
    /\ UNCHANGED <<ac_users, ac_players, ac_tokens, ac_bans>>

\* The role is looked up, and then the link inserted or deleted; with the
\* role gone the insert fails and the delete finds nothing.
ChangePermission(p) ==
    /\ \E c \in AcCallers, r \in DOMAIN ac_roles, add \in BOOLEAN :
         /\ RoleCall("permission", c)
         /\ Request(p, [pc |-> "permission", role |-> r, add |-> add])
    /\ UNCHANGED acTables

WritePermission(p) ==
    /\ At(p, "permission")
    /\ IF req[p].role \in DOMAIN ac_roles
       THEN set_role_permission(req[p].role, req[p].add) ELSE UNCHANGED ac_roles
    /\ Finish(p)
    /\ UNCHANGED <<ac_users, ac_players, ac_tokens, ac_bans, ac_grants>>

\* The command line's role commands ask for no caller and compare no ranks.
CliAssignRole(p) ==
    /\ AcAllowed("cli role")
    /\ \E x \in DOMAIN ac_users, r \in DOMAIN ac_roles :
         Request(p, [pc |-> "assign", user |-> x, role |-> r])
    /\ UNCHANGED acTables

CliRevokeRole(p) ==
    /\ AcAllowed("cli role")
    /\ \E x \in DOMAIN ac_users, r \in DOMAIN ac_roles :
         Request(p, [pc |-> "withdraw", user |-> x, role |-> r])
    /\ UNCHANGED acTables

CliCreateRole(p) ==
    /\ AcAllowed("cli role")
    /\ \E r \in AcRoles \ DOMAIN ac_roles : Request(p, NoRequest) /\ create_role_row(r)
    /\ UNCHANGED <<ac_users, ac_players, ac_tokens, ac_bans>>

CliDeleteRole(p) ==
    /\ AcAllowed("cli role")
    /\ \E r \in DOMAIN ac_roles :
         ~ac_roles[r].system /\ Request(p, NoRequest) /\ delete_role_row(r)
    /\ UNCHANGED <<ac_users, ac_players, ac_tokens, ac_bans>>

CliChangePermission(p) ==
    /\ AcAllowed("cli role")
    /\ \E r \in DOMAIN ac_roles, add \in BOOLEAN :
         Request(p, [pc |-> "permission", role |-> r, add |-> add])
    /\ UNCHANGED acTables

----------------------------------------------------------------------------

AcSignInStep(p) ==
    \/ RegisterAccount(p) \/ create_account(p) \/ AssignDefaultRole(p) \/ IssueToken(p) \/ Login(p)
    \/ CreateUser(p) \/ CreateUserPlayer(p)
    \/ SteamCallback(p) \/ SelfHeal(p) \/ ProvisionUser(p) \/ ProvisionName(p)
    \/ ProvisionPlayer(p) \/ StampSteamId(p) \/ UpdateMyProfile(p) \/ WriteProfile(p)
    \/ Refresh(p) \/ try_revoke(p) \/ RefreshGate(p) \/ RevokeAll(p)
    \/ Logout(p) \/ RevokeOne(p) \/ LogoutAll(p)

AcAdminStep(p) ==
    \/ CreateBan(p) \/ create_and_enforce(p)
    \/ LiftBan(p) \/ lift(p) \/ StillBanned(p) \/ FindBannedUser(p) \/ RestoreStatus(p)
    \/ BanUser(p) \/ BanUserStatus(p) \/ UnbanUser(p) \/ UnbanUserStatus(p)
    \/ DisableUser(p) \/ EnableUser(p) \/ RecordBan(p) \/ LiftById(p)
    \/ AssignRole(p) \/ InsertGrant(p) \/ RevokeRole(p) \/ WithdrawGrant(p)
    \/ CreateRole(p) \/ DeleteRole(p) \/ UpdateRole(p)
    \/ ChangePermission(p) \/ WritePermission(p)
    \/ CliAssignRole(p) \/ CliRevokeRole(p) \/ CliCreateRole(p) \/ CliDeleteRole(p)
    \/ CliChangePermission(p)

AcNext ==
    \/ \E p \in Users : AcSignInStep(p) \/ AcAdminStep(p)
    \/ \E p \in Users : scenario.of = "accounts" /\ Die(p) /\ UNCHANGED acTables
    \/ TokenExpires \/ BanEnds \/ GrantExpires

AcSpec == RequestsInit /\ AcInit /\ [][AcNext]_acVars

----------------------------------------------------------------------------

\* The rows, with the columns that the services read or write.
PlayerRow == [name : 0 .. MaxNames, steam : AcSteam \cup {NoSteamId}]
RefreshTokenRow == [user : AcPeople, session : Nat, revoked : BOOLEAN, expired : BOOLEAN]
BanRow == [user : AcPeople, type : BanType, scope : BanScopes, temporary : BOOLEAN, ended : BOOLEAN,
           lifted : BOOLEAN]

\* Every row belongs to an account, and a SteamID to one player: the columns
\* users, players, refresh_tokens, bans and user_roles keep between them.
AcTypeOK ==
    /\ \A x \in DOMAIN ac_users : x \in AcPeople /\ ac_users[x] \in UserStatus
    /\ \A x \in DOMAIN ac_players :
         /\ x \in DOMAIN ac_users
         /\ ac_players[x] \in PlayerRow
         /\ \A y \in DOMAIN ac_players \ {x} :
              /\ ac_players[x].steam = ac_players[y].steam => ac_players[x].steam = NoSteamId
              /\ ac_players[x].name = ac_players[y].name => ac_players[x].name = 0
    /\ \A i \in DOMAIN ac_tokens :
         /\ ac_tokens[i] \in RefreshTokenRow
         /\ ac_tokens[i].user \in DOMAIN ac_users /\ ac_tokens[i].session \in 1 .. i
    /\ \A b \in DOMAIN ac_bans : ac_bans[b] \in BanRow /\ ac_bans[b].user \in DOMAIN ac_users

\* A session has at most one token that is still valid: of two clients that
\* present the same refresh token one rotates it and the other is refused.
OneTokenPerSession ==
    \A i, j \in DOMAIN ac_tokens :
        /\ i # j
        /\ ac_tokens[i].session = ac_tokens[j].session
        => ac_tokens[i].revoked \/ ac_tokens[j].revoked

\* Whoever was signed in has a player, and whoever was signed in through
\* Steam the player that carries the SteamID, whichever sign-in died between
\* the inserts and whoever took the name or the SteamID meanwhile.
SignedInIsProvisioned ==
    \A i \in DOMAIN ac_tokens :
        LET x == ac_tokens[i].user IN
        /\ x \in DOMAIN ac_players
        /\ x \in AcSteam => ac_players[x].steam = x

\* Registration leaves no user row without its player row, which nobody could
\* sign in to or register again (the command line may, in its two statements).
AccountIsWhole ==
    (AcAllowed("register") /\ ~AcAllowed("create user")) =>
        \A x \in DOMAIN ac_users \cap AcLocal : x \in DOMAIN ac_players

\* A grant names a role that exists, whatever was deleted while it was given.
GrantNamesRole == \A g \in DOMAIN ac_grants : g[2] \in DOMAIN ac_roles

\* With nothing in flight, a platform ban that stands keeps its account out,
\* through the API or `portal user ban` unless that one stopped half way;
\* `portal ban create` only records one.
BanIsEnforced ==
    /\ scenario.of = "accounts" /\ scenario.serial /\ Quiescent
    /\ ~AcAllowed("ban create") /\ ~AcAllowed("enable")
    /\ crashes = 0 \/ ~AcAllowed("user ban")
    => \A x \in DOMAIN ac_users : is_platform_banned(x) => ~is_active(x)

\* A banned account keeps no session that could be refreshed once the ban is
\* lifted.
BannedIsSignedOut ==
    scenario.of = "accounts" /\ scenario.serial /\ ~AcAllowed("user ban") =>
        \A i \in DOMAIN ac_tokens :
            ac_users[ac_tokens[i].user] = "banned" => ac_tokens[i].revoked

\* Lifting the last platform ban restores the account: an account left banned
\* has an unlifted platform ban, unless a lift died half way.
LiftRestores ==
    /\ scenario.of = "accounts" /\ scenario.serial /\ scenario.crashes = 0 /\ Quiescent
    /\ ~AcAllowed("ban lift")
    => \A x \in DOMAIN ac_users :
            ac_users[x] = "banned" =>
                \E b \in DOMAIN ac_bans :
                    ac_bans[b].user = x /\ ac_bans[b].type = "platform" /\ ~is_lifted(b)

\* Users, players, sessions, grants and bans agree, whichever of the separate
\* statements that keep them so were overtaken or never ran.
AccountsAreSound ==
    AcTypeOK /\ OneTokenPerSession /\ SignedInIsProvisioned /\ AccountIsWhole /\ GrantNamesRole
    /\ BanIsEnforced /\ BannedIsSignedOut /\ LiftRestores

=============================================================================
