-------------------------- MODULE Accounts_proofs --------------------------
(***************************************************************************)
(* What is proved of accounts: users, their players, sessions, bans and    *)
(* grants agree.                                                           *)
(***************************************************************************)
EXTENDS Accounts, FiniteSetTheorems, SequenceTheorems, TLAPS

-----------------------------------------------------------------------------
(* The inductive invariant: what the tables hold.                           *)

Provisioned(x) == x \in DOMAIN ac_players /\ (x \in AcSteam => ac_players[x].steam = x)

UsersOK == \A x \in DOMAIN ac_users : x \in AcPeople /\ ac_users[x] \in UserStatus
PlayersOK ==
    /\ \A x \in DOMAIN ac_players :
           /\ x \in DOMAIN ac_users /\ ac_players[x] \in PlayerRow
           /\ x \in AcSteam => ac_players[x].steam \in {NoSteamId, x}
    /\ \A x, y \in DOMAIN ac_players :
           x # y => /\ ac_players[x].steam = ac_players[y].steam => ac_players[x].steam = NoSteamId
                    /\ ac_players[x].name = ac_players[y].name => ac_players[x].name = 0
TokensOK ==
    /\ ac_tokens \in Seq(RefreshTokenRow)
    /\ \A i \in DOMAIN ac_tokens :
           /\ ac_tokens[i].user \in DOMAIN ac_users /\ Provisioned(ac_tokens[i].user)
           /\ ac_tokens[i].session \in 1 .. i
BansOK ==
    ac_bans \in Seq(BanRow) /\ \A b \in DOMAIN ac_bans : ac_bans[b].user \in DOMAIN ac_users

AccountTables == UsersOK /\ PlayersOK /\ TokensOK /\ BansOK /\ GrantNamesRole

\* The requests of a sign-in, by the record that travels: the short one, and
\* the one of a sign-in through Steam.
SignInRecord(r) == [pc : {r.pc}, user : {r.user}, session : {r.session}]
SteamRecord(r) ==
    [pc : {r.pc}, steam : {r.steam}, user : {r.user}, name : {r.name}, session : {r.session},
     created : {r.created}]
SteamSteps == {"self heal", "provision", "player name", "player", "stamp"}

\* What a request remembers is of the right kind, and stays so.
AccountJob(r) ==
    /\ r.pc = "create account" => r \in SignInRecord(r) /\ r.user \in AcLocal /\ r.session = 0
    /\ r.pc \in {"default role", "token"} =>
           /\ r \in SignInRecord(r) \/ r \in SteamRecord(r)
           /\ r.user \in DOMAIN ac_users /\ Provisioned(r.user)
           /\ r.session \in 0 .. Len(ac_tokens) /\ (r.pc = "default role" => r.session = 0)
    /\ r.pc = "cli player" => r.user \in DOMAIN ac_users \cap AcLocal
    /\ r.pc \in SteamSteps =>
           /\ r \in SteamRecord(r)
           /\ r.user \in AcSteam /\ r.steam = r.user /\ r.session = 0 /\ r.created \in BOOLEAN
           /\ r.pc # "provision" => r.user \in DOMAIN ac_users
           /\ r.pc = "self heal" => Provisioned(r.user) /\ r.name \in 1 .. MaxNames
           /\ r.pc \in {"provision", "player name", "player"} => r.name \in 0 .. MaxNames
           /\ r.pc = "stamp" => r.user \in DOMAIN ac_players
    /\ r.pc = "profile" => r.user \in AcLocal \cap DOMAIN ac_players /\ r.steam \in AcSteam
    /\ r.pc \in {"rotate", "gate"} =>
           /\ r \in [pc : {r.pc}, token : {r.token}, user : {r.user}]
           /\ r.token \in DOMAIN ac_tokens /\ r.user = ac_tokens[r.token].user
    /\ r.pc = "revoke" => r.token \in DOMAIN ac_tokens
    /\ r.pc = "enforce" =>
           r.user \in DOMAIN ac_users /\ r.type \in BanType /\ r.scope \in BanScopes /\ r.temporary \in BOOLEAN
    /\ r.pc \in {"lift", "still banned", "banned user", "restore"} =>
           /\ r \in [pc : {r.pc}, ban : {r.ban}, user : {r.user}]
           /\ r.ban \in DOMAIN ac_bans /\ r.user = ac_bans[r.ban].user /\ r.user \in DOMAIN ac_users
    /\ r.pc \in {"cli banned", "cli unbanned"} => r.user \in DOMAIN ac_users

AccountTypes ==
    /\ RequestsTypeOK
    /\ AccountTables
    /\ \A p \in Tasks : AccountJob(req[p])

-----------------------------------------------------------------------------
(* ... that a session goes on in one place.                                 *)

\* Request r is about to issue the next token of session s.
Renews(r, s) ==
    \/ r.pc = "gate" /\ ac_tokens[r.token].session = s
    \/ r.pc = "token" /\ r.session = s /\ s # 0

RenewedOnce ==
    /\ OneTokenPerSession
    /\ \A p \in Tasks, i \in DOMAIN ac_tokens :
           Renews(req[p], ac_tokens[i].session) => ac_tokens[i].revoked
    /\ \A p, q \in Tasks, s \in 1 .. Len(ac_tokens) :
           Renews(req[p], s) /\ Renews(req[q], s) => p = q

-----------------------------------------------------------------------------
(* ... that accounts are whole, and bans enforced, when requests do not     *)
(* overlap.                                                                 *)

WholeScope == scenario.of = "accounts" /\ {"register", "create user"} \cap scenario.ops = {"register"}
AccountsWhole ==
    WholeScope => AccountIsWhole /\ \A p \in Tasks : req[p].pc # "cli player"

OneAtATime ==
    scenario.serial => \A p, q \in Tasks : p # q => req[p] = NoRequest \/ req[q] = NoRequest

BanScope ==
    /\ scenario.of = "accounts" /\ scenario.serial
    /\ scenario.ops \cap {"ban create", "enable"} = {}
    /\ crashes = 0 \/ "user ban" \notin scenario.ops
BanJob(r) ==
    /\ r.pc \in {"banned user", "restore", "cli unbanned"} => ~is_platform_banned(r.user)
    /\ r.pc = "cli banned" => "user ban" \in scenario.ops
BansHold ==
    BanScope =>
        /\ \A p \in Tasks : BanJob(req[p])
        /\ \A x \in DOMAIN ac_users :
               is_platform_banned(x) /\ is_active(x) =>
                   \E p \in Tasks : req[p].pc = "cli banned" /\ req[p].user = x

OutScope == scenario.of = "accounts" /\ scenario.serial /\ "user ban" \notin scenario.ops
OutJob(r) ==
    /\ r.pc \in {"default role", "token", "self heal", "player name", "player", "stamp"} =>
           ac_users[r.user] # "banned"
    /\ r.pc # "cli banned"
SignedOut == OutScope => BannedIsSignedOut /\ \A p \in Tasks : OutJob(req[p])

LiftScope ==
    /\ scenario.of = "accounts" /\ scenario.serial /\ scenario.crashes = 0
    /\ "ban lift" \notin scenario.ops
Held(x) ==
    \E b \in DOMAIN ac_bans :
        ac_bans[b].user = x /\ ac_bans[b].type = "platform" /\ ~ac_bans[b].lifted
Lifting == {"still banned", "banned user", "restore", "cli unbanned"}
LiftsFinish ==
    LiftScope =>
        /\ \A p \in Tasks : req[p].pc = "cli banned" => Held(req[p].user)
        /\ \A x \in DOMAIN ac_users :
               ac_users[x] = "banned" =>
                   Held(x) \/ \E p \in Tasks : req[p].pc \in Lifting /\ req[p].user = x

AccountsAgree == RenewedOnce /\ AccountsWhole /\ OneAtATime /\ BansHold /\ SignedOut /\ LiftsFinish

Moves(p, r) == Request(p, r) \/ (req[p] # NoRequest /\ Continue(p, r))

-----------------------------------------------------------------------------
(* Rows of a table that is a sequence.                                      *)

\* Rows written in place.
LEMMA SequenceRewritten ==
    ASSUME NEW S, NEW s \in Seq(S), NEW t, t \in [DOMAIN s -> S]
    PROVE  t \in Seq(S) /\ DOMAIN t = DOMAIN s /\ Len(t) = Len(s)
<1>1. DOMAIN s = 1 .. Len(s) /\ Len(s) \in Nat
  BY LenProperties
<1>2. t \in Seq(S)
  BY <1>1, SeqDef
<1>3. DOMAIN t = DOMAIN s
  OBVIOUS
<1>4. DOMAIN t = 1 .. Len(t) /\ Len(t) \in Nat
  BY <1>2, LenProperties
<1> QED
  BY <1>1, <1>2, <1>3, <1>4

\* A row added at the end.
LEMMA SequenceExtended ==
    ASSUME NEW S, NEW s \in Seq(S), NEW e \in S
    PROVE  /\ Append(s, e) \in Seq(S) /\ Len(Append(s, e)) = Len(s) + 1
           /\ Len(s) \in Nat /\ DOMAIN s = 1 .. Len(s)
           /\ DOMAIN Append(s, e) = 1 .. Len(s) + 1
           /\ \A i \in DOMAIN s : Append(s, e)[i] = s[i]
           /\ Append(s, e)[Len(s) + 1] = e
<1>1. /\ Append(s, e) \in Seq(S) /\ Len(Append(s, e)) = Len(s) + 1
      /\ \A i \in 1 .. Len(s) : Append(s, e)[i] = s[i]
      /\ Append(s, e)[Len(s) + 1] = e
  BY AppendProperties
<1>2. DOMAIN s = 1 .. Len(s) /\ Len(s) \in Nat
  BY LenProperties
<1>3. DOMAIN Append(s, e) = 1 .. Len(Append(s, e))
  BY <1>1, LenProperties
<1> QED
  BY <1>1, <1>2, <1>3

\* The tokens of D are revoked, the others left as they are.
Revoking(D) ==
    /\ ac_tokens' \in Seq(RefreshTokenRow)
    /\ DOMAIN ac_tokens' = DOMAIN ac_tokens /\ Len(ac_tokens') = Len(ac_tokens)
    /\ \A i \in DOMAIN ac_tokens :
           /\ ac_tokens'[i].user = ac_tokens[i].user /\ ac_tokens'[i].session = ac_tokens[i].session
           /\ i \in D => ac_tokens'[i].revoked
           /\ i \notin D => ac_tokens'[i].revoked = ac_tokens[i].revoked
\* A token is issued.
Issuing(x, session) ==
    LET n == Len(ac_tokens) + 1
    IN  /\ ac_tokens' \in Seq(RefreshTokenRow)
        /\ DOMAIN ac_tokens = 1 .. Len(ac_tokens) /\ Len(ac_tokens) \in Nat
        /\ DOMAIN ac_tokens' = 1 .. n /\ Len(ac_tokens') = n
        /\ \A i \in DOMAIN ac_tokens : ac_tokens'[i] = ac_tokens[i]
        /\ ac_tokens'[n].user = x /\ ac_tokens'[n].session = session /\ ~ac_tokens'[n].revoked
\* The bans of D are lifted, the others left as they are, but for their end.
Lifted(D) ==
    /\ ac_bans' \in Seq(BanRow) /\ DOMAIN ac_bans' = DOMAIN ac_bans
    /\ \A b \in DOMAIN ac_bans :
           /\ ac_bans'[b].user = ac_bans[b].user /\ ac_bans'[b].type = ac_bans[b].type
           /\ b \in D => ac_bans'[b].lifted
           /\ b \notin D => ac_bans'[b].lifted = ac_bans[b].lifted
           /\ ac_bans[b].ended => ac_bans'[b].ended
\* A ban is recorded.
Recorded(x, type) ==
    LET n == Len(ac_bans) + 1
    IN  /\ ac_bans' \in Seq(BanRow)
        /\ DOMAIN ac_bans = 1 .. Len(ac_bans) /\ Len(ac_bans) \in Nat /\ DOMAIN ac_bans' = 1 .. n
        /\ \A b \in DOMAIN ac_bans : ac_bans'[b] = ac_bans[b]
        /\ ac_bans'[n].user = x /\ ac_bans'[n].type = type
        /\ ~ac_bans'[n].lifted /\ ~ac_bans'[n].ended

\* A token that is written keeps its user and its session.
LEMMA TokenWritten ==
    ASSUME TokensOK, NEW n \in DOMAIN ac_tokens
    PROVE  /\ ac_tokens' = ac_tokens => Revoking({})
           /\ revoke(n) => Revoking({n})
           /\ ac_tokens' = [ac_tokens EXCEPT ![n].expired = TRUE] => Revoking({})
<1>1. ac_tokens \in Seq(RefreshTokenRow)
  BY DEF TokensOK
<1>2. \A k \in DOMAIN ac_tokens : ac_tokens[k] \in RefreshTokenRow
  BY <1>1, LenProperties, ElementOfSeq
<1>3. ASSUME ac_tokens' = ac_tokens PROVE Revoking({})
  BY <1>1, <1>3 DEF Revoking
<1>4. ASSUME revoke(n) PROVE Revoking({n})
  <2>1. ac_tokens' \in [DOMAIN ac_tokens -> RefreshTokenRow]
    BY <1>1, <1>2, <1>4, LenProperties DEF revoke, RefreshTokenRow
  <2>2. ac_tokens' \in Seq(RefreshTokenRow) /\ Len(ac_tokens') = Len(ac_tokens)
    BY <1>1, <2>1, SequenceRewritten
  <2> QED
    BY <1>2, <1>4, <2>1, <2>2 DEF revoke, Revoking, RefreshTokenRow
<1>5. ASSUME ac_tokens' = [ac_tokens EXCEPT ![n].expired = TRUE] PROVE Revoking({})
  <2>1. ac_tokens' \in [DOMAIN ac_tokens -> RefreshTokenRow]
    BY <1>1, <1>2, <1>5, LenProperties DEF RefreshTokenRow
  <2>2. ac_tokens' \in Seq(RefreshTokenRow) /\ Len(ac_tokens') = Len(ac_tokens)
    BY <1>1, <2>1, SequenceRewritten
  <2>3. \A k \in DOMAIN ac_tokens :
            /\ ac_tokens'[k].user = ac_tokens[k].user /\ ac_tokens'[k].session = ac_tokens[k].session
            /\ ac_tokens'[k].revoked = ac_tokens[k].revoked
    BY <1>2, <1>5 DEF RefreshTokenRow
  <2>4. \A k \in DOMAIN ac_tokens : k \in {} => ac_tokens'[k].revoked
    OBVIOUS
  <2>5. DOMAIN ac_tokens' = DOMAIN ac_tokens
    BY <2>1
  <2> QED
    BY <2>2, <2>3, <2>4, <2>5 DEF Revoking
<1> QED
  BY <1>3, <1>4, <1>5

\* Every token of an account is revoked.
LEMMA TokensOfUserRevoked ==
    ASSUME TokensOK, NEW x, revoke_all_for_user(x)
    PROVE  Revoking({i \in DOMAIN ac_tokens : ac_tokens[i].user = x})
<1>1. ac_tokens \in Seq(RefreshTokenRow)
  BY DEF TokensOK
<1>2. \A k \in DOMAIN ac_tokens : ac_tokens[k] \in RefreshTokenRow
  BY <1>1, LenProperties, ElementOfSeq
<1>3. \A k \in DOMAIN ac_tokens :
          /\ [ac_tokens[k] EXCEPT !.revoked = TRUE] \in RefreshTokenRow
          /\ [ac_tokens[k] EXCEPT !.revoked = TRUE].user = ac_tokens[k].user
          /\ [ac_tokens[k] EXCEPT !.revoked = TRUE].session = ac_tokens[k].session
          /\ [ac_tokens[k] EXCEPT !.revoked = TRUE].revoked
  BY <1>2 DEF RefreshTokenRow
<1>4. /\ DOMAIN ac_tokens' = DOMAIN ac_tokens
      /\ \A k \in DOMAIN ac_tokens :
             ac_tokens'[k] = IF ac_tokens[k].user = x THEN [ac_tokens[k] EXCEPT !.revoked = TRUE]
                             ELSE ac_tokens[k]
  BY DEF revoke_all_for_user, RevokedFor
<1>5. ac_tokens' \in [DOMAIN ac_tokens -> RefreshTokenRow]
  BY <1>2, <1>3, <1>4 DEF revoke_all_for_user, RevokedFor
<1>6. ac_tokens' \in Seq(RefreshTokenRow) /\ Len(ac_tokens') = Len(ac_tokens)
  BY <1>1, <1>5, SequenceRewritten
<1> QED
  BY <1>3, <1>4, <1>6 DEF Revoking

\* A token is added.
LEMMA TokenIssued ==
    ASSUME TokensOK, NEW x \in AcPeople, NEW session \in Nat, create_token(x, session)
    PROVE  Issuing(x, session)
<1> DEFINE e == [user |-> x, session |-> session, revoked |-> FALSE, expired |-> FALSE]
<1>1. ac_tokens \in Seq(RefreshTokenRow) /\ e \in RefreshTokenRow
  BY DEF TokensOK, RefreshTokenRow
<1>2. e.user = x /\ e.session = session /\ ~e.revoked
  OBVIOUS
<1>3. ac_tokens' = Append(ac_tokens, e)
  BY DEF create_token
<1> HIDE DEF e
<1> QED
  BY <1>1, <1>2, <1>3, SequenceExtended DEF Issuing

\* A ban that is written keeps its user and its type.
LEMMA BanWritten ==
    ASSUME BansOK, NEW b \in DOMAIN ac_bans
    PROVE  /\ ac_bans' = [ac_bans EXCEPT ![b].lifted = TRUE] => Lifted({b})
           /\ ac_bans' = [ac_bans EXCEPT ![b].ended = TRUE] => Lifted({})
<1>1. ac_bans \in Seq(BanRow)
  BY DEF BansOK
<1>2. \A k \in DOMAIN ac_bans : ac_bans[k] \in BanRow
  BY <1>1, LenProperties, ElementOfSeq
<1>3. ASSUME ac_bans' = [ac_bans EXCEPT ![b].lifted = TRUE] PROVE Lifted({b})
  <2>1. ac_bans' \in [DOMAIN ac_bans -> BanRow]
    BY <1>1, <1>2, <1>3, LenProperties DEF BanRow
  <2>2. ac_bans' \in Seq(BanRow)
    BY <1>1, <2>1, SequenceRewritten
  <2> QED
    BY <1>2, <1>3, <2>1, <2>2 DEF Lifted, BanRow
<1>4. ASSUME ac_bans' = [ac_bans EXCEPT ![b].ended = TRUE] PROVE Lifted({})
  <2>1. ac_bans' \in [DOMAIN ac_bans -> BanRow]
    BY <1>1, <1>2, <1>4, LenProperties DEF BanRow
  <2>2. ac_bans' \in Seq(BanRow)
    BY <1>1, <2>1, SequenceRewritten
  <2> QED
    BY <1>2, <1>4, <2>1, <2>2 DEF Lifted, BanRow
<1> QED
  BY <1>3, <1>4

\* The bans of a set are lifted together.
LEMMA BansOfUserLifted ==
    ASSUME BansOK, NEW D,
           ac_bans' = [b \in DOMAIN ac_bans |->
                          IF b \in D THEN [ac_bans[b] EXCEPT !.lifted = TRUE] ELSE ac_bans[b]]
    PROVE  Lifted(D)
<1>1. ac_bans \in Seq(BanRow)
  BY DEF BansOK
<1>2. \A k \in DOMAIN ac_bans : ac_bans[k] \in BanRow
  BY <1>1, LenProperties, ElementOfSeq
<1>3. \A k \in DOMAIN ac_bans :
          /\ [ac_bans[k] EXCEPT !.lifted = TRUE] \in BanRow
          /\ [ac_bans[k] EXCEPT !.lifted = TRUE].user = ac_bans[k].user
          /\ [ac_bans[k] EXCEPT !.lifted = TRUE].type = ac_bans[k].type
          /\ [ac_bans[k] EXCEPT !.lifted = TRUE].ended = ac_bans[k].ended
          /\ [ac_bans[k] EXCEPT !.lifted = TRUE].lifted
  BY <1>2 DEF BanRow
<1>4. /\ DOMAIN ac_bans' = DOMAIN ac_bans
      /\ \A k \in DOMAIN ac_bans :
             ac_bans'[k] = IF k \in D THEN [ac_bans[k] EXCEPT !.lifted = TRUE] ELSE ac_bans[k]
  OBVIOUS
<1>5. ac_bans' \in [DOMAIN ac_bans -> BanRow]
  BY <1>2, <1>3, <1>4
<1>6. ac_bans' \in Seq(BanRow)
  BY <1>1, <1>5, SequenceRewritten
<1> QED
  BY <1>3, <1>4, <1>6 DEF Lifted

\* A ban is added.
LEMMA BanRecorded ==
    ASSUME BansOK, NEW x \in AcPeople, NEW type \in BanType, NEW scope \in BanScopes, NEW t \in BOOLEAN,
           InsertBan(x, type, scope, t)
    PROVE  Recorded(x, type)
<1> DEFINE e == [user |-> x, type |-> type, scope |-> scope, temporary |-> t, ended |-> FALSE, lifted |-> FALSE]
<1>1. ac_bans \in Seq(BanRow) /\ e \in BanRow
  BY DEF BansOK, BanRow
<1>2. e.user = x /\ e.type = type /\ ~e.lifted /\ ~e.ended
  OBVIOUS
<1>3. ac_bans' = Append(ac_bans, e)
  BY DEF InsertBan
<1> HIDE DEF e
<1> QED
  BY <1>1, <1>2, <1>3, SequenceExtended DEF Recorded

-----------------------------------------------------------------------------
(* Type correctness.                                                        *)

\* Accounts, players, tokens and bans stay, and what they say of one another.
Grows ==
    /\ DOMAIN ac_users \subseteq DOMAIN ac_users' /\ DOMAIN ac_players \subseteq DOMAIN ac_players'
    /\ \A x \in DOMAIN ac_players : Provisioned(x) => Provisioned(x)'
    /\ 0 .. Len(ac_tokens) \subseteq 0 .. Len(ac_tokens')
    /\ DOMAIN ac_tokens \subseteq DOMAIN ac_tokens'
    /\ \A i \in DOMAIN ac_tokens : ac_tokens'[i].user = ac_tokens[i].user
    /\ DOMAIN ac_bans \subseteq DOMAIN ac_bans'
    /\ \A b \in DOMAIN ac_bans : ac_bans'[b].user = ac_bans[b].user

\* What a request remembers stays so.
LEMMA AccountJobStays ==
    ASSUME Grows, NEW r, AccountJob(r)
    PROVE  AccountJob(r)'
<1>1. \A x : Provisioned(x) => Provisioned(x)'
  BY DEF Grows, Provisioned
<1>2. /\ \A x : x \in DOMAIN ac_users => x \in DOMAIN ac_users'
      /\ \A x : x \in DOMAIN ac_players => x \in DOMAIN ac_players'
      /\ \A i : i \in DOMAIN ac_tokens => i \in DOMAIN ac_tokens' /\ ac_tokens'[i].user = ac_tokens[i].user
      /\ \A b : b \in DOMAIN ac_bans => b \in DOMAIN ac_bans' /\ ac_bans'[b].user = ac_bans[b].user
      /\ \A n : n \in 0 .. Len(ac_tokens) => n \in 0 .. Len(ac_tokens')
  BY DEF Grows
<1> HIDE DEF Provisioned
<1> QED
  BY <1>1, <1>2 DEF AccountJob, SteamSteps, SignInRecord, SteamRecord

\* A session of no token is one of the sessions a request may have.
LEMMA NoSession ==
    ASSUME AccountTables
    PROVE  0 \in 0 .. Len(ac_tokens)
<1>1. Len(ac_tokens) \in Nat
  BY LenProperties DEF AccountTables, TokensOK
<1> QED
  BY <1>1

\* A task with nothing to do remembers nothing.
LEMMA IdleAccountJob == AccountJob(NoRequest) /\ AccountJob(NoRequest)'
BY DEF AccountJob, NoRequest, SteamSteps

\* One task moves.
LEMMA TaskMoves ==
    ASSUME RequestsTypeOK, NEW p \in Tasks, NEW r, Moves(p, r)
    PROVE  /\ RequestsTypeOK' /\ scenario' = scenario /\ crashes' = crashes
           /\ req'[p] = r /\ \A q \in Tasks : q # p => req'[q] = req[q]
BY RequestsAssumption DEF RequestsTypeOK, Moves, Request, Continue

\* A step that writes.
LEMMA AccountTurn ==
    ASSUME AccountTypes, NEW p \in Tasks, NEW r, Moves(p, r), AccountTables', Grows, AccountJob(r)'
    PROVE  AccountTypes'
<1>1. /\ RequestsTypeOK'
      /\ req'[p] = r /\ \A q \in Tasks : q # p => req'[q] = req[q]
  BY TaskMoves DEF AccountTypes
<1>2. \A q \in Tasks : AccountJob(req[q])'
  <2> SUFFICES ASSUME NEW q \in Tasks PROVE AccountJob(req[q])'
    OBVIOUS
  <2>1. PICK j : j = req[q]
    OBVIOUS
  <2>2. AccountJob(j)'
    BY <2>1, AccountJobStays DEF AccountTypes
  <2> QED
    BY <1>1, <2>1, <2>2
<1> QED
  BY <1>1, <1>2 DEF AccountTypes

\* Nothing is written.
LEMMA TablesSame ==
    ASSUME AccountTables, UNCHANGED acTables
    PROVE  AccountTables' /\ Grows
<1>1. Len(ac_tokens) \in Nat
  BY LenProperties DEF AccountTables, TokensOK
<1> QED
  BY <1>1 DEF AccountTables, UsersOK, PlayersOK, TokensOK, BansOK, GrantNamesRole, Provisioned, acTables, Grows

\* A step that writes nothing.
LEMMA QuietAccountTurn ==
    ASSUME AccountTypes, NEW p \in Tasks, NEW r, Moves(p, r), UNCHANGED acTables, AccountJob(r)
    PROVE  AccountTypes'
<1>1. AccountTables' /\ Grows
  BY TablesSame DEF AccountTypes
<1> QED
  BY <1>1, AccountTurn, AccountJobStays

\* The last step of a request.
LEMMA LastAccountTurn ==
    ASSUME AccountTypes, NEW p \in Tasks, Moves(p, NoRequest), AccountTables', Grows
    PROVE  AccountTypes'
BY AccountTurn, IdleAccountJob

\* Users are written alone.
LEMMA UsersWritten ==
    ASSUME AccountTables, UsersOK', DOMAIN ac_users \subseteq DOMAIN ac_users',
           UNCHANGED <<ac_players, ac_tokens, ac_bans, ac_roles, ac_grants>>
    PROVE  AccountTables' /\ Grows
<1>1. Len(ac_tokens) \in Nat
  BY LenProperties DEF AccountTables, TokensOK
<1>2. PlayersOK' /\ TokensOK' /\ BansOK' /\ GrantNamesRole'
  BY DEF AccountTables, PlayersOK, TokensOK, BansOK, GrantNamesRole, Provisioned
<1>3. Grows
  BY <1>1 DEF Grows, Provisioned
<1> QED
  BY <1>2, <1>3 DEF AccountTables

\* Players are.
LEMMA PlayersWritten ==
    ASSUME AccountTables, PlayersOK', DOMAIN ac_players \subseteq DOMAIN ac_players',
           \A x \in DOMAIN ac_players : Provisioned(x) => Provisioned(x)',
           UNCHANGED <<ac_users, ac_tokens, ac_bans, ac_roles, ac_grants>>
    PROVE  AccountTables' /\ Grows
<1>1. Len(ac_tokens) \in Nat
  BY LenProperties DEF AccountTables, TokensOK
<1>2. \A x : Provisioned(x) => Provisioned(x)'
  BY DEF Provisioned
<1>3. UsersOK' /\ BansOK' /\ GrantNamesRole'
  BY DEF AccountTables, UsersOK, BansOK, GrantNamesRole
<1>4. TokensOK'
  <2> HIDE DEF Provisioned
  <2> QED
    BY <1>2 DEF AccountTables, TokensOK
<1>5. Grows
  BY <1>1 DEF Grows
<1> QED
  BY <1>3, <1>4, <1>5 DEF AccountTables

\* Tokens are revoked, or expire.
LEMMA TokensRevoked ==
    ASSUME AccountTables, NEW D, Revoking(D),
           UNCHANGED <<ac_users, ac_players, ac_bans, ac_roles, ac_grants>>
    PROVE  AccountTables' /\ Grows
<1>1. Len(ac_tokens) \in Nat
  BY LenProperties DEF AccountTables, TokensOK
<1>2. UsersOK' /\ PlayersOK' /\ BansOK' /\ GrantNamesRole'
  BY DEF AccountTables, UsersOK, PlayersOK, BansOK, GrantNamesRole
<1>3. \A x : Provisioned(x)' = Provisioned(x)
  BY DEF Provisioned
<1>4. TokensOK'
  BY <1>3 DEF AccountTables, TokensOK, Revoking
<1>5. Grows
  BY <1>1, <1>3 DEF Grows, Revoking
<1> QED
  BY <1>2, <1>4, <1>5 DEF AccountTables

\* A token is issued to somebody with an account and a player.
LEMMA TokensIssued ==
    ASSUME AccountTables, NEW x \in DOMAIN ac_users, Provisioned(x),
           NEW s \in 1 .. Len(ac_tokens) + 1, Issuing(x, s),
           UNCHANGED <<ac_users, ac_players, ac_bans, ac_roles, ac_grants>>
    PROVE  AccountTables' /\ Grows
<1>1. UsersOK' /\ PlayersOK' /\ BansOK' /\ GrantNamesRole'
  BY DEF AccountTables, UsersOK, PlayersOK, BansOK, GrantNamesRole
<1>2. \A y : Provisioned(y)' = Provisioned(y)
  BY DEF Provisioned
<1>3. TokensOK'
  <2>1. ASSUME NEW i \in DOMAIN ac_tokens'
        PROVE  /\ ac_tokens'[i].user \in DOMAIN ac_users /\ Provisioned(ac_tokens'[i].user)
               /\ ac_tokens'[i].session \in 1 .. i
    <3>1. CASE i \in DOMAIN ac_tokens
      BY <3>1 DEF AccountTables, TokensOK, Issuing
    <3>2. CASE i \notin DOMAIN ac_tokens
      <4>1. i = Len(ac_tokens) + 1
        BY <2>1, <3>2 DEF Issuing
      <4> QED
        BY <4>1 DEF Issuing
    <3> QED
      BY <3>1, <3>2
  <2> QED
    BY <1>2, <2>1 DEF TokensOK, Issuing
<1>4. Grows
  BY <1>2 DEF Grows, Issuing
<1> QED
  BY <1>1, <1>3, <1>4 DEF AccountTables

\* Bans are lifted, or end.
LEMMA BansLifted ==
    ASSUME AccountTables, NEW D, Lifted(D),
           UNCHANGED <<ac_users, ac_players, ac_tokens, ac_roles, ac_grants>>
    PROVE  AccountTables' /\ Grows
<1>1. Len(ac_tokens) \in Nat
  BY LenProperties DEF AccountTables, TokensOK
<1>2. UsersOK' /\ PlayersOK' /\ TokensOK' /\ GrantNamesRole'
  BY DEF AccountTables, UsersOK, PlayersOK, TokensOK, GrantNamesRole, Provisioned
<1>3. BansOK'
  BY DEF AccountTables, BansOK, Lifted
<1>4. Grows
  BY <1>1 DEF Grows, Provisioned, Lifted
<1> QED
  BY <1>2, <1>3, <1>4 DEF AccountTables

\* A ban of an account is recorded.
LEMMA BansRecorded ==
    ASSUME AccountTables, NEW x \in DOMAIN ac_users, NEW type, Recorded(x, type),
           UNCHANGED <<ac_users, ac_players, ac_tokens, ac_roles, ac_grants>>
    PROVE  AccountTables' /\ Grows
<1>1. Len(ac_tokens) \in Nat
  BY LenProperties DEF AccountTables, TokensOK
<1>2. UsersOK' /\ PlayersOK' /\ TokensOK' /\ GrantNamesRole'
  BY DEF AccountTables, UsersOK, PlayersOK, TokensOK, GrantNamesRole, Provisioned
<1>3. BansOK'
  <2>1. \A b \in DOMAIN ac_bans' : b \in DOMAIN ac_bans \/ b = Len(ac_bans) + 1
    BY DEF Recorded
  <2> QED
    BY <2>1 DEF AccountTables, BansOK, Recorded
<1>4. Grows
  BY <1>1 DEF Grows, Provisioned, Recorded
<1> QED
  BY <1>2, <1>3, <1>4 DEF AccountTables

\* Roles and grants are written alone.
LEMMA GrantsWritten ==
    ASSUME AccountTables, GrantNamesRole', UNCHANGED <<ac_users, ac_players, ac_tokens, ac_bans>>
    PROVE  AccountTables' /\ Grows
<1>1. Len(ac_tokens) \in Nat
  BY LenProperties DEF AccountTables, TokensOK
<1> QED
  BY <1>1 DEF AccountTables, UsersOK, PlayersOK, TokensOK, BansOK, Provisioned, Grows

\* A player is inserted under a name nobody has.
LEMMA PlayerInserted ==
    ASSUME PlayersOK, DOMAIN ac_users \subseteq DOMAIN ac_users',
           NEW x \in DOMAIN ac_users', NEW n \in 0 .. MaxNames, ~display_name_taken(n),
           x \in AcLocal \/ x \notin DOMAIN ac_players, InsertPlayer(x, n)
    PROVE  /\ PlayersOK' /\ DOMAIN ac_players \subseteq DOMAIN ac_players'
           /\ \A y \in DOMAIN ac_players : Provisioned(y) => Provisioned(y)'
           /\ x \in DOMAIN ac_players'
<1> DEFINE new == [name |-> n, steam |-> NoSteamId]
<1>1. new \in PlayerRow /\ new.name = n /\ new.steam = NoSteamId
  BY DEF PlayerRow
<1>2. ac_players' = [k \in DOMAIN ac_players \cup {x} |-> IF k = x THEN new ELSE ac_players[k]]
  BY DEF InsertPlayer, Inserted
<1> HIDE DEF new
<1>3. /\ DOMAIN ac_players' = DOMAIN ac_players \cup {x}
      /\ ac_players'[x] = new
      /\ \A k \in DOMAIN ac_players : k # x => ac_players'[k] = ac_players[k]
  BY <1>2
<1>4. \A k \in DOMAIN ac_players : ac_players[k].name = n => n = 0
  BY DEF display_name_taken
<1>5. PlayersOK'
  <2>1. ASSUME NEW k \in DOMAIN ac_players'
        PROVE  /\ k \in DOMAIN ac_users' /\ ac_players'[k] \in PlayerRow
               /\ k \in AcSteam => ac_players'[k].steam \in {NoSteamId, k}
    BY <1>1, <1>3 DEF PlayersOK
  <2>2. ASSUME NEW k \in DOMAIN ac_players', NEW l \in DOMAIN ac_players', k # l
        PROVE  /\ ac_players'[k].steam = ac_players'[l].steam => ac_players'[k].steam = NoSteamId
               /\ ac_players'[k].name = ac_players'[l].name => ac_players'[k].name = 0
    <3>1. CASE k = x
      BY <1>1, <1>3, <1>4, <2>2, <3>1
    <3>2. CASE l = x
      BY <1>1, <1>3, <1>4, <2>2, <3>2
    <3>3. CASE k # x /\ l # x
      BY <1>3, <2>2, <3>3 DEF PlayersOK
    <3> QED
      BY <3>1, <3>2, <3>3
  <2> QED
    BY <2>1, <2>2 DEF PlayersOK
<1>6. \A y \in DOMAIN ac_players : Provisioned(y) => Provisioned(y)'
  BY <1>3, AccountsAssumption DEF Provisioned
<1> QED
  BY <1>3, <1>5, <1>6

\* A name that nobody else has is written.
LEMMA NameWritten ==
    ASSUME PlayersOK, UNCHANGED ac_users, NEW x \in DOMAIN ac_players, NEW n \in 1 .. MaxNames,
           \A y \in DOMAIN ac_players \ {x} : ac_players[y].name # n,
           ac_players' = [ac_players EXCEPT ![x].name = n]
    PROVE  /\ PlayersOK' /\ DOMAIN ac_players \subseteq DOMAIN ac_players'
           /\ \A y \in DOMAIN ac_players : Provisioned(y) => Provisioned(y)'
<1>1. \A y \in DOMAIN ac_players : ac_players[y] \in PlayerRow
  BY DEF PlayersOK
<1>2. /\ DOMAIN ac_players' = DOMAIN ac_players
      /\ ac_players'[x] \in PlayerRow /\ ac_players'[x].name = n
      /\ \A y \in DOMAIN ac_players : ac_players'[y].steam = ac_players[y].steam
      /\ \A y \in DOMAIN ac_players : y # x => ac_players'[y] = ac_players[y]
  BY <1>1 DEF PlayerRow
<1>3. PlayersOK'
  <2>1. ASSUME NEW k \in DOMAIN ac_players
        PROVE  /\ k \in DOMAIN ac_users' /\ ac_players'[k] \in PlayerRow
               /\ k \in AcSteam => ac_players'[k].steam \in {NoSteamId, k}
    BY <1>2 DEF PlayersOK
  <2>2. ASSUME NEW k \in DOMAIN ac_players, NEW l \in DOMAIN ac_players, k # l
        PROVE  /\ ac_players'[k].steam = ac_players'[l].steam => ac_players'[k].steam = NoSteamId
               /\ ac_players'[k].name = ac_players'[l].name => ac_players'[k].name = 0
    BY <1>2, <2>2 DEF PlayersOK
  <2> QED
    BY <1>2, <2>1, <2>2 DEF PlayersOK
<1> QED
  BY <1>2, <1>3 DEF Provisioned

\* A SteamID that nobody else carries is written; a Steam account gets its own.
LEMMA SteamWritten ==
    ASSUME PlayersOK, UNCHANGED ac_users, NEW x \in DOMAIN ac_players, NEW s \in AcSteam,
           x \in AcSteam => s = x, find_by_steam_id_64(s) \subseteq {x},
           ac_players' = [ac_players EXCEPT ![x].steam = s]
    PROVE  /\ PlayersOK' /\ DOMAIN ac_players \subseteq DOMAIN ac_players'
           /\ \A y \in DOMAIN ac_players : Provisioned(y) => Provisioned(y)'
           /\ x \in AcSteam => Provisioned(x)'
<1>1. \A y \in DOMAIN ac_players : ac_players[y] \in PlayerRow
  BY DEF PlayersOK
<1>2. /\ DOMAIN ac_players' = DOMAIN ac_players
      /\ ac_players'[x] \in PlayerRow /\ ac_players'[x].steam = s
      /\ \A y \in DOMAIN ac_players : ac_players'[y].name = ac_players[y].name
      /\ \A y \in DOMAIN ac_players : y # x => ac_players'[y] = ac_players[y]
  BY <1>1 DEF PlayerRow
<1>3. \A y \in DOMAIN ac_players : y # x => ac_players[y].steam # s
  BY DEF find_by_steam_id_64
<1>4. PlayersOK'
  <2>1. ASSUME NEW k \in DOMAIN ac_players
        PROVE  /\ k \in DOMAIN ac_users' /\ ac_players'[k] \in PlayerRow
               /\ k \in AcSteam => ac_players'[k].steam \in {NoSteamId, k}
    BY <1>2 DEF PlayersOK
  <2>2. ASSUME NEW k \in DOMAIN ac_players, NEW l \in DOMAIN ac_players, k # l
        PROVE  /\ ac_players'[k].steam = ac_players'[l].steam => ac_players'[k].steam = NoSteamId
               /\ ac_players'[k].name = ac_players'[l].name => ac_players'[k].name = 0
    BY <1>2, <1>3, <2>2 DEF PlayersOK
  <2> QED
    BY <1>2, <2>1, <2>2 DEF PlayersOK
<1> QED
  BY <1>2, <1>4 DEF Provisioned

\* The requests of the short record.
LEMMA SignInJob ==
    ASSUME AccountTables, NEW x, NEW pc,
           \/ pc = "create account" /\ x \in AcLocal
           \/ pc \in {"token", "default role"} /\ x \in DOMAIN ac_users /\ Provisioned(x)
    PROVE  AccountJob(SigningIn(pc, x))
<1> DEFINE r == SigningIn(pc, x)
<1>1. r.pc = pc /\ r.user = x /\ r.session = 0 /\ r \in SignInRecord(r)
  BY DEF SigningIn, SignInRecord
<1>2. 0 \in 0 .. Len(ac_tokens)
  BY NoSession
<1> HIDE DEF r
<1>3. AccountJob(r)
  BY <1>1, <1>2 DEF AccountJob, SteamSteps
<1> QED
  BY <1>3 DEF r

\* Who has the columns set is provisioned.
LEMMA HolderProvisioned ==
    ASSUME AccountTables, NEW x \in DOMAIN ac_players,
           x \in AcSteam => ac_players[x].steam # NoSteamId
    PROVE  Provisioned(x) /\ x \in DOMAIN ac_users
BY DEF AccountTables, PlayersOK, Provisioned

\* Registration and password sign-in.
LEMMA SigningInTypes ==
    ASSUME AccountTypes, NEW p \in Users,
           RegisterAccount(p) \/ Login(p) \/ CreateUser(p) \/ UpdateMyProfile(p)
    PROVE  AccountTypes'
<1>0. p \in Tasks /\ AccountTables
  BY DEF Tasks, AccountTypes
<1>1. CASE RegisterAccount(p)
  <2>1. PICK x : x \in AcLocal /\ Moves(p, SigningIn("create account", x))
    BY <1>1 DEF RegisterAccount, register_user, Moves
  <2> QED
    BY <1>0, <1>1, <2>1, SignInJob, QuietAccountTurn DEF RegisterAccount
<1>2. CASE Login(p)
  <2>1. PICK x : authenticate(x) /\ Moves(p, SigningIn("token", x))
    BY <1>2 DEF Login, Moves
  <2>2. x \in DOMAIN ac_users /\ Provisioned(x)
    BY <2>1, AccountsAssumption DEF authenticate, username_exists, Provisioned
  <2> QED
    BY <1>0, <1>2, <2>1, <2>2, SignInJob, QuietAccountTurn DEF Login
<1>3. CASE CreateUser(p)
  <2>1. PICK x \in AcLocal : Moves(p, [pc |-> "cli player", user |-> x]) /\ InsertUser(x)
    BY <1>3 DEF CreateUser, Moves
  <2> DEFINE r == [pc |-> "cli player", user |-> x]
  <2>2. UsersOK' /\ DOMAIN ac_users' = DOMAIN ac_users \cup {x}
    BY <1>0, <2>1 DEF AccountTables, UsersOK, InsertUser, Inserted, AcPeople, UserStatus
  <2>3. AccountTables' /\ Grows
    BY <1>0, <1>3, <2>2, UsersWritten DEF CreateUser
  <2>4. r.pc = "cli player" /\ r.user = x
    OBVIOUS
  <2> HIDE DEF r
  <2>5. AccountJob(r)'
    BY <2>1, <2>2, <2>4 DEF AccountJob, SteamSteps
  <2> QED
    BY <1>0, <2>1, <2>3, <2>5, AccountTurn DEF r
<1>4. CASE UpdateMyProfile(p)
  <2>1. PICK x \in AcLocal, c \in {"name", "steam"}, s \in AcSteam :
            /\ update_profile(x, c)
            /\ Moves(p, [pc |-> "profile", user |-> x, change |-> c, steam |-> s])
    BY <1>4 DEF UpdateMyProfile, Moves
  <2> DEFINE r == [pc |-> "profile", user |-> x, change |-> c, steam |-> s]
  <2>2. r.pc = "profile" /\ r.user = x /\ r.steam = s
    OBVIOUS
  <2>3. x \in DOMAIN ac_players
    BY <2>1 DEF update_profile
  <2> HIDE DEF r
  <2>4. AccountJob(r)
    BY <2>2, <2>3 DEF AccountJob, SteamSteps
  <2> QED
    BY <1>0, <1>4, <2>1, <2>4, QuietAccountTurn DEF UpdateMyProfile, r
<1> QED
  BY <1>1, <1>2, <1>3, <1>4

\* A grant is inserted for a role that exists.
LEMMA GrantInserted ==
    ASSUME GrantNamesRole, NEW x, NEW k, assign_to_user(x, k), ac_roles' = ac_roles
    PROVE  GrantNamesRole'
<1>1. CASE k \in DOMAIN ac_roles /\ <<x, k>> \notin DOMAIN ac_grants
  <2>1. PICK g : g = <<x, k>>
    OBVIOUS
  <2>2. g[2] = k
    BY <2>1
  <2>3. DOMAIN ac_grants' = DOMAIN ac_grants \cup {g}
    BY <1>1, <2>1 DEF assign_to_user, Inserted
  <2> QED
    BY <1>1, <2>2, <2>3 DEF GrantNamesRole
<1>2. CASE ~(k \in DOMAIN ac_roles /\ <<x, k>> \notin DOMAIN ac_grants)
  BY <1>2 DEF assign_to_user, GrantNamesRole
<1> QED
  BY <1>1, <1>2

\* The steps of a registration and the last ones of every sign-in.
LEMMA RegisteringTypes ==
    ASSUME AccountTypes, NEW p \in Users,
           create_account(p) \/ AssignDefaultRole(p) \/ IssueToken(p) \/ CreateUserPlayer(p)
           \/ WriteProfile(p)
    PROVE  AccountTypes'
<1>0. p \in Tasks /\ AccountTables
  BY DEF Tasks, AccountTypes
<1>j. PICK j : j = req[p]
  OBVIOUS
<1>1. AccountJob(j) /\ req[p] = j
  BY <1>0, <1>j DEF AccountTypes
<1>n. NoRequest.pc = "idle"
  BY DEF NoRequest
<1>2. \A r : Continue(p, r) /\ j.pc # "idle" => Moves(p, r)
  BY <1>1, <1>n DEF Moves
<1>3. 1 \in 0 .. MaxNames /\ 1 \in 1 .. MaxNames
  BY AccountsAssumption
<1>4. CASE create_account(p)
  <2>1. j.pc = "create account"
    BY <1>1, <1>4 DEF create_account, At
  <2>2. j \in SignInRecord(j) /\ j.user \in AcLocal /\ j.session = 0
    BY <1>1, <2>1 DEF AccountJob
  <2>3. CASE username_exists(j.user) \/ display_name_taken(1)
    <3>1. UNCHANGED acTables /\ Finish(p)
      BY <1>1, <1>4, <2>3 DEF create_account, acTables
    <3> QED
      BY <1>0, <1>2, <2>1, <3>1, QuietAccountTurn, IdleAccountJob DEF Finish
  <2>4. CASE ~username_exists(j.user) /\ ~display_name_taken(1)
    <3>1. /\ InsertUser(j.user) /\ InsertPlayer(j.user, 1)
          /\ Continue(p, [j EXCEPT !.pc = "default role"])
          /\ UNCHANGED <<ac_tokens, ac_bans, ac_roles, ac_grants>>
      BY <1>1, <1>4, <2>4 DEF create_account
    <3>2. UsersOK' /\ DOMAIN ac_users' = DOMAIN ac_users \cup {j.user}
      BY <1>0, <2>2, <3>1 DEF AccountTables, UsersOK, InsertUser, Inserted, AcPeople, UserStatus
    <3>3. /\ PlayersOK' /\ DOMAIN ac_players \subseteq DOMAIN ac_players'
          /\ \A y \in DOMAIN ac_players : Provisioned(y) => Provisioned(y)'
          /\ j.user \in DOMAIN ac_players'
      BY <1>0, <1>3, <2>2, <2>4, <3>1, <3>2, PlayerInserted DEF AccountTables
    <3>4. 0 \in 0 .. Len(ac_tokens)
      BY <1>0, NoSession
    <3>5. Grows
      BY <3>1, <3>2, <3>3 DEF Grows
    <3>6. \A x : Provisioned(x) => Provisioned(x)'
      BY <3>3 DEF Provisioned
    <3>7. AccountTables'
      <4> HIDE DEF Provisioned
      <4> QED
        BY <1>0, <3>1, <3>2, <3>3, <3>6 DEF AccountTables, TokensOK, BansOK, GrantNamesRole
    <3>8. Provisioned(j.user)'
      BY <2>2, <3>3, AccountsAssumption DEF Provisioned
    <3>9. PICK r : r = [j EXCEPT !.pc = "default role"]
      OBVIOUS
    <3>10. r \in SignInRecord(r) /\ r.pc = "default role" /\ r.user = j.user /\ r.session = 0
      BY <2>2, <3>9 DEF SignInRecord
    <3>11. 0 \in 0 .. Len(ac_tokens')
      BY <3>1, <3>4
    <3>12. AccountJob(r)'
      <4> HIDE DEF Provisioned
      <4> QED
        BY <3>2, <3>8, <3>10, <3>11 DEF AccountJob, SteamSteps
    <3> QED
      BY <1>0, <1>2, <2>1, <3>1, <3>5, <3>7, <3>9, <3>12, AccountTurn
  <2> QED
    BY <2>3, <2>4
<1>5. CASE AssignDefaultRole(p)
  <2>1. j.pc = "default role"
    BY <1>1, <1>5 DEF AssignDefaultRole, At
  <2>2. /\ j \in SignInRecord(j) \/ j \in SteamRecord(j)
        /\ j.user \in DOMAIN ac_users /\ Provisioned(j.user) /\ j.session = 0
        /\ 0 \in 0 .. Len(ac_tokens)
    <3> HIDE DEF Provisioned
    <3> QED
      BY <1>1, <2>1 DEF AccountJob
  <2>3. PICK r : r = [j EXCEPT !.pc = "token"]
    OBVIOUS
  <2>4. (r \in SignInRecord(r) \/ r \in SteamRecord(r)) /\ r.pc = "token" /\ r.user = j.user /\ r.session = 0
    BY <2>2, <2>3 DEF SignInRecord, SteamRecord
  <2>5. AccountJob(r)
    <3> HIDE DEF Provisioned
    <3> QED
      BY <2>2, <2>4 DEF AccountJob, SteamSteps
  <2>6. GrantNamesRole'
    <3>1. assign_to_user(j.user, "user") /\ ac_roles' = ac_roles /\ GrantNamesRole
      BY <1>0, <1>1, <1>5 DEF AssignDefaultRole, AccountTables
    <3> QED
      BY <3>1, GrantInserted
  <2>7. AccountTables' /\ Grows
    BY <1>0, <1>5, <2>6, GrantsWritten DEF AssignDefaultRole
  <2>8. Moves(p, r)
    BY <1>1, <1>2, <1>5, <2>1, <2>3 DEF AssignDefaultRole
  <2> QED
    BY <1>0, <2>5, <2>7, <2>8, AccountTurn, AccountJobStays
<1>6. CASE IssueToken(p)
  <2>1. j.pc = "token"
    BY <1>1, <1>6 DEF IssueToken, At
  <2>2. /\ j.user \in DOMAIN ac_users /\ Provisioned(j.user)
        /\ j.session \in 0 .. Len(ac_tokens)
    <3> HIDE DEF Provisioned
    <3> QED
      BY <1>1, <2>1 DEF AccountJob
  <2>3. PICK s : s = IF j.session = 0 THEN Len(ac_tokens) + 1 ELSE j.session
    OBVIOUS
  <2>4. Len(ac_tokens) \in Nat
    BY <1>0, LenProperties DEF AccountTables, TokensOK
  <2>5. s \in 1 .. Len(ac_tokens) + 1 /\ s \in Nat
    BY <2>2, <2>3, <2>4
  <2>6. j.user \in AcPeople
    BY <1>0, <2>2 DEF AccountTables, UsersOK
  <2>7. Issuing(j.user, s)
    BY <1>0, <1>1, <1>6, <2>3, <2>5, <2>6, TokenIssued DEF IssueToken, AccountTables
  <2>8. AccountTables' /\ Grows
    BY <1>0, <1>6, <2>2, <2>5, <2>7, TokensIssued DEF IssueToken
  <2> QED
    BY <1>0, <1>2, <1>6, <2>1, <2>8, LastAccountTurn DEF IssueToken, Finish
<1>7. CASE CreateUserPlayer(p)
  <2>1. j.pc = "cli player"
    BY <1>1, <1>7 DEF CreateUserPlayer, At
  <2>2. j.user \in DOMAIN ac_users \cap AcLocal
    BY <1>1, <2>1 DEF AccountJob
  <2>3. AccountTables' /\ Grows
    <3>1. CASE display_name_taken(1)
      BY <1>0, <1>7, <3>1, TablesSame DEF CreateUserPlayer, acTables
    <3>2. CASE ~display_name_taken(1)
      <4>1. InsertPlayer(j.user, 1) /\ UNCHANGED <<ac_users, ac_tokens, ac_bans, ac_roles, ac_grants>>
        BY <1>1, <1>7, <3>2 DEF CreateUserPlayer
      <4>2. /\ PlayersOK' /\ DOMAIN ac_players \subseteq DOMAIN ac_players'
            /\ \A y \in DOMAIN ac_players : Provisioned(y) => Provisioned(y)'
        BY <1>0, <1>3, <2>2, <3>2, <4>1, PlayerInserted DEF AccountTables
      <4> QED
        BY <1>0, <4>1, <4>2, PlayersWritten
    <3> QED
      BY <3>1, <3>2
  <2> QED
    BY <1>0, <1>2, <1>7, <2>1, <2>3, LastAccountTurn DEF CreateUserPlayer, Finish
<1>8. CASE WriteProfile(p)
  <2>1. j.pc = "profile"
    BY <1>1, <1>8 DEF WriteProfile, At
  <2>2. j.user \in AcLocal /\ j.user \in DOMAIN ac_players /\ j.steam \in AcSteam /\ j.user \notin AcSteam
    BY <1>1, <2>1, AccountsAssumption DEF AccountJob
  <2>3. UNCHANGED <<ac_users, ac_tokens, ac_bans, ac_roles, ac_grants>>
    BY <1>8 DEF WriteProfile
  <2>4. \/ ac_players' = ac_players
        \/ /\ \A y \in DOMAIN ac_players \ {j.user} : ac_players[y].name # 1
           /\ ac_players' = [ac_players EXCEPT ![j.user].name = 1]
        \/ /\ find_by_steam_id_64(j.steam) \subseteq {j.user}
           /\ ac_players' = [ac_players EXCEPT ![j.user].steam = j.steam]
    BY <1>1, <1>8 DEF WriteProfile
  <2>5. AccountTables' /\ Grows
    <3>1. CASE ac_players' = ac_players
      BY <1>0, <2>3, <3>1, TablesSame DEF acTables
    <3>2. CASE /\ \A y \in DOMAIN ac_players \ {j.user} : ac_players[y].name # 1
               /\ ac_players' = [ac_players EXCEPT ![j.user].name = 1]
      <4>1. /\ PlayersOK' /\ DOMAIN ac_players \subseteq DOMAIN ac_players'
            /\ \A y \in DOMAIN ac_players : Provisioned(y) => Provisioned(y)'
        BY <1>0, <1>3, <2>2, <2>3, <3>2, NameWritten DEF AccountTables
      <4> QED
        BY <1>0, <2>3, <4>1, PlayersWritten
    <3>3. CASE /\ find_by_steam_id_64(j.steam) \subseteq {j.user}
               /\ ac_players' = [ac_players EXCEPT ![j.user].steam = j.steam]
      <4>1. /\ PlayersOK' /\ DOMAIN ac_players \subseteq DOMAIN ac_players'
            /\ \A y \in DOMAIN ac_players : Provisioned(y) => Provisioned(y)'
        BY <1>0, <2>2, <2>3, <3>3, SteamWritten DEF AccountTables
      <4> QED
        BY <1>0, <2>3, <4>1, PlayersWritten
    <3> QED
      BY <2>4, <3>1, <3>2, <3>3
  <2> QED
    BY <1>0, <1>2, <1>8, <2>1, <2>5, LastAccountTurn DEF WriteProfile, Finish
<1> QED
  BY <1>4, <1>5, <1>6, <1>7, <1>8

\* The request of a sign-in through Steam, wherever it stands.
IsSteam(r) ==
    /\ r \in SteamRecord(r)
    /\ r.user \in AcSteam /\ r.steam = r.user /\ r.session = 0 /\ r.created \in BOOLEAN

\* It begins.
LEMMA SteamBegins ==
    ASSUME NEW pc, NEW x \in AcSteam, NEW n
    PROVE  /\ IsSteam(Steam(pc, x, x, n)) /\ Steam(pc, x, x, n).pc = pc
           /\ Steam(pc, x, x, n).user = x /\ Steam(pc, x, x, n).name = n
<1> DEFINE r == Steam(pc, x, x, n)
<1>1. /\ r.pc = pc /\ r.user = x /\ r.steam = x /\ r.name = n /\ r.session = 0 /\ r.created = FALSE
      /\ r \in SteamRecord(r)
  BY DEF Steam, SteamRecord
<1> HIDE DEF r
<1>2. IsSteam(r)
  BY <1>1 DEF IsSteam
<1> QED
  BY <1>1, <1>2 DEF r

\* What it remembers at its steps.
LEMMA SteamJob ==
    ASSUME NEW r, IsSteam(r), r.pc \in SteamSteps,
           r.pc # "provision" => r.user \in DOMAIN ac_users,
           r.pc = "self heal" => Provisioned(r.user) /\ r.name \in 1 .. MaxNames,
           r.pc \in {"provision", "player name", "player"} => r.name \in 0 .. MaxNames,
           r.pc = "stamp" => r.user \in DOMAIN ac_players
    PROVE  AccountJob(r)
<1> HIDE DEF Provisioned
<1> QED
  BY DEF AccountJob, IsSteam, SteamSteps

\* The callback of Steam.
LEMMA SteamCallbackTypes ==
    ASSUME AccountTypes, NEW p \in Users, SteamCallback(p)
    PROVE  AccountTypes'
<1>0. p \in Tasks /\ AccountTables /\ UNCHANGED acTables
  BY DEF Tasks, AccountTypes, SteamCallback
<1>1. PICK s \in AcSteam, persona \in BOOLEAN : login_with_steam(p, s, persona)
  BY DEF SteamCallback
<1>2. \A r : Request(p, r) /\ AccountJob(r) => AccountTypes'
  BY <1>0, QuietAccountTurn DEF Moves
<1>h. \A n, r : r = Steam("self heal", s, s, n) =>
                    IsSteam(r) /\ r.pc = "self heal" /\ r.user = s /\ r.name = n
  <2> SUFFICES ASSUME NEW n, NEW r, r = Steam("self heal", s, s, n)
               PROVE  IsSteam(r) /\ r.pc = "self heal" /\ r.user = s /\ r.name = n
    OBVIOUS
  <2> QED
    BY DEF Steam, SteamRecord, IsSteam
<1>3. ASSUME NEW x \in find_by_steam_id_64(s), SignInToHolder(p, s, x, persona)
      PROVE  AccountTypes'
  <2>1. x \in DOMAIN ac_players /\ ac_players[x].steam = s
    BY DEF find_by_steam_id_64
  <2>2. Provisioned(x) /\ x \in DOMAIN ac_users
    BY <1>0, <2>1, AccountsAssumption, HolderProvisioned
  <2>3. CASE Request(p, SigningIn("token", x))
    <3>1. AccountJob(SigningIn("token", x))
      BY <1>0, <2>2, SignInJob
    <3> QED
      BY <1>2, <2>3, <3>1
  <2>4. CASE \E n \in derive_available_display_name : x = s /\ Request(p, Steam("self heal", s, x, n))
    <3>1. PICK n \in derive_available_display_name : x = s /\ Request(p, Steam("self heal", s, x, n))
      BY <2>4
    <3>2. n \in 1 .. MaxNames
      BY DEF derive_available_display_name
    <3>3. PICK r : r = Steam("self heal", s, s, n)
      OBVIOUS
    <3>4. IsSteam(r) /\ r.pc = "self heal" /\ r.user = s /\ r.name = n
      BY <1>h, <3>3
    <3>5. Provisioned(s) /\ s \in DOMAIN ac_users
      BY <2>2, <3>1
    <3>6. AccountJob(r)
      <4> HIDE DEF Provisioned
      <4> QED
        BY <3>2, <3>4, <3>5, SteamJob DEF SteamSteps
    <3> QED
      BY <1>2, <3>1, <3>3, <3>6
  <2> QED
    BY <1>3, <2>3, <2>4 DEF SignInToHolder
<1>4. ASSUME username_exists(s), recover_partial_steam_account(p, s)
      PROVE  AccountTypes'
  <2>1. s \in DOMAIN ac_users
    BY <1>4 DEF username_exists
  <2>2. CASE s \in DOMAIN ac_players
    <3>1. PICK r : r = Steam("stamp", s, s, 0)
      OBVIOUS
    <3>2. IsSteam(r) /\ r.pc = "stamp" /\ r.user = s
      BY <3>1, SteamBegins
    <3>3. AccountJob(r)
      BY <2>1, <2>2, <3>2, SteamJob DEF SteamSteps
    <3> QED
      BY <1>2, <1>4, <2>2, <3>1, <3>3 DEF recover_partial_steam_account
  <2>3. CASE s \notin DOMAIN ac_players
    <3>1. PICK r : r = Steam("player", s, s, 0)
      OBVIOUS
    <3>2. IsSteam(r) /\ r.pc = "player" /\ r.user = s /\ r.name = 0
      BY <3>1, SteamBegins
    <3>3. 0 \in 0 .. MaxNames
      BY AccountsAssumption
    <3>4. AccountJob(r)
      BY <2>1, <3>2, <3>3, SteamJob DEF SteamSteps
    <3> QED
      BY <1>2, <1>4, <2>3, <3>1, <3>4 DEF recover_partial_steam_account
  <2> QED
    BY <2>2, <2>3
<1>5. ASSUME Request(p, [Steam("provision", s, s, IF persona THEN 1 ELSE 0) EXCEPT !.created = TRUE])
      PROVE  AccountTypes'
  <2>1. PICK n : n = IF persona THEN 1 ELSE 0
    OBVIOUS
  <2>2. PICK j : j = Steam("provision", s, s, n)
    OBVIOUS
  <2>3. IsSteam(j) /\ j.pc = "provision" /\ j.user = s /\ j.name = n
    BY <2>2, SteamBegins
  <2>4. PICK r : r = [j EXCEPT !.created = TRUE]
    OBVIOUS
  <2>5. IsSteam(r) /\ r.pc = "provision" /\ r.name = n
    BY <2>3, <2>4 DEF IsSteam, SteamRecord
  <2>6. n \in 0 .. MaxNames
    BY <2>1, AccountsAssumption
  <2>7. AccountJob(r)
    BY <2>5, <2>6, SteamJob DEF SteamSteps
  <2> QED
    BY <1>2, <1>5, <2>1, <2>2, <2>4, <2>7
<1> QED
  BY <1>1, <1>3, <1>4, <1>5 DEF login_with_steam

\* A sign-in that is done with the player's row.
LEMMA SteamSignsIn ==
    ASSUME AccountTables, NEW r, IsSteam(r), r.pc \in {"default role", "token"},
           r.user \in DOMAIN ac_users, Provisioned(r.user)
    PROVE  AccountJob(r)
<1>1. 0 \in 0 .. Len(ac_tokens)
  BY NoSession
<1>2. r \in SteamRecord(r) /\ r.session = 0
  BY DEF IsSteam
<1> HIDE DEF Provisioned
<1> QED
  BY <1>1, <1>2 DEF AccountJob, SteamSteps

\* The steps of a sign-in through Steam.
LEMMA SteamStepTypes ==
    ASSUME AccountTypes, NEW p \in Users,
           SelfHeal(p) \/ ProvisionUser(p) \/ ProvisionName(p) \/ ProvisionPlayer(p) \/ StampSteamId(p)
    PROVE  AccountTypes'
<1>0. p \in Tasks /\ AccountTables
  BY DEF Tasks, AccountTypes
<1>j. PICK j : j = req[p]
  OBVIOUS
<1>1. AccountJob(j) /\ req[p] = j
  BY <1>0, <1>j DEF AccountTypes
<1>n. NoRequest.pc = "idle"
  BY DEF NoRequest
<1>2. \A r : Continue(p, r) /\ j.pc # "idle" => Moves(p, r)
  BY <1>1, <1>n DEF Moves
<1>3. ASSUME j.pc # "idle", UNCHANGED acTables, Finish(p) PROVE AccountTypes'
  BY <1>0, <1>2, <1>3, QuietAccountTurn, IdleAccountJob DEF Finish
<1>4. CASE SelfHeal(p)
  <2>1. j.pc = "self heal"
    BY <1>1, <1>4 DEF SelfHeal, At
  <2>2. IsSteam(j) /\ Provisioned(j.user) /\ j.user \in DOMAIN ac_users /\ j.name \in 1 .. MaxNames
    <3> HIDE DEF Provisioned
    <3> QED
      BY <1>1, <2>1 DEF AccountJob, SteamSteps, IsSteam
  <2>3. CASE display_name_taken(j.name)
    BY <1>1, <1>3, <1>4, <2>1, <2>3 DEF SelfHeal, acTables
  <2>4. CASE ~display_name_taken(j.name)
    <3>1. PICK r : r = [j EXCEPT !.pc = "token"]
      OBVIOUS
    <3>2. /\ ac_players' = [ac_players EXCEPT ![j.user].name = j.name] /\ Continue(p, r)
          /\ UNCHANGED <<ac_users, ac_tokens, ac_bans, ac_roles, ac_grants>>
      BY <1>1, <1>4, <2>4, <3>1 DEF SelfHeal
    <3>3. j.user \in DOMAIN ac_players /\ \A y \in DOMAIN ac_players \ {j.user} : ac_players[y].name # j.name
      BY <2>2, <2>4 DEF Provisioned, display_name_taken
    <3>4. /\ PlayersOK' /\ DOMAIN ac_players \subseteq DOMAIN ac_players'
          /\ \A y \in DOMAIN ac_players : Provisioned(y) => Provisioned(y)'
      BY <1>0, <2>2, <3>2, <3>3, NameWritten DEF AccountTables
    <3>5. AccountTables' /\ Grows
      BY <1>0, <3>2, <3>4, PlayersWritten
    <3>6. IsSteam(r) /\ r.pc = "token" /\ r.user = j.user
      BY <2>2, <3>1 DEF IsSteam, SteamRecord
    <3>7. AccountJob(r)
      BY <1>0, <2>2, <3>6, SteamSignsIn
    <3> QED
      BY <1>0, <1>2, <2>1, <3>2, <3>5, <3>7, AccountTurn, AccountJobStays
  <2> QED
    BY <2>3, <2>4
<1>5. CASE ProvisionUser(p)
  <2>1. j.pc = "provision"
    BY <1>1, <1>5 DEF ProvisionUser, At
  <2>2. IsSteam(j) /\ j.user \in AcSteam /\ j.name \in 0 .. MaxNames
    BY <1>1, <2>1 DEF AccountJob, SteamSteps, IsSteam
  <2>3. CASE username_exists(j.user)
    BY <1>1, <1>3, <1>5, <2>1, <2>3 DEF ProvisionUser, acTables
  <2>4. CASE ~username_exists(j.user)
    <3>1. PICK r : r = [j EXCEPT !.pc = "player name"]
      OBVIOUS
    <3>2. /\ InsertUser(j.user) /\ Continue(p, r)
          /\ UNCHANGED <<ac_players, ac_tokens, ac_bans, ac_roles, ac_grants>>
      BY <1>1, <1>5, <2>4, <3>1 DEF ProvisionUser
    <3>3. UsersOK' /\ DOMAIN ac_users' = DOMAIN ac_users \cup {j.user}
      BY <1>0, <2>2, <3>2 DEF AccountTables, UsersOK, InsertUser, Inserted, AcPeople, UserStatus
    <3>4. AccountTables' /\ Grows
      BY <1>0, <3>2, <3>3, UsersWritten
    <3>5. IsSteam(r) /\ r.pc = "player name" /\ r.user = j.user /\ r.name = j.name
      BY <2>2, <3>1 DEF IsSteam, SteamRecord
    <3>6. AccountJob(r)'
      <4> HIDE DEF Provisioned
      <4> QED
        BY <2>2, <3>3, <3>5 DEF AccountJob, SteamSteps, IsSteam
    <3> QED
      BY <1>0, <1>2, <2>1, <3>2, <3>4, <3>6, AccountTurn
  <2> QED
    BY <2>3, <2>4
<1>6. CASE ProvisionName(p)
  <2>1. j.pc = "player name"
    BY <1>1, <1>6 DEF ProvisionName, At
  <2>2. IsSteam(j) /\ j.user \in DOMAIN ac_users /\ j.name \in 0 .. MaxNames
    BY <1>1, <2>1 DEF AccountJob, SteamSteps, IsSteam
  <2>3. UNCHANGED acTables
    BY <1>6 DEF ProvisionName
  <2>4. \/ Finish(p)
        \/ Continue(p, [j EXCEPT !.pc = "player"])
        \/ \E n \in derive_available_display_name : Continue(p, [j EXCEPT !.pc = "player", !.name = n])
    BY <1>1, <1>6 DEF ProvisionName
  <2>5. ASSUME NEW r, IsSteam(r), r.pc = "player", r.user = j.user, r.name \in 0 .. MaxNames, Continue(p, r)
        PROVE  AccountTypes'
    <3>1. AccountJob(r)
      BY <2>2, <2>5, SteamJob DEF SteamSteps
    <3> QED
      BY <1>0, <1>2, <2>1, <2>3, <2>5, <3>1, QuietAccountTurn
  <2>6. CASE Continue(p, [j EXCEPT !.pc = "player"])
    <3>1. PICK r : r = [j EXCEPT !.pc = "player"]
      OBVIOUS
    <3>2. IsSteam(r) /\ r.pc = "player" /\ r.user = j.user /\ r.name = j.name
      BY <2>2, <3>1 DEF IsSteam, SteamRecord
    <3> QED
      BY <2>2, <2>5, <2>6, <3>1, <3>2
  <2>7. CASE \E n \in derive_available_display_name : Continue(p, [j EXCEPT !.pc = "player", !.name = n])
    <3>1. PICK n \in derive_available_display_name : Continue(p, [j EXCEPT !.pc = "player", !.name = n])
      BY <2>7
    <3>2. n \in 0 .. MaxNames
      BY AccountsAssumption DEF derive_available_display_name
    <3>3. PICK r : r = [j EXCEPT !.pc = "player", !.name = n]
      OBVIOUS
    <3>4. IsSteam(r) /\ r.pc = "player" /\ r.user = j.user /\ r.name = n
      BY <2>2, <3>3 DEF IsSteam, SteamRecord
    <3> QED
      BY <2>5, <3>1, <3>2, <3>3, <3>4
  <2> QED
    BY <1>3, <2>1, <2>3, <2>4, <2>6, <2>7
<1>7. CASE ProvisionPlayer(p)
  <2>1. j.pc = "player"
    BY <1>1, <1>7 DEF ProvisionPlayer, At
  <2>2. IsSteam(j) /\ j.user \in DOMAIN ac_users /\ j.name \in 0 .. MaxNames
    BY <1>1, <2>1 DEF AccountJob, SteamSteps, IsSteam
  <2>3. CASE display_name_taken(j.name) \/ j.user \in DOMAIN ac_players
    BY <1>1, <1>3, <1>7, <2>1, <2>3 DEF ProvisionPlayer, acTables
  <2>4. CASE ~display_name_taken(j.name) /\ j.user \notin DOMAIN ac_players
    <3>1. PICK r : r = [j EXCEPT !.pc = "stamp"]
      OBVIOUS
    <3>2. /\ InsertPlayer(j.user, j.name) /\ Continue(p, r)
          /\ UNCHANGED <<ac_users, ac_tokens, ac_bans, ac_roles, ac_grants>>
      BY <1>1, <1>7, <2>4, <3>1 DEF ProvisionPlayer
    <3>3. /\ PlayersOK' /\ DOMAIN ac_players \subseteq DOMAIN ac_players'
          /\ \A y \in DOMAIN ac_players : Provisioned(y) => Provisioned(y)'
          /\ j.user \in DOMAIN ac_players'
      BY <1>0, <2>2, <2>4, <3>2, PlayerInserted DEF AccountTables
    <3>4. AccountTables' /\ Grows
      BY <1>0, <3>2, <3>3, PlayersWritten
    <3>5. IsSteam(r) /\ r.pc = "stamp" /\ r.user = j.user
      BY <2>2, <3>1 DEF IsSteam, SteamRecord
    <3>6. AccountJob(r)'
      <4> HIDE DEF Provisioned
      <4> QED
        BY <2>2, <3>2, <3>3, <3>5 DEF AccountJob, SteamSteps, IsSteam
    <3> QED
      BY <1>0, <1>2, <2>1, <3>2, <3>4, <3>6, AccountTurn
  <2> QED
    BY <2>3, <2>4
<1>8. CASE StampSteamId(p)
  <2>1. j.pc = "stamp"
    BY <1>1, <1>8 DEF StampSteamId, At
  <2>2. /\ IsSteam(j) /\ j.user \in DOMAIN ac_users /\ j.user \in DOMAIN ac_players
        /\ j.steam \in AcSteam /\ j.user \in AcSteam /\ j.steam = j.user
    BY <1>1, <2>1 DEF AccountJob, SteamSteps, IsSteam
  <2>3. CASE ~(find_by_steam_id_64(j.steam) \subseteq {j.user})
    BY <1>1, <1>3, <1>8, <2>1, <2>3 DEF StampSteamId, acTables
  <2>4. CASE find_by_steam_id_64(j.steam) \subseteq {j.user}
    <3>1. PICK pc : pc = IF j.created THEN "default role" ELSE "token"
      OBVIOUS
    <3>2. PICK r : r = [j EXCEPT !.pc = pc]
      OBVIOUS
    <3>3. /\ ac_players' = [ac_players EXCEPT ![j.user].steam = j.steam] /\ Continue(p, r)
          /\ UNCHANGED <<ac_users, ac_tokens, ac_bans, ac_roles, ac_grants>>
      BY <1>1, <1>8, <2>4, <3>1, <3>2 DEF StampSteamId, AfterStamp
    <3>4. /\ PlayersOK' /\ DOMAIN ac_players \subseteq DOMAIN ac_players'
          /\ \A y \in DOMAIN ac_players : Provisioned(y) => Provisioned(y)'
          /\ Provisioned(j.user)'
      BY <1>0, <2>2, <2>4, <3>3, SteamWritten DEF AccountTables
    <3>5. AccountTables' /\ Grows
      BY <1>0, <3>3, <3>4, PlayersWritten
    <3>6. IsSteam(r) /\ r.pc = pc /\ r.user = j.user
      BY <2>2, <3>2 DEF IsSteam, SteamRecord
    <3>7. 0 \in 0 .. Len(ac_tokens')
      BY <1>0, <3>3, NoSession
    <3>8. AccountJob(r)'
      <4> HIDE DEF Provisioned
      <4> QED
        BY <2>2, <3>1, <3>3, <3>4, <3>6, <3>7 DEF AccountJob, SteamSteps, IsSteam
    <3> QED
      BY <1>0, <1>2, <2>1, <3>3, <3>5, <3>8, AccountTurn
  <2> QED
    BY <2>3, <2>4
<1> QED
  BY <1>4, <1>5, <1>6, <1>7, <1>8

\* Refreshing and ending sessions.
LEMMA SessionStepTypes ==
    ASSUME AccountTypes, NEW p \in Users,
           Refresh(p) \/ try_revoke(p) \/ RefreshGate(p) \/ RevokeAll(p) \/ Logout(p) \/ RevokeOne(p)
           \/ LogoutAll(p)
    PROVE  AccountTypes'
<1>0. p \in Tasks /\ AccountTables /\ TokensOK
  BY DEF Tasks, AccountTypes, AccountTables
<1>j. PICK j : j = req[p]
  OBVIOUS
<1>1. AccountJob(j) /\ req[p] = j
  BY <1>0, <1>j DEF AccountTypes
<1>n. NoRequest.pc = "idle"
  BY DEF NoRequest
<1>2. /\ \A r : Continue(p, r) /\ j.pc # "idle" => Moves(p, r)
      /\ \A r : Request(p, r) => Moves(p, r)
  BY <1>1, <1>n DEF Moves
<1>3. ASSUME j.pc # "idle", UNCHANGED acTables, Finish(p) PROVE AccountTypes'
  BY <1>0, <1>2, <1>3, QuietAccountTurn, IdleAccountJob DEF Finish
<1>4. ASSUME NEW D, Revoking(D), UNCHANGED <<ac_users, ac_players, ac_bans, ac_roles, ac_grants>>
      PROVE  AccountTables' /\ Grows
  BY <1>0, <1>4, TokensRevoked
<1>5. CASE Refresh(p)
  <2>1. PICK i \in DOMAIN ac_tokens :
            Request(p, [pc |-> IF ac_tokens[i].revoked THEN "revoke all"
                               ELSE IF ac_tokens[i].expired THEN "revoke" ELSE "rotate",
                        token |-> i, user |-> ac_tokens[i].user])
    BY <1>5 DEF Refresh
  <2>2. PICK pc : pc = IF ac_tokens[i].revoked THEN "revoke all"
                       ELSE IF ac_tokens[i].expired THEN "revoke" ELSE "rotate"
    OBVIOUS
  <2>3. PICK r : r = [pc |-> pc, token |-> i, user |-> ac_tokens[i].user]
    OBVIOUS
  <2>4. /\ r \in [pc : {r.pc}, token : {r.token}, user : {r.user}]
        /\ r.pc = pc /\ r.token = i /\ r.user = ac_tokens[i].user
    BY <2>3
  <2>5. AccountJob(r)
    BY <2>2, <2>4 DEF AccountJob, SteamSteps
  <2> QED
    BY <1>0, <1>2, <1>5, <2>1, <2>2, <2>3, <2>5, QuietAccountTurn DEF Refresh
<1>6. CASE try_revoke(p)
  <2>1. j.pc = "rotate"
    BY <1>1, <1>6 DEF try_revoke, At
  <2>2. /\ j \in [pc : {j.pc}, token : {j.token}, user : {j.user}]
        /\ j.token \in DOMAIN ac_tokens /\ j.user = ac_tokens[j.token].user
    BY <1>1, <2>1 DEF AccountJob
  <2>3. CASE ac_tokens[j.token].revoked
    BY <1>1, <1>3, <1>6, <2>1, <2>3 DEF try_revoke, acTables
  <2>4. CASE ~ac_tokens[j.token].revoked
    <3>1. PICK r : r = [j EXCEPT !.pc = "gate"]
      OBVIOUS
    <3>2. revoke(j.token) /\ Continue(p, r) /\ UNCHANGED <<ac_users, ac_players, ac_bans, ac_roles, ac_grants>>
      BY <1>1, <1>6, <2>4, <3>1 DEF try_revoke
    <3>3. AccountTables' /\ Grows
      BY <1>0, <1>4, <2>2, <3>2, TokenWritten
    <3>4. r \in [pc : {r.pc}, token : {r.token}, user : {r.user}] /\ r.pc = "gate"
          /\ r.token = j.token /\ r.user = j.user
      BY <2>2, <3>1
    <3>5. AccountJob(r)
      BY <2>2, <3>4 DEF AccountJob, SteamSteps
    <3> QED
      BY <1>0, <1>2, <2>1, <3>2, <3>3, <3>5, AccountTurn, AccountJobStays
  <2> QED
    BY <2>3, <2>4
<1>7. CASE RefreshGate(p)
  <2>1. j.pc = "gate" /\ UNCHANGED acTables
    BY <1>1, <1>7 DEF RefreshGate, At
  <2>2. /\ j \in [pc : {j.pc}, token : {j.token}, user : {j.user}]
        /\ j.token \in DOMAIN ac_tokens /\ j.user = ac_tokens[j.token].user
    BY <1>1, <2>1 DEF AccountJob
  <2>3. /\ j.user \in DOMAIN ac_users /\ Provisioned(j.user)
        /\ ac_tokens[j.token].session \in 0 .. Len(ac_tokens)
    <3>1. ac_tokens[j.token].session \in 1 .. j.token /\ DOMAIN ac_tokens = 1 .. Len(ac_tokens) /\ Len(ac_tokens) \in Nat
      BY <1>0, <2>2, LenProperties DEF TokensOK
    <3>2. ac_tokens[j.token].session \in 0 .. Len(ac_tokens)
      BY <2>2, <3>1
    <3> QED
      BY <1>0, <2>2, <3>2 DEF TokensOK
  <2>4. CASE is_active(j.user)
    <3>1. PICK s : s = ac_tokens[j.token].session
      OBVIOUS
    <3>2. PICK r : r = [pc |-> "token", user |-> j.user, session |-> s]
      OBVIOUS
    <3>3. r \in SignInRecord(r) /\ r.pc = "token" /\ r.user = j.user /\ r.session = s
      BY <3>2 DEF SignInRecord
    <3>4. AccountJob(r)
      <4> HIDE DEF Provisioned
      <4> QED
        BY <2>3, <3>1, <3>3 DEF AccountJob, SteamSteps
    <3>5. Continue(p, r)
      BY <1>1, <1>7, <2>4, <3>1, <3>2 DEF RefreshGate
    <3> QED
      BY <1>0, <1>2, <2>1, <3>4, <3>5, QuietAccountTurn
  <2>5. CASE ~is_active(j.user)
    <3>1. PICK r : r = [j EXCEPT !.pc = "revoke all"]
      OBVIOUS
    <3>2. r.pc = "revoke all"
      BY <2>2, <3>1
    <3>3. AccountJob(r)
      BY <3>2 DEF AccountJob, SteamSteps
    <3>4. Continue(p, r)
      BY <1>1, <1>7, <2>5, <3>1 DEF RefreshGate
    <3> QED
      BY <1>0, <1>2, <2>1, <3>3, <3>4, QuietAccountTurn
  <2> QED
    BY <2>4, <2>5
<1>8. CASE RevokeAll(p)
  <2>1. j.pc = "revoke all"
    BY <1>1, <1>8 DEF RevokeAll, At
  <2>2. AccountTables' /\ Grows
    BY <1>0, <1>4, <1>8, TokensOfUserRevoked DEF RevokeAll
  <2> QED
    BY <1>0, <1>2, <1>8, <2>1, <2>2, LastAccountTurn DEF RevokeAll, Finish
<1>9. CASE Logout(p)
  <2>1. PICK i \in DOMAIN ac_tokens : Request(p, [pc |-> "revoke", token |-> i])
    BY <1>9 DEF Logout
  <2>2. PICK r : r = [pc |-> "revoke", token |-> i]
    OBVIOUS
  <2>3. r.pc = "revoke" /\ r.token = i
    BY <2>2
  <2>4. AccountJob(r)
    BY <2>3 DEF AccountJob, SteamSteps
  <2> QED
    BY <1>0, <1>2, <1>9, <2>1, <2>2, <2>4, QuietAccountTurn DEF Logout
<1>10. CASE RevokeOne(p)
  <2>1. j.pc = "revoke"
    BY <1>1, <1>10 DEF RevokeOne, At
  <2>2. j.token \in DOMAIN ac_tokens
    BY <1>1, <2>1 DEF AccountJob
  <2>3. revoke(j.token)
    BY <1>1, <1>10 DEF RevokeOne
  <2>4. AccountTables' /\ Grows
    BY <1>0, <1>4, <1>10, <2>2, <2>3, TokenWritten DEF RevokeOne
  <2> QED
    BY <1>0, <1>2, <1>10, <2>1, <2>4, LastAccountTurn DEF RevokeOne, Finish
<1>11. CASE LogoutAll(p)
  <2>1. PICK x \in DOMAIN ac_users : Request(p, NoRequest) /\ revoke_all_for_user(x)
    BY <1>11 DEF LogoutAll
  <2>2. AccountTables' /\ Grows
    BY <1>0, <1>4, <1>11, <2>1, TokensOfUserRevoked DEF LogoutAll
  <2> QED
    BY <1>0, <1>2, <2>1, <2>2, LastAccountTurn
<1> QED
  BY <1>5, <1>6, <1>7, <1>8, <1>9, <1>10, <1>11

\* A status is written.
LEMMA StatusWritten ==
    ASSUME AccountTables, NEW x \in DOMAIN ac_users, NEW status \in UserStatus,
           update_user_status(x, status), UNCHANGED <<ac_players, ac_tokens, ac_bans, ac_roles, ac_grants>>
    PROVE  AccountTables' /\ Grows
<1>1. UsersOK' /\ DOMAIN ac_users' = DOMAIN ac_users
  BY DEF AccountTables, UsersOK, update_user_status
<1> QED
  BY <1>1, UsersWritten

\* A ban is recorded and enforced in one transaction.
LEMMA BanEnforced ==
    ASSUME AccountTables, NEW x \in DOMAIN ac_users, NEW type, NEW D, Recorded(x, type), Revoking(D),
           update_user_status(x, "banned"), UNCHANGED <<ac_players, ac_roles, ac_grants>>
    PROVE  AccountTables' /\ Grows
<1>1. Len(ac_tokens) \in Nat
  BY LenProperties DEF AccountTables, TokensOK
<1>2. UsersOK' /\ DOMAIN ac_users' = DOMAIN ac_users
  BY DEF AccountTables, UsersOK, update_user_status, UserStatus
<1>3. PlayersOK' /\ GrantNamesRole'
  BY <1>2 DEF AccountTables, PlayersOK, GrantNamesRole
<1>4. \A y : Provisioned(y)' = Provisioned(y)
  BY DEF Provisioned
<1>5. TokensOK'
  BY <1>2, <1>4 DEF AccountTables, TokensOK, Revoking
<1>6. BansOK'
  <2>1. \A b \in DOMAIN ac_bans' : b \in DOMAIN ac_bans \/ b = Len(ac_bans) + 1
    BY DEF Recorded
  <2> QED
    BY <1>2, <2>1 DEF AccountTables, BansOK, Recorded
<1>7. Grows
  BY <1>1, <1>2, <1>4 DEF Grows, Revoking, Recorded
<1> QED
  BY <1>2, <1>3, <1>5, <1>6, <1>7 DEF AccountTables

\* Bans through the API.
LEMMA BanStepTypes ==
    ASSUME AccountTypes, NEW p \in Users,
           CreateBan(p) \/ create_and_enforce(p) \/ LiftBan(p) \/ lift(p) \/ StillBanned(p)
           \/ FindBannedUser(p) \/ RestoreStatus(p)
    PROVE  AccountTypes'
<1>0. p \in Tasks /\ AccountTables /\ BansOK /\ TokensOK
  BY DEF Tasks, AccountTypes, AccountTables
<1>j. PICK j : j = req[p]
  OBVIOUS
<1>1. AccountJob(j) /\ req[p] = j
  BY <1>0, <1>j DEF AccountTypes
<1>n. NoRequest.pc = "idle"
  BY DEF NoRequest
<1>2. /\ \A r : Continue(p, r) /\ j.pc # "idle" => Moves(p, r)
      /\ \A r : Request(p, r) => Moves(p, r)
  BY <1>1, <1>n DEF Moves
<1>3. ASSUME j.pc # "idle", UNCHANGED acTables, Finish(p) PROVE AccountTypes'
  BY <1>0, <1>2, <1>3, QuietAccountTurn, IdleAccountJob DEF Finish
<1>4. ASSUME j.pc # "idle", AccountTables', Grows, Finish(p) PROVE AccountTypes'
  BY <1>0, <1>2, <1>4, LastAccountTurn DEF Finish
<1>l. ASSUME j.pc \in {"lift", "still banned", "banned user", "restore"}
      PROVE  /\ j \in [pc : {j.pc}, ban : {j.ban}, user : {j.user}]
             /\ j.ban \in DOMAIN ac_bans /\ j.user = ac_bans[j.ban].user /\ j.user \in DOMAIN ac_users
  BY <1>1, <1>l DEF AccountJob
<1>r. ASSUME j.pc \in {"lift", "still banned", "banned user", "restore"},
             NEW pc \in {"still banned", "banned user", "restore"}, NEW r, r = [j EXCEPT !.pc = pc]
      PROVE  AccountJob(r)
  <2>1. /\ j \in [pc : {j.pc}, ban : {j.ban}, user : {j.user}]
        /\ j.ban \in DOMAIN ac_bans /\ j.user = ac_bans[j.ban].user /\ j.user \in DOMAIN ac_users
    BY <1>l, <1>r
  <2>2. r \in [pc : {r.pc}, ban : {r.ban}, user : {r.user}] /\ r.pc = pc /\ r.ban = j.ban /\ r.user = j.user
    BY <1>r, <2>1
  <2> QED
    BY <1>r, <2>1, <2>2 DEF AccountJob, SteamSteps
<1>5. CASE CreateBan(p)
  <2>1. PICK x \in DOMAIN ac_users, type \in BanType, scope \in BanScopes, t \in BOOLEAN :
            Request(p, [pc |-> "enforce", user |-> x, type |-> type, scope |-> scope, temporary |-> t])
    BY <1>5 DEF CreateBan
  <2>2. PICK r : r = [pc |-> "enforce", user |-> x, type |-> type, scope |-> scope, temporary |-> t]
    OBVIOUS
  <2>3. r.pc = "enforce" /\ r.user = x /\ r.type = type /\ r.scope = scope /\ r.temporary = t
    BY <2>2
  <2>4. AccountJob(r)
    BY <2>3 DEF AccountJob, SteamSteps
  <2> QED
    BY <1>0, <1>2, <1>5, <2>1, <2>2, <2>4, QuietAccountTurn DEF CreateBan
<1>6. CASE create_and_enforce(p)
  <2>1. j.pc = "enforce" /\ Finish(p) /\ UNCHANGED <<ac_players, ac_roles, ac_grants>>
    BY <1>1, <1>6 DEF create_and_enforce, At
  <2>2. j.user \in DOMAIN ac_users /\ j.type \in BanType /\ j.scope \in BanScopes /\ j.temporary \in BOOLEAN
    BY <1>1, <2>1 DEF AccountJob
  <2>3. j.user \in AcPeople
    BY <1>0, <2>2 DEF AccountTables, UsersOK
  <2>4. CASE ~bans_unique_active(j.user, j.type, j.scope)
    BY <1>1, <1>3, <1>6, <2>1, <2>4 DEF create_and_enforce, acTables
  <2>5. CASE bans_unique_active(j.user, j.type, j.scope)
    <3>1. /\ InsertBan(j.user, j.type, j.scope, j.temporary)
          /\ IF j.type = "platform" THEN update_user_status(j.user, "banned") ELSE UNCHANGED ac_users
          /\ IF j.type = "platform" THEN revoke_all_for_user(j.user) ELSE UNCHANGED ac_tokens
      BY <1>1, <1>6, <2>5 DEF create_and_enforce
    <3>2. Recorded(j.user, j.type)
      BY <1>0, <2>2, <2>3, <3>1, BanRecorded
    <3>3. CASE j.type = "platform"
      <4>1. update_user_status(j.user, "banned") /\ revoke_all_for_user(j.user)
        BY <3>1, <3>3
      <4>2. PICK D : Revoking(D)
        BY <1>0, <4>1, TokensOfUserRevoked
      <4>3. AccountTables' /\ Grows
        BY <1>0, <2>1, <2>2, <3>2, <4>1, <4>2, BanEnforced
      <4> QED
        BY <1>4, <2>1, <4>3
    <3>4. CASE j.type # "platform"
      <4>1. UNCHANGED <<ac_users, ac_tokens>>
        BY <3>1, <3>4
      <4>2. AccountTables' /\ Grows
        BY <1>0, <2>1, <2>2, <3>2, <4>1, BansRecorded
      <4> QED
        BY <1>4, <2>1, <4>2
    <3> QED
      BY <3>3, <3>4
  <2> QED
    BY <2>4, <2>5
<1>7. CASE LiftBan(p)
  <2>1. PICK b \in DOMAIN ac_bans : Request(p, [pc |-> "lift", ban |-> b, user |-> ac_bans[b].user])
    BY <1>7 DEF LiftBan
  <2>2. PICK x : x = ac_bans[b].user
    OBVIOUS
  <2>3. PICK r : r = [pc |-> "lift", ban |-> b, user |-> x]
    OBVIOUS
  <2>4. r \in [pc : {r.pc}, ban : {r.ban}, user : {r.user}] /\ r.pc = "lift" /\ r.ban = b /\ r.user = x
    BY <2>3
  <2>5. x \in DOMAIN ac_users
    BY <1>0, <2>2 DEF BansOK
  <2>6. AccountJob(r)
    BY <2>2, <2>4, <2>5 DEF AccountJob, SteamSteps
  <2> QED
    BY <1>0, <1>2, <1>7, <2>1, <2>2, <2>3, <2>6, QuietAccountTurn DEF LiftBan
<1>8. CASE lift(p)
  <2>1. j.pc = "lift" /\ UNCHANGED <<ac_users, ac_players, ac_tokens, ac_roles, ac_grants>>
    BY <1>1, <1>8 DEF lift, At
  <2>2. j.ban \in DOMAIN ac_bans
    BY <1>l, <2>1
  <2>3. ac_bans' = [ac_bans EXCEPT ![j.ban].lifted = TRUE]
    BY <1>1, <1>8 DEF lift
  <2>4. Lifted({j.ban})
    BY <1>0, <2>2, <2>3, BanWritten
  <2>5. AccountTables' /\ Grows
    BY <1>0, <2>1, <2>4, BansLifted
  <2>6. CASE Finish(p)
    BY <1>4, <2>1, <2>5, <2>6
  <2>7. CASE Continue(p, [j EXCEPT !.pc = "still banned"])
    <3>1. PICK r : r = [j EXCEPT !.pc = "still banned"]
      OBVIOUS
    <3>2. AccountJob(r)
      BY <1>r, <2>1, <3>1
    <3> QED
      BY <1>0, <1>2, <2>1, <2>5, <2>7, <3>1, <3>2, AccountTurn, AccountJobStays
  <2> QED
    BY <1>1, <1>8, <2>6, <2>7 DEF lift
<1>9. CASE StillBanned(p)
  <2>1. j.pc = "still banned" /\ UNCHANGED acTables
    BY <1>1, <1>9 DEF StillBanned, At
  <2>2. CASE Finish(p)
    BY <1>3, <2>1, <2>2
  <2>3. CASE Continue(p, [j EXCEPT !.pc = "banned user"])
    <3>1. PICK r : r = [j EXCEPT !.pc = "banned user"]
      OBVIOUS
    <3>2. AccountJob(r)
      BY <1>r, <2>1, <3>1
    <3> QED
      BY <1>0, <1>2, <2>1, <2>3, <3>1, <3>2, QuietAccountTurn
  <2> QED
    BY <1>1, <1>9, <2>2, <2>3 DEF StillBanned
<1>10. CASE FindBannedUser(p)
  <2>1. j.pc = "banned user" /\ UNCHANGED acTables
    BY <1>1, <1>10 DEF FindBannedUser, At
  <2>2. CASE Finish(p)
    BY <1>3, <2>1, <2>2
  <2>3. CASE Continue(p, [j EXCEPT !.pc = "restore"])
    <3>1. PICK r : r = [j EXCEPT !.pc = "restore"]
      OBVIOUS
    <3>2. AccountJob(r)
      BY <1>r, <2>1, <3>1
    <3> QED
      BY <1>0, <1>2, <2>1, <2>3, <3>1, <3>2, QuietAccountTurn
  <2> QED
    BY <1>1, <1>10, <2>2, <2>3 DEF FindBannedUser
<1>11. CASE RestoreStatus(p)
  <2>1. j.pc = "restore" /\ Finish(p)
    BY <1>1, <1>11 DEF RestoreStatus, At
  <2>2. j.user \in DOMAIN ac_users
    BY <1>l, <2>1
  <2>3. "active" \in UserStatus
    BY DEF UserStatus
  <2>4. update_user_status(j.user, "active")
    BY <1>1, <1>11 DEF RestoreStatus
  <2>5. AccountTables' /\ Grows
    BY <1>0, <1>11, <2>2, <2>3, <2>4, StatusWritten DEF RestoreStatus
  <2> QED
    BY <1>4, <2>1, <2>5
<1> QED
  BY <1>5, <1>6, <1>7, <1>8, <1>9, <1>10, <1>11

\* Bans and statuses from the command line.
LEMMA CommandStepTypes ==
    ASSUME AccountTypes, NEW p \in Users,
           BanUser(p) \/ BanUserStatus(p) \/ UnbanUser(p) \/ UnbanUserStatus(p)
           \/ DisableUser(p) \/ EnableUser(p) \/ RecordBan(p) \/ LiftById(p)
    PROVE  AccountTypes'
<1>0. p \in Tasks /\ AccountTables /\ BansOK
  BY DEF Tasks, AccountTypes, AccountTables
<1>j. PICK j : j = req[p]
  OBVIOUS
<1>1. AccountJob(j) /\ req[p] = j
  BY <1>0, <1>j DEF AccountTypes
<1>n. NoRequest.pc = "idle"
  BY DEF NoRequest
<1>2. /\ \A r : Continue(p, r) /\ j.pc # "idle" => Moves(p, r)
      /\ \A r : Request(p, r) => Moves(p, r)
  BY <1>1, <1>n DEF Moves
<1>3. UserStatus = {"active", "inactive", "banned"} /\ "platform" \in BanType /\ "none" \in BanScopes
  BY DEF UserStatus, BanType, BanScopes
<1>4. \A x \in DOMAIN ac_users : x \in AcPeople
  BY <1>0 DEF AccountTables, UsersOK
<1>5. ASSUME NEW x \in DOMAIN ac_users, NEW pc \in {"cli banned", "cli unbanned"},
             NEW r, r = [pc |-> pc, user |-> x]
      PROVE  AccountJob(r)
  <2>1. r.pc = pc /\ r.user = x
    BY <1>5
  <2> QED
    BY <1>5, <2>1 DEF AccountJob, SteamSteps
<1>6. CASE BanUser(p)
  <2>1. PICK x \in DOMAIN ac_users, t \in BOOLEAN :
            Request(p, [pc |-> "cli banned", user |-> x]) /\ InsertBan(x, "platform", "none", t)
    BY <1>6 DEF BanUser
  <2>2. PICK r : r = [pc |-> "cli banned", user |-> x]
    OBVIOUS
  <2>3. AccountJob(r)
    BY <1>5, <2>2
  <2>4. Recorded(x, "platform")
    BY <1>0, <1>3, <1>4, <2>1, BanRecorded
  <2>5. AccountTables' /\ Grows
    BY <1>0, <1>6, <2>4, BansRecorded DEF BanUser
  <2> QED
    BY <1>0, <1>2, <2>1, <2>2, <2>3, <2>5, AccountTurn, AccountJobStays
<1>7. CASE BanUserStatus(p) \/ UnbanUserStatus(p)
  <2>1. j.pc \in {"cli banned", "cli unbanned"} /\ Finish(p)
    BY <1>1, <1>7 DEF BanUserStatus, UnbanUserStatus, At
  <2>2. j.user \in DOMAIN ac_users
    BY <1>1, <2>1 DEF AccountJob
  <2>3. PICK status \in UserStatus : update_user_status(j.user, status)
    BY <1>1, <1>3, <1>7 DEF BanUserStatus, UnbanUserStatus
  <2>4. AccountTables' /\ Grows
    BY <1>0, <1>7, <2>2, <2>3, StatusWritten DEF BanUserStatus, UnbanUserStatus
  <2> QED
    BY <1>0, <1>2, <2>1, <2>4, LastAccountTurn DEF Finish
<1>8. CASE UnbanUser(p)
  <2>1. PICK x \in DOMAIN ac_users :
            /\ Request(p, [pc |-> "cli unbanned", user |-> x])
            /\ ac_bans' = [b \in DOMAIN ac_bans |->
                   IF b \in get_active_for_user(x) THEN [ac_bans[b] EXCEPT !.lifted = TRUE]
                   ELSE ac_bans[b]]
    BY <1>8 DEF UnbanUser
  <2>2. PICK r : r = [pc |-> "cli unbanned", user |-> x]
    OBVIOUS
  <2>3. AccountJob(r)
    BY <1>5, <2>2
  <2>4. PICK D : D = get_active_for_user(x)
    OBVIOUS
  <2>5. Lifted(D)
    BY <1>0, <2>1, <2>4, BansOfUserLifted
  <2>6. AccountTables' /\ Grows
    BY <1>0, <1>8, <2>5, BansLifted DEF UnbanUser
  <2> QED
    BY <1>0, <1>2, <2>1, <2>2, <2>3, <2>6, AccountTurn, AccountJobStays
<1>9. CASE DisableUser(p) \/ EnableUser(p)
  <2>1. PICK x \in DOMAIN ac_users, status \in UserStatus :
            Request(p, NoRequest) /\ update_user_status(x, status)
    BY <1>3, <1>9 DEF DisableUser, EnableUser
  <2>2. AccountTables' /\ Grows
    BY <1>0, <1>9, <2>1, StatusWritten DEF DisableUser, EnableUser
  <2> QED
    BY <1>0, <1>2, <2>1, <2>2, LastAccountTurn
<1>10. CASE RecordBan(p)
  <2>1. PICK x \in DOMAIN ac_users, type \in BanType, scope \in BanScopes, t \in BOOLEAN :
            Request(p, NoRequest) /\ InsertBan(x, type, scope, t)
    BY <1>10 DEF RecordBan
  <2>2. Recorded(x, type)
    BY <1>0, <1>4, <2>1, BanRecorded
  <2>3. AccountTables' /\ Grows
    BY <1>0, <1>10, <2>2, BansRecorded DEF RecordBan
  <2> QED
    BY <1>0, <1>2, <2>1, <2>3, LastAccountTurn
<1>11. CASE LiftById(p)
  <2>1. PICK b \in DOMAIN ac_bans :
            Request(p, NoRequest) /\ ac_bans' = [ac_bans EXCEPT ![b].lifted = TRUE]
    BY <1>11 DEF LiftById
  <2>2. Lifted({b})
    BY <1>0, <2>1, BanWritten
  <2>3. AccountTables' /\ Grows
    BY <1>0, <1>11, <2>2, BansLifted DEF LiftById
  <2> QED
    BY <1>0, <1>2, <2>1, <2>3, LastAccountTurn
<1> QED
  BY <1>6, <1>7, <1>8, <1>9, <1>10, <1>11

\* A role is created, deleted or changed.
LEMMA RolesWritten ==
    ASSUME GrantNamesRole, NEW k
    PROVE  /\ create_role_row(k) => GrantNamesRole'
           /\ delete_role_row(k) => GrantNamesRole'
           /\ \A rank : update_role_row(k, rank) => GrantNamesRole'
           /\ \A add : set_role_permission(k, add) /\ UNCHANGED ac_grants => GrantNamesRole'
           /\ \A x : revoke_from_user(x, k) /\ UNCHANGED ac_roles => GrantNamesRole'
<1>1. ASSUME create_role_row(k) PROVE GrantNamesRole'
  <2>1. DOMAIN ac_roles' = DOMAIN ac_roles \cup {k} /\ ac_grants' = ac_grants
    BY <1>1 DEF create_role_row, Inserted
  <2> QED
    BY <2>1 DEF GrantNamesRole
<1>2. ASSUME delete_role_row(k) PROVE GrantNamesRole'
  <2>1. /\ DOMAIN ac_roles' = DOMAIN ac_roles \ {k}
        /\ DOMAIN ac_grants' = {h \in DOMAIN ac_grants : h[2] # k}
    BY <1>2 DEF delete_role_row
  <2> QED
    BY <2>1 DEF GrantNamesRole
<1>3. ASSUME NEW rank, update_role_row(k, rank) PROVE GrantNamesRole'
  BY <1>3 DEF GrantNamesRole, update_role_row
<1>4. ASSUME NEW add, set_role_permission(k, add), UNCHANGED ac_grants PROVE GrantNamesRole'
  BY <1>4 DEF GrantNamesRole, set_role_permission
<1>5. ASSUME NEW x, revoke_from_user(x, k), UNCHANGED ac_roles PROVE GrantNamesRole'
  <2>1. DOMAIN ac_grants' \subseteq DOMAIN ac_grants
    BY <1>5 DEF revoke_from_user
  <2> QED
    BY <1>5, <2>1 DEF GrantNamesRole
<1> QED
  BY <1>1, <1>2, <1>3, <1>4, <1>5

\* Administration of roles.
LEMMA RoleStepTypes ==
    ASSUME AccountTypes, NEW p \in Users,
           AssignRole(p) \/ RevokeRole(p) \/ ChangePermission(p) \/ CliAssignRole(p)
           \/ CliRevokeRole(p) \/ CliChangePermission(p) \/ InsertGrant(p) \/ WithdrawGrant(p)
           \/ CreateRole(p) \/ DeleteRole(p) \/ UpdateRole(p) \/ WritePermission(p)
           \/ CliCreateRole(p) \/ CliDeleteRole(p)
    PROVE  AccountTypes'
<1>0. p \in Tasks /\ AccountTables /\ GrantNamesRole
  BY DEF Tasks, AccountTypes, AccountTables
<1>j. PICK j : j = req[p]
  OBVIOUS
<1>n. NoRequest.pc = "idle"
  BY DEF NoRequest
<1>1. AccountJob(j) /\ req[p] = j
  BY <1>0, <1>j DEF AccountTypes
<1>2. ASSUME NEW r, AccountJob(r), Request(p, r), UNCHANGED acTables PROVE AccountTypes'
  BY <1>0, <1>2, QuietAccountTurn DEF Moves
<1>3. ASSUME Moves(p, NoRequest), GrantNamesRole', UNCHANGED <<ac_users, ac_players, ac_tokens, ac_bans>>
      PROVE  AccountTypes'
  BY <1>0, <1>3, GrantsWritten, LastAccountTurn
<1>4. ASSUME NEW pc \in {"assign", "withdraw"}, NEW x, NEW k, NEW r, r = [pc |-> pc, user |-> x, role |-> k]
      PROVE  AccountJob(r)
  <2>1. r.pc = pc
    BY <1>4
  <2> QED
    BY <1>4, <2>1 DEF AccountJob, SteamSteps
<1>5. ASSUME NEW k, NEW add, NEW r, r = [pc |-> "permission", role |-> k, add |-> add]
      PROVE  AccountJob(r)
  <2>1. r.pc = "permission"
    BY <1>5
  <2> QED
    BY <2>1 DEF AccountJob, SteamSteps
<1>6. CASE AssignRole(p) \/ RevokeRole(p) \/ CliAssignRole(p) \/ CliRevokeRole(p)
  <2>0. PICK pc \in {"assign", "withdraw"} : \E x, k : Request(p, [pc |-> pc, user |-> x, role |-> k])
    BY <1>6 DEF AssignRole, RevokeRole, CliAssignRole, CliRevokeRole
  <2>1. PICK x, k : Request(p, [pc |-> pc, user |-> x, role |-> k])
    BY <2>0
  <2>2. PICK r : r = [pc |-> pc, user |-> x, role |-> k]
    OBVIOUS
  <2>3. UNCHANGED acTables
    BY <1>6 DEF AssignRole, RevokeRole, CliAssignRole, CliRevokeRole
  <2> QED
    BY <1>2, <1>4, <2>1, <2>2, <2>3
<1>7. CASE ChangePermission(p) \/ CliChangePermission(p)
  <2>1. PICK k, add : Request(p, [pc |-> "permission", role |-> k, add |-> add])
    BY <1>7 DEF ChangePermission, CliChangePermission
  <2>2. PICK r : r = [pc |-> "permission", role |-> k, add |-> add]
    OBVIOUS
  <2>3. UNCHANGED acTables
    BY <1>7 DEF ChangePermission, CliChangePermission
  <2> QED
    BY <1>2, <1>5, <2>1, <2>2, <2>3
<1>8. CASE InsertGrant(p) \/ WithdrawGrant(p) \/ WritePermission(p)
  <2>1. j.pc \in {"assign", "withdraw", "permission"} /\ Finish(p)
    BY <1>1, <1>8 DEF InsertGrant, WithdrawGrant, WritePermission, At
  <2>2. Moves(p, NoRequest)
    BY <1>1, <1>n, <2>1 DEF Moves, Finish
  <2>3. UNCHANGED <<ac_users, ac_players, ac_tokens, ac_bans>>
    BY <1>8 DEF InsertGrant, WithdrawGrant, WritePermission
  <2>4. GrantNamesRole'
    <3>1. CASE InsertGrant(p)
      <4>1. assign_to_user(j.user, j.role) /\ ac_roles' = ac_roles
        BY <1>1, <3>1 DEF InsertGrant
      <4> QED
        BY <1>0, <4>1, GrantInserted
    <3>2. CASE WithdrawGrant(p)
      <4>1. revoke_from_user(j.user, j.role) /\ UNCHANGED ac_roles
        BY <1>1, <3>2 DEF WithdrawGrant
      <4> QED
        BY <1>0, <4>1, RolesWritten
    <3>3. CASE WritePermission(p)
      <4>1. set_role_permission(j.role, j.add) \/ ac_roles' = ac_roles
        BY <1>1, <3>3 DEF WritePermission
      <4>2. UNCHANGED ac_grants
        BY <3>3 DEF WritePermission
      <4>3. CASE ac_roles' = ac_roles
        BY <1>0, <4>2, <4>3 DEF GrantNamesRole
      <4> QED
        BY <1>0, <4>1, <4>2, <4>3, RolesWritten
    <3> QED
      BY <1>8, <3>1, <3>2, <3>3
  <2> QED
    BY <1>3, <2>2, <2>3, <2>4
<1>9. CASE CreateRole(p) \/ DeleteRole(p) \/ UpdateRole(p) \/ CliCreateRole(p) \/ CliDeleteRole(p)
  <2>1. UNCHANGED <<ac_users, ac_players, ac_tokens, ac_bans>>
    BY <1>9 DEF CreateRole, DeleteRole, UpdateRole, CliCreateRole, CliDeleteRole
  <2>2. PICK k : /\ Request(p, NoRequest)
                 /\ create_role_row(k) \/ delete_role_row(k) \/ \E rank : update_role_row(k, rank)
    BY <1>9 DEF CreateRole, DeleteRole, UpdateRole, CliCreateRole, CliDeleteRole
  <2>3. GrantNamesRole'
    BY <1>0, <2>2, RolesWritten
  <2> QED
    BY <1>3, <2>1, <2>2, <2>3 DEF Moves
<1> QED
  BY <1>6, <1>7, <1>8, <1>9

\* Nothing but the clock moves.
LEMMA AccountClockTypes ==
    ASSUME AccountTypes, TokenExpires \/ BanEnds \/ GrantExpires
    PROVE  AccountTypes'
<1>0. AccountTables /\ TokensOK /\ BansOK
  BY DEF AccountTypes, AccountTables
<1>1. UNCHANGED requestVars
  BY DEF TokenExpires, BanEnds, GrantExpires
<1>2. AccountTables' /\ Grows
  <2>1. CASE TokenExpires
    <3>1. PICK n \in DOMAIN ac_tokens : ac_tokens' = [ac_tokens EXCEPT ![n].expired = TRUE]
      BY <2>1 DEF TokenExpires
    <3>2. Revoking({})
      BY <1>0, <3>1, TokenWritten
    <3> QED
      BY <1>0, <2>1, <3>2, TokensRevoked DEF TokenExpires
  <2>2. CASE BanEnds
    <3>1. PICK b \in DOMAIN ac_bans : ac_bans' = [ac_bans EXCEPT ![b].ended = TRUE]
      BY <2>2 DEF BanEnds
    <3>2. Lifted({})
      BY <1>0, <3>1, BanWritten
    <3> QED
      BY <1>0, <2>2, <3>2, BansLifted DEF BanEnds
  <2>3. CASE GrantExpires
    <3>1. DOMAIN ac_grants' = DOMAIN ac_grants /\ ac_roles' = ac_roles
      BY <2>3 DEF GrantExpires
    <3>2. GrantNamesRole'
      BY <1>0, <3>1 DEF AccountTables, GrantNamesRole
    <3> QED
      BY <1>0, <2>3, <3>2, GrantsWritten DEF GrantExpires
  <2> QED
    BY <2>1, <2>2, <2>3
<1>3. \A q \in Tasks : AccountJob(req[q])'
  <2> SUFFICES ASSUME NEW q \in Tasks PROVE AccountJob(req[q])'
    OBVIOUS
  <2>1. PICK j : j = req[q]
    OBVIOUS
  <2>2. AccountJob(j)'
    BY <1>2, <2>1, AccountJobStays DEF AccountTypes
  <2> QED
    BY <1>1, <2>1, <2>2 DEF requestVars
<1>4. RequestsTypeOK'
  BY <1>1 DEF AccountTypes, RequestsTypeOK, requestVars
<1> QED
  BY <1>2, <1>3, <1>4 DEF AccountTypes

\* A task dies.
LEMMA AccountDeathTypes ==
    ASSUME AccountTypes, NEW p \in Tasks, Die(p), UNCHANGED acTables
    PROVE  AccountTypes'
<1>1. AccountTables' /\ Grows
  BY TablesSame DEF AccountTypes
<1>2. RequestsTypeOK' /\ req'[p] = NoRequest /\ \A q \in Tasks : q # p => req'[q] = req[q]
  BY RequestsAssumption DEF AccountTypes, RequestsTypeOK, Die
<1>3. \A q \in Tasks : AccountJob(req[q])'
  <2> SUFFICES ASSUME NEW q \in Tasks PROVE AccountJob(req[q])'
    OBVIOUS
  <2>1. PICK j : j = req[q]
    OBVIOUS
  <2>2. AccountJob(j)'
    BY <1>1, <2>1, AccountJobStays DEF AccountTypes
  <2> QED
    BY <1>2, <2>1, <2>2, IdleAccountJob
<1> QED
  BY <1>1, <1>2, <1>3 DEF AccountTypes

\* The tables at the start.
LEMMA AccountTypesInit ==
    ASSUME RequestsInit, AcInit
    PROVE  AccountTypes
<1>1. RequestsTypeOK
  BY RequestsAssumption DEF RequestsInit, RequestsTypeOK
<1>2. \A p \in Tasks : AccountJob(req[p])
  <2>1. \A p \in Tasks : req[p] = NoRequest
    BY DEF RequestsInit
  <2> QED
    BY <2>1, IdleAccountJob
<1>3. AccountTables
  <2>1. CASE scenario.of # "accounts"
    <3>1. /\ ac_users = << >> /\ ac_players = << >> /\ ac_tokens = << >>
          /\ ac_bans = << >> /\ ac_roles = << >> /\ ac_grants = << >>
      BY <2>1 DEF AcInit
    <3> QED
      BY <3>1, EmptySeq DEF AccountTables, UsersOK, PlayersOK, TokensOK, BansOK, GrantNamesRole
  <2>2. CASE scenario.of = "accounts"
    <3>1. /\ scenario.people \subseteq AcPeople
          /\ \A c \in DOMAIN scenario.callers : scenario.callers[c] \in BuiltInRoles
      BY <2>2, AccountsAssumption DEF RequestsInit
    <3>2. /\ ac_users = [x \in scenario.people |-> "active"]
          /\ ac_players = [x \in scenario.people |->
                 [name |-> 0, steam |-> IF x \in AcSteam THEN x ELSE NoSteamId]]
          /\ ac_tokens = << >> /\ ac_bans = << >> /\ DOMAIN ac_roles = BuiltInRoles
          /\ DOMAIN ac_grants = {<<x, "user">> : x \in scenario.people}
                                 \cup {<<c, scenario.callers[c]>> : c \in DOMAIN scenario.callers}
      BY <2>2 DEF AcInit
    <3>3. UsersOK /\ TokensOK /\ BansOK
      BY <3>1, <3>2, EmptySeq DEF UsersOK, TokensOK, BansOK, UserStatus
    <3>4. PlayersOK
      <4>1. \A x \in DOMAIN ac_players :
                /\ x \in DOMAIN ac_users /\ x \in AcPeople
                /\ ac_players[x] = [name |-> 0, steam |-> IF x \in AcSteam THEN x ELSE NoSteamId]
        BY <3>1, <3>2
      <4>2. \A x \in DOMAIN ac_players :
                /\ x \in DOMAIN ac_users /\ x \in AcPeople
                /\ ac_players[x] \in PlayerRow
                /\ ac_players[x].name = 0
                /\ ac_players[x].steam = IF x \in AcSteam THEN x ELSE NoSteamId
        BY <4>1, AccountsAssumption DEF PlayerRow
      <4> QED
        BY <4>2 DEF PlayersOK
    <3>5. GrantNamesRole
      <4>1. \A x, k : <<x, k>>[2] = k
        OBVIOUS
      <4>2. "user" \in BuiltInRoles
        BY DEF BuiltInRoles
      <4>3. \A g \in DOMAIN ac_grants : g[2] \in BuiltInRoles
        <5> SUFFICES ASSUME NEW g \in DOMAIN ac_grants PROVE g[2] \in BuiltInRoles
          OBVIOUS
        <5>1. CASE g \in {<<x, "user">> : x \in scenario.people}
          BY <4>2, <5>1
        <5>2. CASE g \in {<<c, scenario.callers[c]>> : c \in DOMAIN scenario.callers}
          BY <3>1, <5>2
        <5> QED
          BY <3>2, <5>1, <5>2
      <4> QED
        BY <3>2, <4>3 DEF GrantNamesRole
    <3> QED
      BY <3>3, <3>4, <3>5 DEF AccountTables
  <2> QED
    BY <2>1, <2>2
<1> QED
  BY <1>1, <1>2, <1>3 DEF AccountTypes

\* Every step.
LEMMA AccountTypesStep ==
    ASSUME AccountTypes, [AcNext]_acVars
    PROVE  AccountTypes'
<1>1. ASSUME NEW p \in Users, AcSignInStep(p) PROVE AccountTypes'
  BY <1>1, SigningInTypes, RegisteringTypes, SteamCallbackTypes, SteamStepTypes, SessionStepTypes
     DEF AcSignInStep
<1>2. ASSUME NEW p \in Users, AcAdminStep(p) PROVE AccountTypes'
  BY <1>2, BanStepTypes, CommandStepTypes, RoleStepTypes DEF AcAdminStep
<1>3. ASSUME NEW p \in Users, Die(p), UNCHANGED acTables PROVE AccountTypes'
  BY <1>3, AccountDeathTypes DEF Tasks
<1>4. ASSUME UNCHANGED acVars PROVE AccountTypes'
  <2>1. AccountTables' /\ Grows /\ UNCHANGED requestVars
    BY <1>4, TablesSame DEF AccountTypes, acVars, acTables
  <2>2. \A q \in Tasks : AccountJob(req[q])'
    <3> SUFFICES ASSUME NEW q \in Tasks PROVE AccountJob(req[q])'
      OBVIOUS
    <3>1. PICK j : j = req[q]
      OBVIOUS
    <3>2. AccountJob(j)'
      BY <2>1, <3>1, AccountJobStays DEF AccountTypes
    <3> QED
      BY <2>1, <3>1, <3>2 DEF requestVars
  <2>3. RequestsTypeOK'
    BY <2>1 DEF AccountTypes, RequestsTypeOK, requestVars
  <2> QED
    BY <2>1, <2>2, <2>3 DEF AccountTypes
<1> QED
  BY <1>1, <1>2, <1>3, <1>4, AccountClockTypes DEF AcNext

-----------------------------------------------------------------------------
(* The tables agree.                                                        *)

\* What BannedIsSignedOut says in its scope.
OutOfSession == \A i \in DOMAIN ac_tokens : ac_users[ac_tokens[i].user] = "banned" => ac_tokens[i].revoked

\* One task moves; when requests do not overlap the others are idle.
LEMMA AccountMoves ==
    ASSUME AccountTypes, OneAtATime, NEW p \in Tasks, NEW r, Moves(p, r)
    PROVE  /\ scenario' = scenario /\ crashes' = crashes
           /\ req'[p] = r /\ \A q \in Tasks : q # p => req'[q] = req[q]
           /\ scenario.serial => \A q \in Tasks : q # p => req[q] = NoRequest
           /\ OneAtATime'
<1>1. /\ scenario' = scenario /\ crashes' = crashes
      /\ req'[p] = r /\ \A q \in Tasks : q # p => req'[q] = req[q]
  BY TaskMoves DEF AccountTypes
<1>2. scenario.serial => \A q \in Tasks : q # p => req[q] = NoRequest
  BY DEF Moves, Request, MayStart, OneAtATime
<1>3. OneAtATime'
  BY <1>1, <1>2 DEF OneAtATime
<1> QED
  BY <1>1, <1>2, <1>3

\* What the invariant says when only p may be at work.
LEMMA AloneFacts ==
    ASSUME AccountTypes, AccountsAgree, NEW p \in Tasks, NEW r, Moves(p, r)
    PROVE  /\ BanScope =>
                  /\ BanJob(req[p])
                  /\ \A x \in DOMAIN ac_users :
                         is_platform_banned(x) /\ is_active(x) => req[p].pc = "cli banned" /\ req[p].user = x
           /\ OutScope => OutOfSession /\ OutJob(req[p])
           /\ LiftScope =>
                  /\ req[p].pc = "cli banned" => Held(req[p].user)
                  /\ \A x \in DOMAIN ac_users :
                         ac_users[x] = "banned" => Held(x) \/ (req[p].pc \in Lifting /\ req[p].user = x)
<1>1. scenario.serial => \A q \in Tasks : q # p => req[q] = NoRequest
  BY AccountMoves DEF AccountsAgree
<1>2. NoRequest.pc = "idle"
  BY DEF NoRequest
<1>3. ASSUME BanScope
      PROVE  /\ BanJob(req[p])
             /\ \A x \in DOMAIN ac_users :
                    is_platform_banned(x) /\ is_active(x) => req[p].pc = "cli banned" /\ req[p].user = x
  BY <1>1, <1>2, <1>3 DEF AccountsAgree, BansHold, BanScope
<1>4. ASSUME OutScope PROVE OutOfSession /\ OutJob(req[p])
  <2>1. BannedIsSignedOut /\ OutJob(req[p])
    BY <1>4 DEF AccountsAgree, SignedOut
  <2> QED
    BY <1>4, <2>1 DEF BannedIsSignedOut, OutOfSession, OutScope, AcAllowed
<1>5. ASSUME LiftScope
      PROVE  /\ req[p].pc = "cli banned" => Held(req[p].user)
             /\ \A x \in DOMAIN ac_users :
                    ac_users[x] = "banned" => Held(x) \/ (req[p].pc \in Lifting /\ req[p].user = x)
  BY <1>1, <1>2, <1>5 DEF AccountsAgree, LiftsFinish, LiftScope, Lifting
<1> QED
  BY <1>3, <1>4, <1>5

\* Tokens are revoked, and nobody takes up a session.
LEMMA RenewalsKept ==
    ASSUME RenewedOnce, NEW D, Revoking(D),
           \A q \in Tasks : \A s : Renews(req[q], s)' => Renews(req[q], s)
    PROVE  RenewedOnce'
<1>1. /\ DOMAIN ac_tokens' = DOMAIN ac_tokens /\ Len(ac_tokens') = Len(ac_tokens)
      /\ \A i \in DOMAIN ac_tokens : /\ ac_tokens'[i].session = ac_tokens[i].session
                                     /\ ac_tokens[i].revoked => ac_tokens'[i].revoked
  BY DEF Revoking
<1>2. OneTokenPerSession'
  BY <1>1 DEF RenewedOnce, OneTokenPerSession
<1> HIDE DEF Renews
<1>3. \A q \in Tasks, i \in DOMAIN ac_tokens : Renews(req[q], ac_tokens[i].session)' => ac_tokens'[i].revoked
  BY <1>1 DEF RenewedOnce
<1>4. \A q, o \in Tasks, s \in 1 .. Len(ac_tokens) : Renews(req[q], s)' /\ Renews(req[o], s)' => q = o
  BY DEF RenewedOnce
<1> QED
  BY <1>1, <1>2, <1>3, <1>4 DEF RenewedOnce

\* ... by a task that moves.
LEMMA RenewTurn ==
    ASSUME AccountTypes, RenewedOnce, NEW p \in Tasks, NEW r, Moves(p, r), NEW D, Revoking(D),
           r.pc = "gate" => r.token \in DOMAIN ac_tokens, \A s : Renews(r, s) => Renews(req[p], s)
    PROVE  RenewedOnce'
<1>1. req'[p] = r /\ \A q \in Tasks : q # p => req'[q] = req[q]
  BY TaskMoves DEF AccountTypes
<1>2. /\ DOMAIN ac_tokens' = DOMAIN ac_tokens /\ Len(ac_tokens') = Len(ac_tokens)
      /\ \A i \in DOMAIN ac_tokens : /\ ac_tokens'[i].session = ac_tokens[i].session
                                     /\ ac_tokens[i].revoked => ac_tokens'[i].revoked
  BY DEF Revoking
<1>3. \A q \in Tasks : \A s : Renews(req[q], s)' => Renews(req[q], s)
  <2> SUFFICES ASSUME NEW q \in Tasks, NEW s, Renews(req[q], s)' PROVE Renews(req[q], s)
    OBVIOUS
  <2>1. CASE q = p
    <3>1. Renews(r, s)
      BY <1>1, <1>2, <2>1 DEF Renews
    <3> QED
      BY <2>1, <3>1
  <2>2. CASE q # p
    <3>1. PICK j : j = req[q]
      OBVIOUS
    <3>2. AccountJob(j) /\ req'[q] = j
      BY <1>1, <2>2, <3>1 DEF AccountTypes
    <3>3. j.pc = "gate" => j.token \in DOMAIN ac_tokens
      BY <3>2 DEF AccountJob
    <3> QED
      BY <1>2, <3>1, <3>2, <3>3 DEF Renews
  <2> QED
    BY <2>1, <2>2
<1> HIDE DEF Renews
<1> QED
  BY <1>3, RenewalsKept

\* Accounts are whole.
LEMMA WholeTurn ==
    ASSUME AccountTypes, AccountsWhole, NEW p \in Tasks, NEW r, Moves(p, r),
           WholeScope =>
               /\ r.pc # "cli player" /\ DOMAIN ac_players \subseteq DOMAIN ac_players'
               /\ \A x \in DOMAIN ac_users' \cap AcLocal : x \in DOMAIN ac_users \/ x \in DOMAIN ac_players'
    PROVE  AccountsWhole'
<1>1. /\ scenario' = scenario /\ req'[p] = r /\ \A q \in Tasks : q # p => req'[q] = req[q]
  BY TaskMoves DEF AccountTypes
<1>2. WholeScope' = WholeScope
  BY <1>1 DEF WholeScope
<1>3. ASSUME WholeScope PROVE AccountIsWhole' /\ \A q \in Tasks : req'[q].pc # "cli player"
  <2>1. \A x \in DOMAIN ac_users \cap AcLocal : x \in DOMAIN ac_players
    BY <1>3 DEF AccountsWhole, AccountIsWhole, WholeScope, AcAllowed
  <2>2. \A q \in Tasks : req[q].pc # "cli player"
    BY <1>3 DEF AccountsWhole
  <2>3. \A x \in DOMAIN ac_users' \cap AcLocal : x \in DOMAIN ac_players'
    BY <1>3, <2>1
  <2> QED
    BY <1>1, <1>3, <2>2, <2>3 DEF AccountIsWhole
<1> QED
  BY <1>2, <1>3 DEF AccountsWhole

\* Bans that stand are enforced.
LEMMA BansTurn ==
    ASSUME AccountTypes, OneAtATime, NEW p \in Tasks, NEW r, Moves(p, r),
           BanScope =>
               /\ BanJob(r)'
               /\ \A x \in DOMAIN ac_users' :
                      is_platform_banned(x)' /\ is_active(x)' => r.pc = "cli banned" /\ r.user = x
    PROVE  BansHold'
<1>1. /\ scenario' = scenario /\ crashes' = crashes
      /\ req'[p] = r /\ \A q \in Tasks : q # p => req'[q] = req[q]
      /\ scenario.serial => \A q \in Tasks : q # p => req[q] = NoRequest
  BY AccountMoves
<1>2. BanScope' = BanScope
  BY <1>1 DEF BanScope
<1>3. BanJob(NoRequest)'
  BY DEF BanJob, NoRequest
<1>4. ASSUME BanScope PROVE \A q \in Tasks : BanJob(req[q])'
  <2> SUFFICES ASSUME NEW q \in Tasks PROVE BanJob(req[q])'
    OBVIOUS
  <2>1. req'[q] = r \/ req'[q] = NoRequest
    BY <1>1, <1>4 DEF BanScope
  <2>2. BanJob(r)'
    BY <1>4
  <2> HIDE DEF BanJob
  <2> QED
    BY <1>3, <2>1, <2>2
<1>5. ASSUME BanScope, NEW x \in DOMAIN ac_users', is_platform_banned(x)' /\ is_active(x)'
      PROVE  \E q \in Tasks : req'[q].pc = "cli banned" /\ req'[q].user = x
  BY <1>1, <1>5
<1> QED
  BY <1>2, <1>4, <1>5 DEF BansHold

\* Banned accounts are signed out.
LEMMA OutTurn ==
    ASSUME AccountTypes, OneAtATime, NEW p \in Tasks, NEW r, Moves(p, r),
           OutScope => OutOfSession' /\ OutJob(r)'
    PROVE  SignedOut'
<1>1. /\ scenario' = scenario
      /\ req'[p] = r /\ \A q \in Tasks : q # p => req'[q] = req[q]
      /\ scenario.serial => \A q \in Tasks : q # p => req[q] = NoRequest
  BY AccountMoves
<1>2. OutScope' = OutScope
  BY <1>1 DEF OutScope
<1>3. OutJob(NoRequest)'
  BY DEF OutJob, NoRequest
<1>4. ASSUME OutScope PROVE \A q \in Tasks : OutJob(req[q])'
  <2> SUFFICES ASSUME NEW q \in Tasks PROVE OutJob(req[q])'
    OBVIOUS
  <2>1. req'[q] = r \/ req'[q] = NoRequest
    BY <1>1, <1>4 DEF OutScope
  <2>2. OutJob(r)'
    BY <1>4
  <2> HIDE DEF OutJob
  <2> QED
    BY <1>3, <2>1, <2>2
<1>5. OutScope => BannedIsSignedOut'
  <2>1. OutScope => OutOfSession'
    OBVIOUS
  <2> QED
    BY <2>1 DEF BannedIsSignedOut, OutOfSession
<1> QED
  BY <1>2, <1>4, <1>5 DEF SignedOut

\* Accounts left banned have a ban that stands, or one that is being lifted.
LEMMA LiftTurn ==
    ASSUME AccountTypes, OneAtATime, NEW p \in Tasks, NEW r, Moves(p, r),
           LiftScope =>
               /\ r.pc = "cli banned" => Held(r.user)'
               /\ \A x \in DOMAIN ac_users' :
                      ac_users'[x] = "banned" => Held(x)' \/ (r.pc \in Lifting /\ r.user = x)
    PROVE  LiftsFinish'
<1>1. /\ scenario' = scenario
      /\ req'[p] = r /\ \A q \in Tasks : q # p => req'[q] = req[q]
      /\ scenario.serial => \A q \in Tasks : q # p => req[q] = NoRequest
  BY AccountMoves
<1>2. LiftScope' = LiftScope
  BY <1>1 DEF LiftScope
<1>3. ASSUME LiftScope, NEW q \in Tasks, req'[q].pc = "cli banned" PROVE Held(req[q].user)'
  <2>1. NoRequest.pc = "idle"
    BY DEF NoRequest
  <2>2. q = p
    BY <1>1, <1>3, <2>1 DEF LiftScope
  <2>3. req'[q] = r
    BY <1>1, <2>2
  <2> HIDE DEF Held
  <2>4. Held(r.user)'
    BY <1>3, <2>3
  <2> QED
    BY <2>3, <2>4
<1>4. ASSUME LiftScope, NEW x \in DOMAIN ac_users', ac_users'[x] = "banned"
      PROVE  Held(x)' \/ \E q \in Tasks : req'[q].pc \in Lifting /\ req'[q].user = x
  BY <1>1, <1>4
<1> QED
  BY <1>2, <1>3, <1>4 DEF LiftsFinish

\* Who is banned, and who holds a ban nobody lifted, when bans are written.
LEMMA BansThatStand ==
    /\ ac_bans' = ac_bans =>
           /\ \A x : is_platform_banned(x)' <=> is_platform_banned(x)
           /\ \A x : Held(x)' <=> Held(x)
    /\ \A D : Lifted(D) =>
           /\ \A x : is_platform_banned(x)' => is_platform_banned(x)
           /\ \A x : Held(x) => Held(x)' \/ \E b \in D \cap DOMAIN ac_bans :
                                                ac_bans[b].user = x /\ ac_bans[b].type = "platform"
           /\ \A x : get_active_for_user(x) \subseteq D => ~is_platform_banned(x)'
    /\ \A y, type : Recorded(y, type) =>
           /\ \A x : is_platform_banned(x)' => is_platform_banned(x) \/ (x = y /\ type = "platform")
           /\ \A x : Held(x) => Held(x)'
           /\ type = "platform" => Held(y)'
<1>1. ASSUME ac_bans' = ac_bans
      PROVE  /\ \A x : is_platform_banned(x)' <=> is_platform_banned(x)
             /\ \A x : Held(x)' <=> Held(x)
  BY <1>1 DEF is_platform_banned, get_active_for_user, is_lifted, is_expired, Held
<1>2. ASSUME NEW D, Lifted(D)
      PROVE  /\ \A x : is_platform_banned(x)' => is_platform_banned(x)
             /\ \A x : Held(x) => Held(x)' \/ \E b \in D \cap DOMAIN ac_bans :
                                                  ac_bans[b].user = x /\ ac_bans[b].type = "platform"
             /\ \A x : get_active_for_user(x) \subseteq D => ~is_platform_banned(x)'
  <2>1. ASSUME NEW b \in DOMAIN ac_bans', ~ac_bans'[b].lifted, ~ac_bans'[b].ended
        PROVE  /\ b \in DOMAIN ac_bans /\ ~ac_bans[b].lifted /\ ~ac_bans[b].ended /\ b \notin D
               /\ ac_bans'[b].user = ac_bans[b].user /\ ac_bans'[b].type = ac_bans[b].type
    <3>1. b \in DOMAIN ac_bans
      BY <1>2, <2>1 DEF Lifted
    <3> QED
      BY <1>2, <2>1, <3>1 DEF Lifted
  <2>2. \A x : is_platform_banned(x)' => is_platform_banned(x)
    BY <2>1 DEF is_platform_banned, get_active_for_user, is_lifted, is_expired
  <2>3. \A x : Held(x) => Held(x)' \/ \E b \in D \cap DOMAIN ac_bans :
                                          ac_bans[b].user = x /\ ac_bans[b].type = "platform"
    BY <1>2 DEF Lifted, Held
  <2>4. \A x : get_active_for_user(x) \subseteq D => ~is_platform_banned(x)'
    BY <2>1 DEF is_platform_banned, get_active_for_user, is_lifted, is_expired
  <2> QED
    BY <2>2, <2>3, <2>4
<1>3. ASSUME NEW y, NEW type, Recorded(y, type)
      PROVE  /\ \A x : is_platform_banned(x)' => is_platform_banned(x) \/ (x = y /\ type = "platform")
             /\ \A x : Held(x) => Held(x)'
             /\ type = "platform" => Held(y)'
  <2> DEFINE n == Len(ac_bans) + 1
  <2>1. /\ \A b \in DOMAIN ac_bans' : b \in DOMAIN ac_bans \/ b = n
        /\ n \in DOMAIN ac_bans' /\ DOMAIN ac_bans \subseteq DOMAIN ac_bans'
        /\ \A b \in DOMAIN ac_bans : ac_bans'[b] = ac_bans[b]
        /\ ac_bans'[n].user = y /\ ac_bans'[n].type = type /\ ~ac_bans'[n].lifted
    BY <1>3 DEF Recorded
  <2> HIDE DEF n
  <2>2. \A x : is_platform_banned(x)' => is_platform_banned(x) \/ (x = y /\ type = "platform")
    BY <2>1 DEF is_platform_banned, get_active_for_user, is_lifted, is_expired
  <2>3. \A x : Held(x) => Held(x)'
    BY <2>1 DEF Held
  <2>4. type = "platform" => Held(y)'
    BY <2>1 DEF Held
  <2> QED
    BY <2>2, <2>3, <2>4
<1> QED
  BY <1>1, <1>2, <1>3

\* The requests that leave the bans, the sessions and the accounts alone.
AtRest(r) == r.pc \notin Lifting \cup {"cli banned"}
PlainRequest(r) ==
    AtRest(r) /\ r.pc \notin {"gate", "cli player"} /\ (r.pc = "token" => r.session = 0)

\* ... and have no part in the invariant.
LEMMA PlainIsHarmless ==
    ASSUME NEW r, PlainRequest(r)
    PROVE  /\ \A s : ~Renews(r, s) /\ r.pc # "gate" /\ r.pc # "cli player" /\ r.pc # "cli banned"
           /\ r.pc \notin Lifting /\ BanJob(r)'
BY DEF PlainRequest, AtRest, Renews, BanJob, Lifting

\* A task with nothing to do is one of them.
LEMMA IdleIsPlain ==
    PlainRequest(NoRequest) /\ AtRest(NoRequest) /\ OutJob(NoRequest) /\ OutJob(NoRequest)'
BY DEF PlainRequest, AtRest, OutJob, NoRequest, Lifting

\* No token is written.
LEMMA NoTokenWritten ==
    ASSUME AccountTypes, ac_tokens' = ac_tokens
    PROVE  Revoking({})
<1>1. ac_tokens \in Seq(RefreshTokenRow)
  BY DEF AccountTypes, AccountTables, TokensOK
<1> QED
  BY <1>1 DEF Revoking

\* Neither an account nor a ban is written.
LEMMA SessionsAgree ==
    ASSUME AccountTypes, AccountsAgree, NEW p \in Tasks, NEW r, Moves(p, r),
           UNCHANGED <<ac_users, ac_bans>>, DOMAIN ac_players \subseteq DOMAIN ac_players',
           AtRest(req[p]), AtRest(r), r.pc # "cli player", RenewedOnce',
           OutScope => OutOfSession' /\ OutJob(r)
    PROVE  AccountsAgree'
<1>1. r.pc # "cli banned" /\ r.pc \notin Lifting /\ BanJob(r)'
  BY DEF AtRest, BanJob, Lifting
<1>2. req[p].pc \notin Lifting /\ req[p].pc # "cli banned"
  BY DEF AtRest
<1>3. /\ \A x : is_platform_banned(x)' <=> is_platform_banned(x)
      /\ \A x : Held(x)' <=> Held(x)
  BY BansThatStand
<1>4. /\ BanScope =>
             \A x \in DOMAIN ac_users :
                 is_platform_banned(x) /\ is_active(x) => req[p].pc = "cli banned" /\ req[p].user = x
      /\ LiftScope => \A x \in DOMAIN ac_users :
             ac_users[x] = "banned" => Held(x) \/ (req[p].pc \in Lifting /\ req[p].user = x)
  BY AloneFacts
<1>5. AccountsWhole'
  BY WholeTurn DEF AccountsAgree
<1>6. BansHold'
  <2>1. \A x : is_active(x)' <=> is_active(x)
    BY DEF is_active
  <2> QED
    BY <1>1, <1>2, <1>3, <1>4, <2>1, BansTurn DEF AccountsAgree
<1>7. SignedOut'
  <2>1. OutScope => OutOfSession' /\ OutJob(r)'
    BY DEF OutJob
  <2> QED
    BY <2>1, OutTurn DEF AccountsAgree
<1>8. LiftsFinish'
  BY <1>1, <1>2, <1>3, <1>4, LiftTurn DEF AccountsAgree
<1>9. OneAtATime'
  BY AccountMoves DEF AccountsAgree
<1> QED
  BY <1>5, <1>6, <1>7, <1>8, <1>9 DEF AccountsAgree

\* Nor a token.
LEMMA QuietAgrees ==
    ASSUME AccountTypes, AccountsAgree, NEW p \in Tasks, NEW r, Moves(p, r),
           UNCHANGED <<ac_users, ac_tokens, ac_bans>>, DOMAIN ac_players \subseteq DOMAIN ac_players',
           AtRest(req[p]), PlainRequest(r), OutScope => OutJob(r)
    PROVE  AccountsAgree'
<1>1. \A s : ~Renews(r, s) /\ r.pc # "gate" /\ r.pc # "cli player"
  BY PlainIsHarmless
<1>2. RenewedOnce'
  BY <1>1, NoTokenWritten, RenewTurn DEF AccountsAgree
<1>3. OutScope => OutOfSession'
  <2>1. OutScope => OutOfSession
    BY AloneFacts
  <2> QED
    BY <2>1 DEF OutOfSession
<1>4. AtRest(r)
  BY DEF PlainRequest
<1> QED
  BY <1>1, <1>2, <1>3, <1>4, SessionsAgree

\* Tokens are revoked by a request whose work is done.
LEMMA RevokedAgrees ==
    ASSUME AccountTypes, AccountsAgree, NEW p \in Tasks, NEW r, Moves(p, r), NEW D, Revoking(D),
           UNCHANGED <<ac_users, ac_players, ac_bans>>, AtRest(req[p]), AtRest(r), r.pc # "cli player",
           r.pc = "gate" => r.token \in DOMAIN ac_tokens, \A s : Renews(r, s) => Renews(req[p], s),
           OutScope => OutJob(r)
    PROVE  AccountsAgree'
<1>1. RenewedOnce'
  BY RenewTurn DEF AccountsAgree
<1>2. OutScope => OutOfSession'
  <2>1. OutScope => OutOfSession
    BY AloneFacts
  <2> QED
    BY <2>1 DEF OutOfSession, Revoking
<1> QED
  BY <1>1, <1>2, SessionsAgree

\* A request that is admitted and writes only roles, if anything.
LEMMA AskingAccountAgrees ==
    ASSUME AccountTypes, AccountsAgree, NEW p \in Users,
           \/ RegisterAccount(p) \/ Login(p) \/ UpdateMyProfile(p) \/ SteamCallback(p) \/ Refresh(p)
           \/ Logout(p) \/ CreateBan(p) \/ LiftBan(p) \/ AssignRole(p) \/ RevokeRole(p)
           \/ ChangePermission(p) \/ CliAssignRole(p) \/ CliRevokeRole(p) \/ CliChangePermission(p)
           \/ CreateRole(p) \/ DeleteRole(p) \/ UpdateRole(p) \/ CliCreateRole(p) \/ CliDeleteRole(p)
    PROVE  AccountsAgree'
<1>0. p \in Tasks
  BY DEF Tasks
<1>1. UNCHANGED <<ac_users, ac_players, ac_tokens, ac_bans>>
  BY DEF RegisterAccount, Login, UpdateMyProfile, SteamCallback, Refresh, Logout, CreateBan, LiftBan,
         AssignRole, RevokeRole, ChangePermission, CliAssignRole, CliRevokeRole, CliChangePermission,
         CreateRole, DeleteRole, UpdateRole, CliCreateRole, CliDeleteRole, acTables
<1>2. ASSUME NEW r, Request(p, r), PlainRequest(r), OutJob(r) PROVE AccountsAgree'
  <2>1. AtRest(req[p]) /\ Moves(p, r)
    BY <1>2, IdleIsPlain DEF Request, MayStart, Moves
  <2> QED
    BY <1>0, <1>1, <1>2, <2>1, QuietAgrees
<1>3. ASSUME NEW r, Request(p, r),
             r.pc \in {"create account", "provision", "profile", "revoke all", "revoke", "rotate",
                       "enforce", "lift", "assign", "withdraw", "permission", "idle"}
      PROVE  AccountsAgree'
  <2>1. PlainRequest(r) /\ OutJob(r)
    BY <1>3 DEF PlainRequest, AtRest, OutJob, Lifting
  <2> QED
    BY <1>2, <1>3, <2>1
<1>4. ASSUME NEW r, Request(p, r), r.pc \in {"token", "self heal", "stamp", "player"}, r.session = 0,
             is_active(r.user)
      PROVE  AccountsAgree'
  <2>1. PlainRequest(r) /\ OutJob(r)
    BY <1>4 DEF PlainRequest, AtRest, OutJob, Lifting, is_active
  <2> QED
    BY <1>2, <1>4, <2>1
<1>5. CASE RegisterAccount(p)
  <2>1. PICK x : Request(p, SigningIn("create account", x))
    BY <1>5 DEF RegisterAccount
  <2>2. PICK r : r = SigningIn("create account", x)
    OBVIOUS
  <2>3. r.pc = "create account"
    BY <2>2 DEF SigningIn
  <2> QED
    BY <1>3, <2>1, <2>2, <2>3
<1>6. CASE Login(p)
  <2>1. PICK x : is_active(x) /\ Request(p, SigningIn("token", x))
    BY <1>6 DEF Login, authenticate
  <2>2. PICK r : r = SigningIn("token", x)
    OBVIOUS
  <2>3. r.pc = "token" /\ r.session = 0 /\ r.user = x
    BY <2>2 DEF SigningIn
  <2> QED
    BY <1>4, <2>1, <2>2, <2>3
<1>7. CASE UpdateMyProfile(p)
  <2>1. PICK x, change, s : Request(p, [pc |-> "profile", user |-> x, change |-> change, steam |-> s])
    BY <1>7 DEF UpdateMyProfile
  <2>2. PICK r : r = [pc |-> "profile", user |-> x, change |-> change, steam |-> s]
    OBVIOUS
  <2>3. r.pc = "profile"
    BY <2>2
  <2> QED
    BY <1>3, <2>1, <2>2, <2>3
<1>8. CASE SteamCallback(p)
  <2>1. PICK s \in AcSteam, persona \in BOOLEAN : login_with_steam(p, s, persona)
    BY <1>8 DEF SteamCallback
  <2>2. ASSUME NEW pc \in {"self heal", "stamp", "player"}, NEW x, NEW n, NEW r, r = Steam(pc, s, x, n),
               Request(p, r), is_active(x)
        PROVE  AccountsAgree'
    <3>1. r.pc = pc /\ r.session = 0 /\ r.user = x
      BY <2>2 DEF Steam
    <3> QED
      BY <1>4, <2>2, <3>1
  <2>3. ASSUME NEW x, SignInToHolder(p, s, x, persona) PROVE AccountsAgree'
    <3>1. is_active(x)
      BY <2>3 DEF SignInToHolder
    <3>2. CASE Request(p, SigningIn("token", x))
      <4>1. PICK r : r = SigningIn("token", x)
        OBVIOUS
      <4>2. r.pc = "token" /\ r.session = 0 /\ r.user = x
        BY <4>1 DEF SigningIn
      <4> QED
        BY <1>4, <3>1, <3>2, <4>1, <4>2
    <3>3. CASE \E n \in derive_available_display_name : Request(p, Steam("self heal", s, x, n))
      <4>1. PICK n : Request(p, Steam("self heal", s, x, n))
        BY <3>3
      <4> QED
        BY <2>2, <3>1, <4>1
    <3> QED
      BY <2>3, <3>2, <3>3 DEF SignInToHolder
  <2>4. ASSUME recover_partial_steam_account(p, s) PROVE AccountsAgree'
    <3>1. PICK pc \in {"stamp", "player"} : Request(p, Steam(pc, s, s, 0)) /\ is_active(s)
      BY <2>4 DEF recover_partial_steam_account
    <3>2. PICK r : r = Steam(pc, s, s, 0)
      OBVIOUS
    <3> QED
      BY <2>2, <3>1, <3>2
  <2>5. ASSUME NEW n, Request(p, [Steam("provision", s, s, n) EXCEPT !.created = TRUE])
        PROVE  AccountsAgree'
    <3>1. PICK j : j = Steam("provision", s, s, n)
      OBVIOUS
    <3>2. j.pc = "provision" /\ j \in SteamRecord(j)
      BY <3>1 DEF Steam, SteamRecord
    <3>3. PICK r : r = [j EXCEPT !.created = TRUE]
      OBVIOUS
    <3>4. r.pc = "provision"
      BY <3>2, <3>3 DEF SteamRecord
    <3> QED
      BY <1>3, <2>5, <3>1, <3>3, <3>4
  <2> QED
    BY <2>1, <2>3, <2>4, <2>5 DEF login_with_steam
<1>9. CASE Refresh(p)
  <2>1. PICK i, x, pc :
            /\ Request(p, [pc |-> pc, token |-> i, user |-> x])
            /\ pc \in {"revoke all", "revoke", "rotate"}
    BY <1>9 DEF Refresh
  <2>2. PICK r : r = [pc |-> pc, token |-> i, user |-> x]
    OBVIOUS
  <2>3. r.pc = pc
    BY <2>2
  <2> QED
    BY <1>3, <2>1, <2>2, <2>3
<1>10. CASE Logout(p)
  <2>1. PICK i : Request(p, [pc |-> "revoke", token |-> i])
    BY <1>10 DEF Logout
  <2>2. PICK r : r = [pc |-> "revoke", token |-> i]
    OBVIOUS
  <2>3. r.pc = "revoke"
    BY <2>2
  <2> QED
    BY <1>3, <2>1, <2>2, <2>3
<1>11. CASE CreateBan(p)
  <2>1. PICK x, type, scope, t :
           Request(p, [pc |-> "enforce", user |-> x, type |-> type, scope |-> scope, temporary |-> t])
    BY <1>11 DEF CreateBan
  <2>2. PICK r : r = [pc |-> "enforce", user |-> x, type |-> type, scope |-> scope, temporary |-> t]
    OBVIOUS
  <2>3. r.pc = "enforce"
    BY <2>2
  <2> QED
    BY <1>3, <2>1, <2>2, <2>3
<1>12. CASE LiftBan(p)
  <2>1. PICK b, x : Request(p, [pc |-> "lift", ban |-> b, user |-> x])
    BY <1>12 DEF LiftBan
  <2>2. PICK r : r = [pc |-> "lift", ban |-> b, user |-> x]
    OBVIOUS
  <2>3. r.pc = "lift"
    BY <2>2
  <2> QED
    BY <1>3, <2>1, <2>2, <2>3
<1>13. CASE AssignRole(p) \/ RevokeRole(p) \/ CliAssignRole(p) \/ CliRevokeRole(p)
  <2>1. PICK pc, x, k : Request(p, [pc |-> pc, user |-> x, role |-> k]) /\ pc \in {"assign", "withdraw"}
    BY <1>13 DEF AssignRole, RevokeRole, CliAssignRole, CliRevokeRole
  <2>2. PICK r : r = [pc |-> pc, user |-> x, role |-> k]
    OBVIOUS
  <2>3. r.pc = pc
    BY <2>2
  <2> QED
    BY <1>3, <2>1, <2>2, <2>3
<1>14. CASE ChangePermission(p) \/ CliChangePermission(p)
  <2>1. PICK k, add : Request(p, [pc |-> "permission", role |-> k, add |-> add])
    BY <1>14 DEF ChangePermission, CliChangePermission
  <2>2. PICK r : r = [pc |-> "permission", role |-> k, add |-> add]
    OBVIOUS
  <2>3. r.pc = "permission"
    BY <2>2
  <2> QED
    BY <1>3, <2>1, <2>2, <2>3
<1>15. CASE CreateRole(p) \/ DeleteRole(p) \/ UpdateRole(p) \/ CliCreateRole(p) \/ CliDeleteRole(p)
  <2>1. Request(p, NoRequest)
    BY <1>15 DEF CreateRole, DeleteRole, UpdateRole, CliCreateRole, CliDeleteRole
  <2>2. NoRequest.pc = "idle"
    BY DEF NoRequest
  <2> QED
    BY <1>3, <2>1, <2>2
<1> QED
  BY <1>5, <1>6, <1>7, <1>8, <1>9, <1>10, <1>11, <1>12, <1>13, <1>14, <1>15

\* An account is added.
LEMMA AccountAdded ==
    ASSUME AccountTypes, AccountsAgree, NEW p \in Tasks, NEW r, Moves(p, r),
           NEW x, x \notin DOMAIN ac_users, InsertUser(x),
           UNCHANGED <<ac_tokens, ac_bans>>, DOMAIN ac_players \subseteq DOMAIN ac_players',
           AtRest(req[p]), AtRest(r), r.pc # "gate", r.pc # "token", r.user = x,
           WholeScope => r.pc # "cli player" /\ (x \in AcLocal => x \in DOMAIN ac_players')
    PROVE  AccountsAgree'
<1>1. /\ \A s : ~Renews(r, s)
      /\ r.pc # "cli banned" /\ r.pc \notin Lifting /\ BanJob(r)'
  BY DEF AtRest, Renews, BanJob, Lifting
<1>2. req[p].pc \notin Lifting /\ req[p].pc # "cli banned"
  BY DEF AtRest
<1>3. /\ DOMAIN ac_users' = DOMAIN ac_users \cup {x} /\ ac_users'[x] = "active"
      /\ \A y \in DOMAIN ac_users : ac_users'[y] = ac_users[y]
  BY DEF InsertUser, Inserted
<1>4. /\ \A y : is_platform_banned(y)' <=> is_platform_banned(y)
      /\ \A y : Held(y)' <=> Held(y)
  BY BansThatStand
<1>5. ~is_platform_banned(x)
  BY DEF AccountTypes, AccountTables, BansOK, is_platform_banned, get_active_for_user
<1>6. /\ BanScope =>
             \A y \in DOMAIN ac_users :
                 is_platform_banned(y) /\ is_active(y) => req[p].pc = "cli banned" /\ req[p].user = y
      /\ OutScope => OutOfSession
      /\ LiftScope => \A y \in DOMAIN ac_users :
             ac_users[y] = "banned" => Held(y) \/ (req[p].pc \in Lifting /\ req[p].user = y)
  BY AloneFacts
<1>7. RenewedOnce'
  BY <1>1, NoTokenWritten, RenewTurn DEF AccountsAgree
<1>8. AccountsWhole'
  BY <1>3, WholeTurn DEF AccountsAgree
<1>9. BansHold'
  <2>1. BanScope => \A y \in DOMAIN ac_users' : ~(is_platform_banned(y)' /\ is_active(y)')
    BY <1>2, <1>3, <1>4, <1>5, <1>6 DEF is_active
  <2> QED
    BY <1>1, <2>1, BansTurn DEF AccountsAgree
<1>10. SignedOut'
  <2>1. \A i \in DOMAIN ac_tokens : ac_tokens[i].user \in DOMAIN ac_users
    BY DEF AccountTypes, AccountTables, TokensOK
  <2>2. OutScope => OutOfSession'
    BY <1>3, <1>6, <2>1 DEF OutOfSession
  <2>3. OutJob(r)'
    BY <1>1, <1>3 DEF OutJob
  <2> QED
    BY <2>2, <2>3, OutTurn DEF AccountsAgree
<1>11. LiftsFinish'
  <2>1. LiftScope => \A y \in DOMAIN ac_users' : ac_users'[y] = "banned" => Held(y)'
    BY <1>2, <1>3, <1>4, <1>6
  <2> QED
    BY <1>1, <2>1, LiftTurn DEF AccountsAgree
<1>12. OneAtATime'
  BY AccountMoves DEF AccountsAgree
<1> QED
  BY <1>7, <1>8, <1>9, <1>10, <1>11, <1>12 DEF AccountsAgree

\* The steps that add an account.
LEMMA AddingAgrees ==
    ASSUME AccountTypes, AccountsAgree, NEW p \in Users,
           \/ create_account(p) /\ ac_users' # ac_users
           \/ ProvisionUser(p) /\ ac_users' # ac_users
           \/ CreateUser(p)
    PROVE  AccountsAgree'
<1>0. p \in Tasks /\ AccountTables
  BY DEF Tasks, AccountTypes
<1>j. PICK j : j = req[p]
  OBVIOUS
<1>1. AccountJob(j) /\ req[p] = j
  BY <1>0, <1>j DEF AccountTypes
<1>n. NoRequest.pc = "idle"
  BY DEF NoRequest
<1>2. CASE create_account(p) /\ ac_users' # ac_users
  <2>1. j.pc = "create account"
    BY <1>1, <1>2 DEF create_account, At
  <2>2. j \in SignInRecord(j) /\ j.user \in AcLocal
    BY <1>1, <2>1 DEF AccountJob
  <2>3. PICK r : r = [j EXCEPT !.pc = "default role"]
    OBVIOUS
  <2>4. /\ j.user \notin DOMAIN ac_users /\ InsertUser(j.user) /\ InsertPlayer(j.user, 1)
        /\ Continue(p, r) /\ UNCHANGED <<ac_tokens, ac_bans>>
    BY <1>1, <1>2, <2>3 DEF create_account, username_exists
  <2>5. r.pc = "default role" /\ r.user = j.user
    BY <2>2, <2>3 DEF SignInRecord
  <2>6. DOMAIN ac_players' = DOMAIN ac_players \cup {j.user}
    BY <2>4 DEF InsertPlayer, Inserted
  <2>7. AtRest(req[p]) /\ AtRest(r)
    BY <1>1, <2>1, <2>5 DEF AtRest, Lifting
  <2>8. Moves(p, r)
    BY <1>1, <1>n, <2>1, <2>4 DEF Moves
  <2> QED
    BY <1>0, <2>4, <2>5, <2>6, <2>7, <2>8, AccountAdded
<1>3. CASE ProvisionUser(p) /\ ac_users' # ac_users
  <2>1. j.pc = "provision"
    BY <1>1, <1>3 DEF ProvisionUser, At
  <2>2. j \in SteamRecord(j) /\ j.user \in AcSteam
    BY <1>1, <2>1 DEF AccountJob, SteamSteps
  <2>3. PICK r : r = [j EXCEPT !.pc = "player name"]
    OBVIOUS
  <2>4. /\ j.user \notin DOMAIN ac_users /\ InsertUser(j.user)
        /\ Continue(p, r) /\ UNCHANGED <<ac_players, ac_tokens, ac_bans>>
    BY <1>1, <1>3, <2>3 DEF ProvisionUser, username_exists
  <2>5. r.pc = "player name" /\ r.user = j.user
    BY <2>2, <2>3 DEF SteamRecord
  <2>6. j.user \notin AcLocal
    BY <2>2, AccountsAssumption
  <2>7. AtRest(req[p]) /\ AtRest(r)
    BY <1>1, <2>1, <2>5 DEF AtRest, Lifting
  <2>8. Moves(p, r)
    BY <1>1, <1>n, <2>1, <2>4 DEF Moves
  <2> QED
    BY <1>0, <2>4, <2>5, <2>6, <2>7, <2>8, AccountAdded
<1>4. CASE CreateUser(p)
  <2>1. PICK x \in AcLocal : /\ x \notin DOMAIN ac_users /\ InsertUser(x)
                             /\ Request(p, [pc |-> "cli player", user |-> x])
    BY <1>4 DEF CreateUser, username_exists
  <2>2. PICK r : r = [pc |-> "cli player", user |-> x]
    OBVIOUS
  <2>3. r.pc = "cli player" /\ r.user = x
    BY <2>2
  <2>4. ~WholeScope
    <3>1. "create user" \in scenario.ops
      BY <1>4 DEF CreateUser, AcAllowed
    <3>2. {"register", "create user"} \cap scenario.ops # {"register"}
      <4>1. "create user" \in {"register", "create user"} \cap scenario.ops
        BY <3>1
      <4>2. "create user" \notin {"register"}
        OBVIOUS
      <4> QED
        BY <4>1, <4>2
    <3> QED
      BY <3>2 DEF WholeScope
  <2>5. AtRest(req[p]) /\ AtRest(r) /\ Moves(p, r)
    BY <2>1, <2>2, <2>3, IdleIsPlain DEF Request, MayStart, Moves, AtRest, Lifting
  <2>6. UNCHANGED <<ac_players, ac_tokens, ac_bans>>
    BY <1>4 DEF CreateUser
  <2> QED
    BY <1>0, <2>1, <2>3, <2>4, <2>5, <2>6, AccountAdded
<1> QED
  BY <1>2, <1>3, <1>4

\* The steps of a sign-in, and others, that write neither accounts nor tokens
\* nor bans.
LEMMA GoingOnAgrees ==
    ASSUME AccountTypes, AccountsAgree, NEW p \in Users, UNCHANGED <<ac_users, ac_tokens, ac_bans>>,
           \/ create_account(p) \/ AssignDefaultRole(p) \/ CreateUserPlayer(p) \/ SelfHeal(p)
           \/ ProvisionUser(p) \/ ProvisionName(p) \/ ProvisionPlayer(p) \/ StampSteamId(p)
           \/ WriteProfile(p) \/ try_revoke(p) \/ create_and_enforce(p) \/ InsertGrant(p)
           \/ WithdrawGrant(p) \/ WritePermission(p)
    PROVE  AccountsAgree'
<1>0. p \in Tasks
  BY DEF Tasks
<1>j. PICK j : j = req[p]
  OBVIOUS
<1>1. AccountJob(j) /\ req[p] = j
  BY <1>0, <1>j DEF AccountTypes
<1>n. NoRequest.pc = "idle"
  BY DEF NoRequest
<1>2. /\ AtRest(j) /\ j.pc # "idle"
      /\ j.pc \in {"create account", "default role", "cli player", "self heal", "provision", "player name",
                   "player", "stamp", "profile", "rotate", "enforce", "assign", "withdraw", "permission"}
  BY <1>1 DEF create_account, AssignDefaultRole, CreateUserPlayer, SelfHeal, ProvisionUser,
       ProvisionName, ProvisionPlayer, StampSteamId, WriteProfile, try_revoke, create_and_enforce,
       InsertGrant, WithdrawGrant, WritePermission, At, AtRest, Lifting
<1>3. DOMAIN ac_players \subseteq DOMAIN ac_players'
  BY DEF create_account, AssignDefaultRole, CreateUserPlayer, SelfHeal, ProvisionUser,
       ProvisionName, ProvisionPlayer, StampSteamId, WriteProfile, try_revoke, create_and_enforce,
       InsertGrant, WithdrawGrant, WritePermission, InsertPlayer, Inserted, acTables
<1>4. ASSUME NEW r, Continue(p, r), PlainRequest(r), OutScope => OutJob(r) PROVE AccountsAgree'
  <2>1. Moves(p, r) /\ AtRest(req[p])
    BY <1>1, <1>2, <1>4, <1>n DEF Moves
  <2> QED
    BY <1>0, <1>3, <1>4, <2>1, QuietAgrees
<1>5. CASE Finish(p)
  BY <1>4, <1>5, IdleIsPlain DEF Finish
<1>6. OutScope => OutJob(j)
  BY <1>0, <1>1 DEF AccountsAgree, SignedOut
<1>7. ASSUME NEW pc \in {"token", "player", "stamp", "default role"},
             NEW r, r.pc = pc, r.user = j.user, r.session = j.session, Continue(p, r),
             j.pc \in {"default role", "self heal", "player name", "player", "stamp"}
      PROVE  AccountsAgree'
  <2>1. j.session = 0
    BY <1>1, <1>7 DEF AccountJob, SteamSteps
  <2>2. PlainRequest(r)
    BY <1>7, <2>1 DEF PlainRequest, AtRest, Lifting
  <2>3. OutScope => OutJob(r)
    BY <1>6, <1>7 DEF OutJob
  <2> QED
    BY <1>4, <1>7, <2>2, <2>3
<1>8. CASE AssignDefaultRole(p)
  <2>1. j.pc = "default role" /\ Continue(p, [j EXCEPT !.pc = "token"])
    BY <1>1, <1>8 DEF AssignDefaultRole, At
  <2>2. j \in SignInRecord(j) \/ j \in SteamRecord(j)
    BY <1>1, <2>1 DEF AccountJob
  <2>3. PICK r : r = [j EXCEPT !.pc = "token"]
    OBVIOUS
  <2>4. r.pc = "token" /\ r.user = j.user /\ r.session = j.session
    BY <2>2, <2>3 DEF SignInRecord, SteamRecord
  <2> QED
    BY <1>7, <2>1, <2>3, <2>4
<1>s. j.pc \in SteamSteps => j \in SteamRecord(j)
  BY <1>1 DEF AccountJob
<1>9. CASE SelfHeal(p) /\ ~Finish(p)
  <2>1. j.pc = "self heal" /\ Continue(p, [j EXCEPT !.pc = "token"])
    BY <1>1, <1>9 DEF SelfHeal, At
  <2>2. PICK r : r = [j EXCEPT !.pc = "token"]
    OBVIOUS
  <2>3. r.pc = "token" /\ r.user = j.user /\ r.session = j.session
    BY <1>s, <2>1, <2>2 DEF SteamRecord, SteamSteps
  <2> QED
    BY <1>7, <2>1, <2>2, <2>3
<1>10. CASE ProvisionName(p) /\ ~Finish(p)
  <2>1. /\ j.pc = "player name"
        /\ Continue(p, [j EXCEPT !.pc = "player"]) \/ \E n : Continue(p, [j EXCEPT !.pc = "player", !.name = n])
    BY <1>1, <1>10 DEF ProvisionName, At
  <2>2. PICK r : /\ r = [j EXCEPT !.pc = "player"] \/ \E n : r = [j EXCEPT !.pc = "player", !.name = n]
                 /\ Continue(p, r)
    BY <2>1
  <2>3. r.pc = "player" /\ r.user = j.user /\ r.session = j.session
    BY <1>s, <2>1, <2>2 DEF SteamRecord, SteamSteps
  <2> QED
    BY <1>7, <2>1, <2>2, <2>3
<1>11. CASE ProvisionPlayer(p) /\ ~Finish(p)
  <2>1. j.pc = "player" /\ Continue(p, [j EXCEPT !.pc = "stamp"])
    BY <1>1, <1>11 DEF ProvisionPlayer, At
  <2>2. PICK r : r = [j EXCEPT !.pc = "stamp"]
    OBVIOUS
  <2>3. r.pc = "stamp" /\ r.user = j.user /\ r.session = j.session
    BY <1>s, <2>1, <2>2 DEF SteamRecord, SteamSteps
  <2> QED
    BY <1>7, <2>1, <2>2, <2>3
<1>12. CASE StampSteamId(p) /\ ~Finish(p)
  <2>1. PICK pc \in {"token", "default role"} : j.pc = "stamp" /\ Continue(p, [j EXCEPT !.pc = pc])
    BY <1>1, <1>12 DEF StampSteamId, AfterStamp, At
  <2>2. PICK r : r = [j EXCEPT !.pc = pc]
    OBVIOUS
  <2>3. r.pc = pc /\ r.user = j.user /\ r.session = j.session
    BY <1>s, <2>1, <2>2 DEF SteamRecord, SteamSteps
  <2> QED
    BY <1>7, <2>1, <2>2, <2>3
<1>13. CASE create_account(p) /\ ~Finish(p)
  <2>1. j.user \notin DOMAIN ac_users /\ InsertUser(j.user)
    BY <1>1, <1>13 DEF create_account, username_exists
  <2> QED
    BY <2>1 DEF InsertUser, Inserted
<1>14. CASE ProvisionUser(p) /\ ~Finish(p)
  <2>1. j.user \notin DOMAIN ac_users /\ InsertUser(j.user)
    BY <1>1, <1>14 DEF ProvisionUser, username_exists
  <2> QED
    BY <2>1 DEF InsertUser, Inserted
<1>15. CASE try_revoke(p) /\ ~Finish(p)
  <2>1. /\ j.pc = "rotate" /\ ~ac_tokens[j.token].revoked
        /\ ac_tokens' = [ac_tokens EXCEPT ![j.token].revoked = TRUE]
    BY <1>1, <1>15 DEF try_revoke, At, revoke
  <2>2. j.token \in DOMAIN ac_tokens
    BY <1>1, <2>1 DEF AccountJob
  <2>3. Revoking({j.token})
    BY <2>1, <2>2, TokenWritten DEF AccountTypes, AccountTables, revoke
  <2> QED
    BY <2>1, <2>2, <2>3 DEF Revoking
<1>16. CASE CreateUserPlayer(p) \/ WriteProfile(p) \/ create_and_enforce(p) \/ InsertGrant(p)
            \/ WithdrawGrant(p) \/ WritePermission(p)
  BY <1>5, <1>16 DEF CreateUserPlayer, WriteProfile, create_and_enforce, InsertGrant, WithdrawGrant,
     WritePermission
<1> QED
  BY <1>5, <1>8, <1>9, <1>10, <1>11, <1>12, <1>13, <1>14, <1>15, <1>16

\* Of the requests that take up a session one does.
LEMMA RotationRenews ==
    ASSUME AccountTypes, RenewedOnce, NEW p \in Tasks, NEW r, Moves(p, r),
           NEW n \in DOMAIN ac_tokens, ~ac_tokens[n].revoked, Revoking({n}),
           r.pc = "gate", r.token = n
    PROVE  RenewedOnce'
<1>1. req'[p] = r /\ \A q \in Tasks : q # p => req'[q] = req[q]
  BY TaskMoves DEF AccountTypes
<1>2. /\ DOMAIN ac_tokens' = DOMAIN ac_tokens /\ Len(ac_tokens') = Len(ac_tokens)
      /\ ac_tokens'[n].revoked
      /\ \A i \in DOMAIN ac_tokens : /\ ac_tokens'[i].session = ac_tokens[i].session
                                     /\ ac_tokens[i].revoked => ac_tokens'[i].revoked
  BY DEF Revoking
<1>3. PICK t : t = ac_tokens[n].session
  OBVIOUS
<1>4. \A s : Renews(r, s)' <=> s = t
  BY <1>2, <1>3 DEF Renews
<1>5. \A q \in Tasks : q # p => \A s : Renews(req[q], s)' => Renews(req[q], s)
  <2> SUFFICES ASSUME NEW q \in Tasks, q # p, NEW s, Renews(req[q], s)' PROVE Renews(req[q], s)
    OBVIOUS
  <2>1. PICK j : j = req[q]
    OBVIOUS
  <2>2. AccountJob(j) /\ req'[q] = j
    BY <1>1, <2>1 DEF AccountTypes
  <2>3. j.pc = "gate" => j.token \in DOMAIN ac_tokens
    BY <2>2 DEF AccountJob
  <2> QED
    BY <1>2, <2>1, <2>2, <2>3 DEF Renews
<1>6. OneTokenPerSession'
  BY <1>2 DEF RenewedOnce, OneTokenPerSession
<1>7. \A i \in DOMAIN ac_tokens : ac_tokens[i].session = t => ac_tokens'[i].revoked
  BY <1>2, <1>3 DEF RenewedOnce, OneTokenPerSession
<1>8. \A q \in Tasks : ~Renews(req[q], t)
  BY <1>3 DEF RenewedOnce
<1>9. Renews(req[p], t)' /\ \A s : Renews(req[p], s)' => s = t
  BY <1>1, <1>4 DEF Renews
<1> HIDE DEF Renews
<1>10. \A q \in Tasks, i \in DOMAIN ac_tokens : Renews(req[q], ac_tokens[i].session)' => ac_tokens'[i].revoked
  BY <1>2, <1>5, <1>7, <1>9 DEF RenewedOnce
<1>11. \A q, o \in Tasks, s \in 1 .. Len(ac_tokens) : Renews(req[q], s)' /\ Renews(req[o], s)' => q = o
  BY <1>5, <1>8, <1>9 DEF RenewedOnce
<1> QED
  BY <1>2, <1>6, <1>10, <1>11 DEF RenewedOnce

\* The next token of a session is issued once, and a new session is new.
LEMMA IssueRenews ==
    ASSUME AccountTypes, RenewedOnce, NEW p \in Tasks, Moves(p, NoRequest),
           NEW x, NEW t, Issuing(x, t),
           t = Len(ac_tokens) + 1 \/ (t \in 1 .. Len(ac_tokens) /\ Renews(req[p], t))
    PROVE  RenewedOnce'
<1>1. req'[p] = NoRequest /\ \A q \in Tasks : q # p => req'[q] = req[q]
  BY TaskMoves DEF AccountTypes
<1> DEFINE n == Len(ac_tokens) + 1
<1>2. /\ DOMAIN ac_tokens = 1 .. Len(ac_tokens) /\ Len(ac_tokens) \in Nat
      /\ DOMAIN ac_tokens' = 1 .. n /\ Len(ac_tokens') = n
      /\ \A i \in DOMAIN ac_tokens : ac_tokens'[i] = ac_tokens[i]
      /\ ac_tokens'[n].session = t
  BY DEF Issuing
<1>3. \A i \in DOMAIN ac_tokens' : i \in DOMAIN ac_tokens \/ i = n
  BY <1>2
<1>4. \A i \in DOMAIN ac_tokens : ac_tokens[i].session \in 1 .. Len(ac_tokens)
  <2>1. \A i \in DOMAIN ac_tokens : ac_tokens[i].session \in 1 .. i
    BY DEF AccountTypes, AccountTables, TokensOK
  <2> QED
    BY <1>2, <2>1
<1>5. \A q \in Tasks : \A s : Renews(req[q], s)' => q # p /\ Renews(req[q], s) /\ s \in 1 .. Len(ac_tokens)
  <2> SUFFICES ASSUME NEW q \in Tasks, NEW s, Renews(req[q], s)'
               PROVE  q # p /\ Renews(req[q], s) /\ s \in 1 .. Len(ac_tokens)
    OBVIOUS
  <2>1. PICK j : j = req[q]
    OBVIOUS
  <2>2. q # p
    BY <1>1 DEF Renews, NoRequest
  <2>3. AccountJob(j) /\ req'[q] = j
    BY <1>1, <2>1, <2>2 DEF AccountTypes
  <2>4. j.pc = "gate" => j.token \in DOMAIN ac_tokens
    BY <2>3 DEF AccountJob
  <2>5. j.pc = "token" => j.session \in 0 .. Len(ac_tokens)
    BY <2>3 DEF AccountJob
  <2>6. Renews(req[q], s)
    BY <1>2, <2>1, <2>3, <2>4 DEF Renews
  <2>7. s \in 1 .. Len(ac_tokens)
    BY <1>2, <1>4, <2>1, <2>4, <2>5, <2>6 DEF Renews
  <2> QED
    BY <2>2, <2>6, <2>7
<1>6. \A i \in DOMAIN ac_tokens : ac_tokens[i].session = t => ac_tokens[i].revoked
  <2>1. CASE t = Len(ac_tokens) + 1
    BY <1>2, <1>4, <2>1
  <2>2. CASE Renews(req[p], t)
    BY <2>2 DEF RenewedOnce
  <2> QED
    BY <2>1, <2>2
<1>7. \A q \in Tasks : ~Renews(req[q], t)'
  <2>1. CASE t = Len(ac_tokens) + 1
    BY <1>2, <1>5, <2>1
  <2>2. CASE t \in 1 .. Len(ac_tokens) /\ Renews(req[p], t)
    <3> HIDE DEF Renews
    <3> QED
      BY <1>5, <2>2 DEF RenewedOnce
  <2> QED
    BY <2>1, <2>2
<1>8. OneTokenPerSession'
  <2> HIDE DEF n
  <2> QED
    BY <1>2, <1>3, <1>6 DEF RenewedOnce, OneTokenPerSession
<1> HIDE DEF Renews
<1>9. \A q \in Tasks, i \in DOMAIN ac_tokens' : Renews(req[q], ac_tokens[i].session)' => ac_tokens'[i].revoked
  <2> SUFFICES ASSUME NEW q \in Tasks, NEW i \in DOMAIN ac_tokens', Renews(req[q], ac_tokens[i].session)'
               PROVE  ac_tokens'[i].revoked
    OBVIOUS
  <2>1. CASE i \in DOMAIN ac_tokens
    <3>1. ac_tokens'[i] = ac_tokens[i]
      BY <1>2, <2>1
    <3>2. Renews(req[q], ac_tokens[i].session)
      BY <1>5, <3>1
    <3> QED
      BY <2>1, <3>1, <3>2 DEF RenewedOnce
  <2>2. CASE i = n
    BY <1>2, <1>7, <2>2
  <2> QED
    BY <1>3, <2>1, <2>2
<1>10. \A q, o \in Tasks, s \in 1 .. Len(ac_tokens') : Renews(req[q], s)' /\ Renews(req[o], s)' => q = o
  BY <1>5 DEF RenewedOnce
<1> QED
  BY <1>8, <1>9, <1>10 DEF RenewedOnce

\* The steps that issue tokens or revoke them.
LEMMA TokenStepAgrees ==
    ASSUME AccountTypes, AccountsAgree, NEW p \in Users,
           \/ IssueToken(p) \/ RefreshGate(p) \/ RevokeAll(p) \/ RevokeOne(p) \/ LogoutAll(p)
           \/ try_revoke(p) /\ ac_tokens' # ac_tokens
    PROVE  AccountsAgree'
<1>0. p \in Tasks /\ TokensOK /\ RenewedOnce
  BY DEF Tasks, AccountTypes, AccountTables, AccountsAgree
<1>j. PICK j : j = req[p]
  OBVIOUS
<1>1. AccountJob(j) /\ req[p] = j
  BY <1>0, <1>j DEF AccountTypes
<1>n. NoRequest.pc = "idle"
  BY DEF NoRequest
<1>2. \A r : Continue(p, r) /\ j.pc # "idle" => Moves(p, r)
  BY <1>1, <1>n DEF Moves
<1>3. UNCHANGED <<ac_users, ac_players, ac_bans>>
  BY DEF IssueToken, RefreshGate, RevokeAll, RevokeOne, LogoutAll, try_revoke, acTables
<1>4. ASSUME NEW D, Revoking(D), Moves(p, NoRequest), AtRest(j) PROVE AccountsAgree'
  <2>1. \A s : ~Renews(NoRequest, s)
    BY <1>n DEF Renews
  <2> QED
    BY <1>0, <1>1, <1>3, <1>4, <1>n, <2>1, IdleIsPlain, RevokedAgrees
<1>5. CASE IssueToken(p)
  <2>1. j.pc = "token" /\ Moves(p, NoRequest)
    BY <1>1, <1>2, <1>5 DEF IssueToken, At, Finish
  <2>2. j.user \in DOMAIN ac_users /\ j.session \in 0 .. Len(ac_tokens)
    BY <1>1, <2>1 DEF AccountJob
  <2>3. PICK t : t = IF j.session = 0 THEN Len(ac_tokens) + 1 ELSE j.session
    OBVIOUS
  <2>4. Len(ac_tokens) \in Nat
    BY <1>0, LenProperties DEF TokensOK
  <2>5. j.user \in AcPeople
    BY <2>2 DEF AccountTypes, AccountTables, UsersOK
  <2>6. t = Len(ac_tokens) + 1 \/ (t \in 1 .. Len(ac_tokens) /\ t = j.session /\ t # 0)
    BY <2>2, <2>3, <2>4
  <2>7. Issuing(j.user, t)
    <3>1. t \in Nat
      BY <2>4, <2>6
    <3> QED
      BY <1>0, <1>1, <1>5, <2>3, <2>5, <3>1, TokenIssued DEF IssueToken
  <2>8. RenewedOnce'
    <3>1. t = Len(ac_tokens) + 1 \/ (t \in 1 .. Len(ac_tokens) /\ Renews(req[p], t))
      BY <1>1, <2>1, <2>6 DEF Renews
    <3> QED
      BY <1>0, <2>1, <2>7, <3>1, IssueRenews
  <2>9. OutScope => OutOfSession'
    <3>1. OutScope => OutOfSession /\ ac_users[j.user] # "banned"
      BY <1>0, <1>1, <2>1, AloneFacts DEF OutJob
    <3>2. \A i \in DOMAIN ac_tokens' : i \in DOMAIN ac_tokens \/ i = Len(ac_tokens) + 1
      BY <2>7 DEF Issuing
    <3> QED
      BY <1>3, <2>7, <3>1, <3>2 DEF OutOfSession, Issuing
  <2>10. AtRest(j)
    BY <2>1 DEF AtRest, Lifting
  <2> QED
    BY <1>0, <1>1, <1>3, <1>n, <2>1, <2>8, <2>9, <2>10, IdleIsPlain, SessionsAgree
<1>6. CASE try_revoke(p) /\ ac_tokens' # ac_tokens
  <2>1. PICK r : r = [j EXCEPT !.pc = "gate"]
    OBVIOUS
  <2>2. j.pc = "rotate" /\ ~ac_tokens[j.token].revoked /\ revoke(j.token) /\ Continue(p, r)
    BY <1>1, <1>6, <2>1 DEF try_revoke, At
  <2>3. j \in [pc : {j.pc}, token : {j.token}, user : {j.user}] /\ j.token \in DOMAIN ac_tokens
    BY <1>1, <2>2 DEF AccountJob
  <2>4. r.pc = "gate" /\ r.token = j.token
    BY <2>1, <2>3
  <2>5. Moves(p, r) /\ Revoking({j.token})
    BY <1>0, <1>2, <2>2, <2>3, TokenWritten
  <2>6. RenewedOnce'
    BY <1>0, <2>2, <2>3, <2>4, <2>5, RotationRenews
  <2>7. OutScope => OutOfSession' /\ OutJob(r)
    <3>1. OutScope => OutOfSession
      BY <1>0, <2>5, AloneFacts
    <3>2. OutScope => OutOfSession'
      BY <1>3, <2>5, <3>1 DEF OutOfSession, Revoking
    <3>3. OutJob(r)
      BY <2>4 DEF OutJob
    <3> QED
      BY <3>2, <3>3
  <2>8. AtRest(j) /\ AtRest(r)
    BY <2>2, <2>4 DEF AtRest, Lifting
  <2> QED
    BY <1>0, <1>1, <1>3, <2>4, <2>5, <2>6, <2>7, <2>8, SessionsAgree
<1>7. CASE RefreshGate(p)
  <2>1. j.pc = "gate" /\ ac_tokens' = ac_tokens
    BY <1>1, <1>7 DEF RefreshGate, At, acTables
  <2>2. j \in [pc : {j.pc}, token : {j.token}, user : {j.user}] /\ j.token \in DOMAIN ac_tokens
    BY <1>1, <2>1 DEF AccountJob
  <2>3. Revoking({}) /\ AtRest(j)
    BY <2>1, NoTokenWritten DEF AtRest, Lifting
  <2>4. CASE is_active(j.user)
    <3>1. PICK t : t = ac_tokens[j.token].session
      OBVIOUS
    <3>2. PICK r : r = [pc |-> "token", user |-> j.user, session |-> t]
      OBVIOUS
    <3>3. r.pc = "token" /\ r.user = j.user /\ r.session = t
      BY <3>2
    <3>4. Moves(p, r)
      BY <1>1, <1>2, <1>7, <2>1, <2>4, <3>1, <3>2 DEF RefreshGate
    <3>5. \A s : Renews(r, s) => Renews(req[p], s)
      BY <1>1, <2>1, <3>1, <3>3 DEF Renews
    <3>6. AtRest(r) /\ OutJob(r)
      BY <2>4, <3>3 DEF AtRest, Lifting, OutJob, is_active
    <3> QED
      BY <1>0, <1>1, <1>3, <2>3, <3>3, <3>4, <3>5, <3>6, RevokedAgrees
  <2>5. CASE ~is_active(j.user)
    <3>1. PICK r : r = [j EXCEPT !.pc = "revoke all"]
      OBVIOUS
    <3>2. r.pc = "revoke all"
      BY <2>2, <3>1
    <3>3. Moves(p, r)
      BY <1>1, <1>2, <1>7, <2>1, <2>5, <3>1 DEF RefreshGate
    <3>4. AtRest(r) /\ OutJob(r) /\ \A s : ~Renews(r, s)
      BY <3>2 DEF AtRest, Lifting, OutJob, Renews
    <3> QED
      BY <1>0, <1>1, <1>3, <2>3, <3>2, <3>3, <3>4, RevokedAgrees
  <2> QED
    BY <2>4, <2>5
<1>8. CASE RevokeAll(p)
  <2>1. j.pc = "revoke all" /\ Moves(p, NoRequest)
    BY <1>1, <1>2, <1>8 DEF RevokeAll, At, Finish
  <2>2. PICK D : Revoking(D)
    BY <1>0, <1>8, TokensOfUserRevoked DEF RevokeAll
  <2>3. AtRest(j)
    BY <2>1 DEF AtRest, Lifting
  <2> QED
    BY <1>4, <2>1, <2>2, <2>3
<1>9. CASE RevokeOne(p)
  <2>1. j.pc = "revoke" /\ Moves(p, NoRequest) /\ revoke(j.token)
    BY <1>1, <1>2, <1>9 DEF RevokeOne, At, Finish
  <2>2. j.token \in DOMAIN ac_tokens
    BY <1>1, <2>1 DEF AccountJob
  <2>3. Revoking({j.token}) /\ AtRest(j)
    BY <1>0, <2>1, <2>2, TokenWritten DEF AtRest, Lifting
  <2> QED
    BY <1>4, <2>1, <2>3
<1>10. CASE LogoutAll(p)
  <2>1. PICK x \in DOMAIN ac_users : Request(p, NoRequest) /\ revoke_all_for_user(x)
    BY <1>10 DEF LogoutAll
  <2>2. PICK D : Revoking(D)
    BY <1>0, <2>1, TokensOfUserRevoked
  <2>3. AtRest(j) /\ Moves(p, NoRequest)
    BY <1>1, <2>1, IdleIsPlain DEF Request, MayStart, Moves
  <2> QED
    BY <1>4, <2>2, <2>3
<1> QED
  BY <1>5, <1>6, <1>7, <1>8, <1>9, <1>10

\* Statuses and bans are written, and tokens revoked.
LEMMA StandingAgrees ==
    ASSUME AccountTypes, AccountsAgree, NEW p \in Tasks, NEW r, Moves(p, r), NEW D, Revoking(D),
           UNCHANGED ac_players, DOMAIN ac_users' = DOMAIN ac_users,
           r.pc \in {"idle", "cli banned"} \cup Lifting,
           BanScope =>
               /\ BanJob(r)'
               /\ \A x \in DOMAIN ac_users :
                      is_platform_banned(x)' /\ is_active(x)' => r.pc = "cli banned" /\ r.user = x,
           OutScope => OutOfSession' /\ r.pc # "cli banned",
           LiftScope =>
               /\ r.pc = "cli banned" => Held(r.user)'
               /\ \A x \in DOMAIN ac_users :
                      ac_users'[x] = "banned" => Held(x)' \/ (r.pc \in Lifting /\ r.user = x)
    PROVE  AccountsAgree'
<1>1. RenewedOnce'
  <2>1. r.pc # "gate" /\ \A s : ~Renews(r, s)
    BY DEF Renews, Lifting
  <2> QED
    BY <2>1, RenewTurn DEF AccountsAgree
<1>2. AccountsWhole'
  <2>1. r.pc # "cli player"
    BY DEF Lifting
  <2> QED
    BY <2>1, WholeTurn DEF AccountsAgree
<1>3. BansHold'
  BY BansTurn DEF AccountsAgree
<1>4. SignedOut'
  <2>1. r.pc # "cli banned" => OutJob(r)'
    BY DEF OutJob, Lifting
  <2> QED
    BY <2>1, OutTurn DEF AccountsAgree
<1>5. LiftsFinish'
  BY LiftTurn DEF AccountsAgree
<1>6. OneAtATime'
  BY AccountMoves DEF AccountsAgree
<1> QED
  BY <1>1, <1>2, <1>3, <1>4, <1>5, <1>6 DEF AccountsAgree

\* A status is written, and nothing else of the table.
LEMMA StatusOfOne ==
    ASSUME AccountTypes, NEW x \in DOMAIN ac_users, NEW status, update_user_status(x, status)
    PROVE  /\ DOMAIN ac_users' = DOMAIN ac_users /\ ac_users'[x] = status
           /\ \A y \in DOMAIN ac_users : y # x => ac_users'[y] = ac_users[y]
           /\ \A y \in DOMAIN ac_users : is_active(y)' => ac_users[y] = "active" \/ y = x
           /\ status # "active" => ~is_active(x)'
           /\ status # "banned" => \A y \in DOMAIN ac_users : ac_users'[y] = "banned" => ac_users[y] = "banned" /\ y # x
BY DEF update_user_status, is_active

\* Nobody who was signed out comes back.
LEMMA StayingOut ==
    ASSUME AccountTypes, OutOfSession, NEW D, Revoking(D),
           \A i \in DOMAIN ac_tokens :
               ac_users'[ac_tokens[i].user] = "banned" => ac_users[ac_tokens[i].user] = "banned" \/ i \in D
    PROVE  OutOfSession'
BY DEF OutOfSession, Revoking

\* A ban through the API is enforced with its insertion.
LEMMA EnforcingAgrees ==
    ASSUME AccountTypes, AccountsAgree, NEW p \in Users, create_and_enforce(p), ac_bans' # ac_bans
    PROVE  AccountsAgree'
<1>0. p \in Tasks /\ TokensOK /\ BansOK
  BY DEF Tasks, AccountTypes, AccountTables
<1>j. PICK j : j = req[p]
  OBVIOUS
<1>1. AccountJob(j) /\ req[p] = j
  BY <1>0, <1>j DEF AccountTypes
<1>n. NoRequest.pc = "idle"
  BY DEF NoRequest
<1>2. /\ j.pc = "enforce" /\ Finish(p) /\ InsertBan(j.user, j.type, j.scope, j.temporary)
      /\ IF j.type = "platform" THEN update_user_status(j.user, "banned") ELSE UNCHANGED ac_users
      /\ IF j.type = "platform" THEN revoke_all_for_user(j.user) ELSE UNCHANGED ac_tokens
      /\ UNCHANGED ac_players
  BY <1>1 DEF create_and_enforce, At
<1>3. j.user \in DOMAIN ac_users /\ j.type \in BanType /\ j.scope \in BanScopes /\ j.temporary \in BOOLEAN
  BY <1>1, <1>2 DEF AccountJob
<1>4. j.user \in AcPeople
  BY <1>3 DEF AccountTypes, AccountTables, UsersOK
<1>5. Recorded(j.user, j.type)
  BY <1>0, <1>2, <1>3, <1>4, BanRecorded
<1>6. Moves(p, NoRequest) /\ j.pc \notin Lifting /\ j.pc # "cli banned"
  BY <1>1, <1>2, <1>n DEF Moves, Finish, Lifting
<1>7. /\ \A x : is_platform_banned(x)' => is_platform_banned(x) \/ (x = j.user /\ j.type = "platform")
      /\ \A x : Held(x) => Held(x)'
      /\ j.type = "platform" => Held(j.user)'
  BY <1>5, BansThatStand
<1>8. /\ BanScope => \A x \in DOMAIN ac_users : ~(is_platform_banned(x) /\ is_active(x))
      /\ OutScope => OutOfSession
      /\ LiftScope => \A x \in DOMAIN ac_users : ac_users[x] = "banned" => Held(x)
  BY <1>0, <1>1, <1>6, AloneFacts
<1>9. BanJob(NoRequest)' /\ NoRequest.pc \notin Lifting
  BY DEF BanJob, NoRequest, Lifting
<1>10. CASE j.type = "platform"
  <2>1. update_user_status(j.user, "banned") /\ revoke_all_for_user(j.user)
    BY <1>2, <1>10
  <2>2. /\ DOMAIN ac_users' = DOMAIN ac_users /\ ac_users'[j.user] = "banned"
        /\ \A y \in DOMAIN ac_users : y # j.user => ac_users'[y] = ac_users[y]
    BY <1>3, <2>1, StatusOfOne
  <2>3. PICK D : D = {i \in DOMAIN ac_tokens : ac_tokens[i].user = j.user}
    OBVIOUS
  <2>4. Revoking(D)
    BY <1>0, <2>1, <2>3, TokensOfUserRevoked
  <2>5. ASSUME BanScope PROVE \A x \in DOMAIN ac_users : ~(is_platform_banned(x)' /\ is_active(x)')
    BY <1>7, <1>8, <2>2, <2>5 DEF is_active
  <2>6. ASSUME OutScope PROVE OutOfSession'
    <3>1. \A i \in DOMAIN ac_tokens : ac_tokens[i].user \in DOMAIN ac_users
      BY <1>0 DEF TokensOK
    <3>2. \A i \in DOMAIN ac_tokens :
              ac_users'[ac_tokens[i].user] = "banned" => ac_users[ac_tokens[i].user] = "banned" \/ i \in D
      BY <2>2, <2>3, <3>1
    <3> QED
      BY <1>8, <2>4, <2>6, <3>2, StayingOut
  <2>7. ASSUME LiftScope PROVE \A x \in DOMAIN ac_users : ac_users'[x] = "banned" => Held(x)'
    BY <1>7, <1>8, <1>10, <2>2, <2>7
  <2> QED
    BY <1>0, <1>2, <1>6, <1>9, <1>n, <2>2, <2>4, <2>5, <2>6, <2>7, StandingAgrees
<1>11. CASE j.type # "platform"
  <2>1. ac_users' = ac_users /\ ac_tokens' = ac_tokens
    BY <1>2, <1>11
  <2>2. Revoking({})
    BY <2>1, NoTokenWritten
  <2>3. ASSUME BanScope PROVE \A x \in DOMAIN ac_users : ~(is_platform_banned(x)' /\ is_active(x)')
    BY <1>7, <1>8, <1>11, <2>1, <2>3 DEF is_active
  <2>4. ASSUME OutScope PROVE OutOfSession'
    BY <1>8, <2>1, <2>4 DEF OutOfSession
  <2>5. ASSUME LiftScope PROVE \A x \in DOMAIN ac_users : ac_users'[x] = "banned" => Held(x)'
    BY <1>7, <1>8, <2>1, <2>5
  <2> QED
    BY <1>0, <1>2, <1>6, <1>9, <1>n, <2>1, <2>2, <2>3, <2>4, <2>5, StandingAgrees
<1> QED
  BY <1>10, <1>11

\* Lifting a ban through the API, statement by statement.
LEMMA LiftingAgrees ==
    ASSUME AccountTypes, AccountsAgree, NEW p \in Users,
           lift(p) \/ StillBanned(p) \/ FindBannedUser(p) \/ RestoreStatus(p)
    PROVE  AccountsAgree'
<1>0. p \in Tasks /\ TokensOK /\ BansOK
  BY DEF Tasks, AccountTypes, AccountTables
<1>j. PICK j : j = req[p]
  OBVIOUS
<1>1. AccountJob(j) /\ req[p] = j
  BY <1>0, <1>j DEF AccountTypes
<1>n. NoRequest.pc = "idle" /\ BanJob(NoRequest)' /\ NoRequest.pc \notin Lifting
  BY DEF NoRequest, BanJob, Lifting
<1>2. /\ j.pc \in {"lift", "still banned", "banned user", "restore"}
      /\ ac_players' = ac_players /\ ac_tokens' = ac_tokens
  BY <1>1 DEF lift, StillBanned, FindBannedUser, RestoreStatus, At, acTables
<1>3. /\ j \in [pc : {j.pc}, ban : {j.ban}, user : {j.user}]
      /\ j.ban \in DOMAIN ac_bans /\ j.user = ac_bans[j.ban].user /\ j.user \in DOMAIN ac_users
  BY <1>1, <1>2 DEF AccountJob
<1>4. \A r : Continue(p, r) => Moves(p, r)
  BY <1>1, <1>2, <1>n DEF Moves
<1>5. Revoking({})
  BY <1>2, NoTokenWritten
<1>6. ASSUME NEW r, Moves(p, r)
      PROVE  /\ BanScope =>
                    /\ BanJob(j)
                    /\ \A x \in DOMAIN ac_users : ~(is_platform_banned(x) /\ is_active(x))
             /\ OutScope => OutOfSession
             /\ LiftScope => \A x \in DOMAIN ac_users :
                    ac_users[x] = "banned" => Held(x) \/ (j.pc \in Lifting /\ j.user = x)
  <2>1. j.pc # "cli banned"
    BY <1>2
  <2> HIDE DEF BanJob
  <2> QED
    BY <1>0, <1>1, <1>6, <2>1, AloneFacts
\* The status stays as it was.
<1>7. ASSUME NEW r, Continue(p, r), ac_users' = ac_users, r.pc \in {"idle"} \cup Lifting,
             BanScope => BanJob(r)' /\ \A x \in DOMAIN ac_users : is_platform_banned(x)' => is_platform_banned(x),
             LiftScope => \A x \in DOMAIN ac_users :
                 ac_users[x] = "banned" => Held(x)' \/ (r.pc \in Lifting /\ r.user = x)
      PROVE  AccountsAgree'
  <2>1. Moves(p, r) /\ r.pc # "cli banned"
    BY <1>4, <1>7 DEF Lifting
  <2>2. ASSUME BanScope PROVE \A x \in DOMAIN ac_users : ~(is_platform_banned(x)' /\ is_active(x)')
    BY <1>6, <1>7, <2>1, <2>2 DEF is_active
  <2>3. OutScope => OutOfSession'
    BY <1>2, <1>6, <1>7, <2>1 DEF OutOfSession
  <2> HIDE DEF BanJob
  <2> QED
    BY <1>0, <1>2, <1>5, <1>7, <2>1, <2>2, <2>3, StandingAgrees
<1>8. ASSUME NEW pc \in {"still banned", "banned user", "restore"}, NEW r, r = [j EXCEPT !.pc = pc]
      PROVE  r.pc = pc /\ r.user = j.user /\ pc \in Lifting
  BY <1>3, <1>8 DEF Lifting
<1>9. CASE lift(p)
  <2>1. j.pc = "lift" /\ ac_users' = ac_users /\ ac_bans' = [ac_bans EXCEPT ![j.ban].lifted = TRUE]
    BY <1>1, <1>9 DEF lift, At
  <2>2. Lifted({j.ban})
    BY <1>0, <1>3, <2>1, BanWritten
  <2>3. /\ \A x : is_platform_banned(x)' => is_platform_banned(x)
        /\ \A x : Held(x) => Held(x)' \/ (j.user = x /\ ac_bans[j.ban].type = "platform")
    BY <1>3, <2>2, BansThatStand
  <2>4. LiftScope => \A x \in DOMAIN ac_users :
            ac_users[x] = "banned" => Held(x)' \/ (j.user = x /\ ac_bans[j.ban].type = "platform")
    <3>1. ASSUME NEW r, Continue(p, r), LiftScope
          PROVE  \A x \in DOMAIN ac_users : ac_users[x] = "banned" => Held(x)
      BY <1>4, <1>6, <2>1, <3>1 DEF Lifting
    <3>2. \E r : Continue(p, r)
      BY <1>1, <1>9 DEF lift, Finish
    <3> QED
      BY <2>3, <3>1, <3>2
  <2>5. CASE ac_bans[j.ban].type = "platform"
    <3>1. PICK r : r = [j EXCEPT !.pc = "still banned"]
      OBVIOUS
    <3>2. Continue(p, r)
      BY <1>1, <1>9, <2>5, <3>1 DEF lift
    <3>3. r.pc = "still banned" /\ r.user = j.user /\ r.pc \in Lifting
      BY <1>8, <3>1
    <3>4. BanJob(r)'
      BY <3>3 DEF BanJob
    <3> QED
      BY <1>7, <2>1, <2>3, <2>4, <3>2, <3>3, <3>4
  <2>6. CASE ac_bans[j.ban].type # "platform"
    <3>1. Continue(p, NoRequest)
      BY <1>1, <1>9, <2>6 DEF lift, Finish
    <3> QED
      BY <1>7, <1>n, <2>1, <2>3, <2>4, <2>6, <3>1
  <2> QED
    BY <2>5, <2>6
<1>10. CASE StillBanned(p) \/ FindBannedUser(p)
  <2>1. ac_users' = ac_users /\ ac_bans' = ac_bans /\ j.pc \in {"still banned", "banned user"}
    BY <1>1, <1>10 DEF StillBanned, FindBannedUser, At, acTables
  <2>2. /\ \A x : is_platform_banned(x)' <=> is_platform_banned(x)
        /\ \A x : Held(x)' <=> Held(x)
    BY <2>1, BansThatStand
  <2>3. CASE StillBanned(p) /\ is_platform_banned(j.user)
    <3>1. Continue(p, NoRequest)
      BY <1>1, <2>3 DEF StillBanned, Finish
    <3>2. Held(j.user)
      BY <2>3 DEF Held, is_platform_banned, get_active_for_user, is_lifted
    <3>3. LiftScope => \A x \in DOMAIN ac_users : ac_users[x] = "banned" => Held(x)'
      BY <1>4, <1>6, <2>2, <3>1, <3>2
    <3> QED
      BY <1>7, <1>n, <2>1, <2>2, <3>1, <3>3
  <2>4. CASE StillBanned(p) /\ ~is_platform_banned(j.user)
    <3>1. PICK r : r = [j EXCEPT !.pc = "banned user"]
      OBVIOUS
    <3>2. Continue(p, r)
      BY <1>1, <2>4, <3>1 DEF StillBanned
    <3>3. r.pc = "banned user" /\ r.user = j.user /\ r.pc \in Lifting
      BY <1>8, <3>1
    <3>4. BanJob(r)'
      BY <2>2, <2>4, <3>3 DEF BanJob
    <3>5. LiftScope => \A x \in DOMAIN ac_users :
              ac_users[x] = "banned" => Held(x)' \/ (r.pc \in Lifting /\ r.user = x)
      BY <1>4, <1>6, <2>2, <3>2, <3>3
    <3> QED
      BY <1>7, <2>1, <2>2, <3>2, <3>3, <3>4, <3>5
  <2>5. CASE FindBannedUser(p) /\ ac_users[j.user] = "banned"
    <3>1. PICK r : r = [j EXCEPT !.pc = "restore"]
      OBVIOUS
    <3>2. j.pc = "banned user" /\ Continue(p, r)
      BY <1>1, <2>5, <3>1 DEF FindBannedUser, At
    <3>3. r.pc = "restore" /\ r.user = j.user /\ r.pc \in Lifting
      BY <1>8, <3>1
    <3>4. BanScope => BanJob(r)'
      <4>1. BanScope => BanJob(j)
        BY <1>4, <1>6, <3>2
      <4> QED
        BY <2>2, <3>2, <3>3, <4>1 DEF BanJob
    <3>5. LiftScope => \A x \in DOMAIN ac_users :
              ac_users[x] = "banned" => Held(x)' \/ (r.pc \in Lifting /\ r.user = x)
      BY <1>4, <1>6, <2>2, <3>2, <3>3
    <3> QED
      BY <1>7, <2>1, <2>2, <3>2, <3>3, <3>4, <3>5
  <2>6. CASE FindBannedUser(p) /\ ac_users[j.user] # "banned"
    <3>1. Continue(p, NoRequest)
      BY <1>1, <2>6 DEF FindBannedUser, Finish
    <3>2. LiftScope => \A x \in DOMAIN ac_users : ac_users[x] = "banned" => Held(x)'
      BY <1>4, <1>6, <2>2, <2>6, <3>1
    <3> QED
      BY <1>7, <1>n, <2>1, <2>2, <3>1, <3>2
  <2> QED
    BY <1>10, <2>3, <2>4, <2>5, <2>6
<1>11. CASE RestoreStatus(p)
  <2>1. /\ j.pc = "restore" /\ update_user_status(j.user, "active") /\ Continue(p, NoRequest)
        /\ ac_bans' = ac_bans
    BY <1>1, <1>11 DEF RestoreStatus, At, Finish
  <2>2. /\ \A x : is_platform_banned(x)' <=> is_platform_banned(x)
        /\ \A x : Held(x)' <=> Held(x)
    BY <2>1, BansThatStand
  <2>3. Moves(p, NoRequest)
    BY <1>4, <2>1
  <2>4. /\ DOMAIN ac_users' = DOMAIN ac_users
        /\ \A y \in DOMAIN ac_users : y # j.user => ac_users'[y] = ac_users[y]
        /\ ac_users'[j.user] = "active"
    BY <1>3, <2>1, StatusOfOne
  <2>5. ASSUME BanScope PROVE \A x \in DOMAIN ac_users : ~(is_platform_banned(x)' /\ is_active(x)')
    <3>1. ~is_platform_banned(j.user)
      BY <1>6, <2>1, <2>3, <2>5 DEF BanJob
    <3>2. \A x \in DOMAIN ac_users : ~(is_platform_banned(x) /\ is_active(x))
      BY <1>6, <2>3, <2>5
    <3> QED
      BY <2>2, <2>4, <3>1, <3>2 DEF is_active
  <2>6. OutScope => OutOfSession'
    <3>1. \A i \in DOMAIN ac_tokens : ac_tokens[i].user \in DOMAIN ac_users
      BY <1>0 DEF TokensOK
    <3>2. \A i \in DOMAIN ac_tokens :
              ac_users'[ac_tokens[i].user] = "banned" => ac_users[ac_tokens[i].user] = "banned"
      BY <2>4, <3>1
    <3> QED
      BY <1>5, <1>6, <2>3, <3>2, StayingOut
  <2>7. LiftScope => \A x \in DOMAIN ac_users : ac_users'[x] = "banned" => Held(x)'
    BY <1>6, <2>2, <2>3, <2>4
  <2> HIDE DEF BanJob
  <2> QED
    BY <1>0, <1>2, <1>5, <1>n, <2>3, <2>4, <2>5, <2>6, <2>7, StandingAgrees
<1> QED
  BY <1>9, <1>10, <1>11

\* Bans and statuses from the command line.
LEMMA CommandAgrees ==
    ASSUME AccountTypes, AccountsAgree, NEW p \in Users,
           BanUser(p) \/ BanUserStatus(p) \/ UnbanUser(p) \/ UnbanUserStatus(p)
           \/ DisableUser(p) \/ EnableUser(p) \/ RecordBan(p) \/ LiftById(p)
    PROVE  AccountsAgree'
<1>0. p \in Tasks /\ TokensOK /\ BansOK /\ \A x \in DOMAIN ac_users : x \in AcPeople
  BY DEF Tasks, AccountTypes, AccountTables, UsersOK
<1>j. PICK j : j = req[p]
  OBVIOUS
<1>1. AccountJob(j) /\ req[p] = j
  BY <1>0, <1>j DEF AccountTypes
<1>n. NoRequest.pc = "idle" /\ BanJob(NoRequest)' /\ NoRequest.pc \notin Lifting
  BY DEF NoRequest, BanJob, Lifting
<1>2. ac_players' = ac_players /\ ac_tokens' = ac_tokens
  BY DEF BanUser, BanUserStatus, UnbanUser, UnbanUserStatus, DisableUser, EnableUser, RecordBan, LiftById
<1>3. Revoking({})
  BY <1>2, NoTokenWritten
<1>4. \A i \in DOMAIN ac_tokens : ac_tokens[i].user \in DOMAIN ac_users
  BY <1>0 DEF TokensOK
<1>5. ASSUME NEW r, Request(p, r)
      PROVE  /\ Moves(p, r)
             /\ BanScope => \A x \in DOMAIN ac_users : ~(is_platform_banned(x) /\ is_active(x))
             /\ OutScope => OutOfSession
             /\ LiftScope => \A x \in DOMAIN ac_users : ac_users[x] = "banned" => Held(x)
  <2>1. Moves(p, r) /\ j = NoRequest
    BY <1>1, <1>5 DEF Moves, Request, MayStart
  <2> HIDE DEF BanJob
  <2> QED
    BY <1>0, <1>1, <1>n, <2>1, AloneFacts
<1>6. CASE BanUser(p)
  <2>1. PICK x \in DOMAIN ac_users, t \in BOOLEAN :
            Request(p, [pc |-> "cli banned", user |-> x]) /\ InsertBan(x, "platform", "none", t)
    BY <1>6 DEF BanUser
  <2>2. PICK r : r = [pc |-> "cli banned", user |-> x]
    OBVIOUS
  <2>3. r.pc = "cli banned" /\ r.user = x /\ Request(p, r) /\ Moves(p, r)
    BY <1>5, <2>1, <2>2
  <2>4. "platform" \in BanType /\ "none" \in BanScopes
    BY DEF BanType, BanScopes
  <2>5. Recorded(x, "platform")
    BY <1>0, <2>1, <2>4, BanRecorded
  <2>6. /\ \A y : is_platform_banned(y)' => is_platform_banned(y) \/ y = x
        /\ \A y : Held(y) => Held(y)'
        /\ Held(x)'
    BY <2>5, BansThatStand
  <2>7. ac_users' = ac_users /\ "user ban" \in scenario.ops
    BY <1>6 DEF BanUser, AcAllowed
  <2>8. BanScope =>
            /\ BanJob(r)'
            /\ \A y \in DOMAIN ac_users : is_platform_banned(y)' /\ is_active(y)' => r.pc = "cli banned" /\ r.user = y
    <3>1. BanJob(r)'
      <4>1. scenario' = scenario
        BY <2>3 DEF Request
      <4> QED
        BY <2>3, <2>7, <4>1 DEF BanJob
    <3> QED
      BY <1>5, <2>3, <2>6, <2>7, <3>1 DEF is_active
  <2>9. ~OutScope
    BY <2>7 DEF OutScope
  <2>10. LiftScope => Held(r.user)' /\ \A y \in DOMAIN ac_users : ac_users'[y] = "banned" => Held(y)'
    BY <1>5, <2>3, <2>6, <2>7
  <2> HIDE DEF BanJob
  <2> QED
    BY <1>0, <1>2, <1>3, <2>3, <2>7, <2>8, <2>9, <2>10, StandingAgrees
<1>7. CASE BanUserStatus(p)
  <2>1. /\ j.pc = "cli banned" /\ Moves(p, NoRequest) /\ ac_bans' = ac_bans
        /\ update_user_status(j.user, "banned")
    BY <1>1, <1>7, <1>n DEF BanUserStatus, At, Finish, Moves
  <2>2. j.user \in DOMAIN ac_users
    BY <1>1, <2>1 DEF AccountJob
  <2>3. /\ DOMAIN ac_users' = DOMAIN ac_users /\ ac_users'[j.user] = "banned"
        /\ \A y \in DOMAIN ac_users : y # j.user => ac_users'[y] = ac_users[y]
    BY <2>1, <2>2, StatusOfOne
  <2>4. /\ \A x : is_platform_banned(x)' <=> is_platform_banned(x)
        /\ \A x : Held(x)' <=> Held(x)
    BY <2>1, BansThatStand
  <2>5. /\ BanScope =>
               \A x \in DOMAIN ac_users : is_platform_banned(x) /\ is_active(x) => j.user = x
        /\ OutScope => OutJob(j)
        /\ LiftScope =>
               /\ Held(j.user)
               /\ \A x \in DOMAIN ac_users :
                      ac_users[x] = "banned" => Held(x) \/ (j.pc \in Lifting /\ j.user = x)
    BY <1>0, <1>1, <2>1, AloneFacts
  <2>6. BanScope => \A x \in DOMAIN ac_users : ~(is_platform_banned(x)' /\ is_active(x)')
    BY <2>3, <2>4, <2>5 DEF is_active
  <2>7. ~OutScope
    BY <2>1, <2>5 DEF OutJob
  <2>8. LiftScope => \A x \in DOMAIN ac_users : ac_users'[x] = "banned" => Held(x)'
    BY <2>1, <2>3, <2>4, <2>5 DEF Lifting
  <2> HIDE DEF BanJob
  <2> QED
    BY <1>0, <1>2, <1>3, <1>n, <2>1, <2>3, <2>6, <2>7, <2>8, StandingAgrees
<1>8. CASE UnbanUser(p)
  <2>1. PICK x \in DOMAIN ac_users :
            /\ Request(p, [pc |-> "cli unbanned", user |-> x])
            /\ ac_bans' = [b \in DOMAIN ac_bans |->
                   IF b \in get_active_for_user(x) THEN [ac_bans[b] EXCEPT !.lifted = TRUE]
                   ELSE ac_bans[b]]
    BY <1>8 DEF UnbanUser
  <2>2. PICK r : r = [pc |-> "cli unbanned", user |-> x]
    OBVIOUS
  <2>3. r.pc = "cli unbanned" /\ r.user = x /\ Request(p, r) /\ Moves(p, r) /\ r.pc \in Lifting
    BY <1>5, <2>1, <2>2 DEF Lifting
  <2>4. PICK D : D = get_active_for_user(x)
    OBVIOUS
  <2>5. Lifted(D)
    BY <1>0, <2>1, <2>4, BansOfUserLifted
  <2>6. \A b \in D \cap DOMAIN ac_bans : ac_bans[b].user = x
    BY <2>4 DEF get_active_for_user
  <2>7. /\ \A y : is_platform_banned(y)' => is_platform_banned(y)
        /\ \A y : Held(y) => Held(y)' \/ y = x
        /\ ~is_platform_banned(x)'
    BY <2>4, <2>5, <2>6, BansThatStand
  <2>8. ac_users' = ac_users
    BY <1>8 DEF UnbanUser
  <2>9. BanJob(r)'
    BY <2>3, <2>7 DEF BanJob
  <2>10. BanScope => \A y \in DOMAIN ac_users : ~(is_platform_banned(y)' /\ is_active(y)')
    BY <1>5, <2>3, <2>7, <2>8 DEF is_active
  <2>11. OutScope => OutOfSession'
    BY <1>2, <1>5, <2>3, <2>8 DEF OutOfSession
  <2>12. LiftScope => \A y \in DOMAIN ac_users : ac_users'[y] = "banned" => Held(y)' \/ r.user = y
    BY <1>5, <2>3, <2>7, <2>8
  <2> HIDE DEF BanJob
  <2> QED
    BY <1>0, <1>2, <1>3, <2>3, <2>8, <2>9, <2>10, <2>11, <2>12, StandingAgrees
<1>9. CASE UnbanUserStatus(p)
  <2>1. /\ j.pc = "cli unbanned" /\ Moves(p, NoRequest) /\ ac_bans' = ac_bans
        /\ update_user_status(j.user, "active")
    BY <1>1, <1>9, <1>n DEF UnbanUserStatus, At, Finish, Moves
  <2>2. j.user \in DOMAIN ac_users
    BY <1>1, <2>1 DEF AccountJob
  <2>3. /\ DOMAIN ac_users' = DOMAIN ac_users /\ ac_users'[j.user] = "active"
        /\ \A y \in DOMAIN ac_users : y # j.user => ac_users'[y] = ac_users[y]
    BY <2>1, <2>2, StatusOfOne
  <2>4. /\ \A x : is_platform_banned(x)' <=> is_platform_banned(x)
        /\ \A x : Held(x)' <=> Held(x)
    BY <2>1, BansThatStand
  <2>5. /\ BanScope =>
               /\ ~is_platform_banned(j.user)
               /\ \A x \in DOMAIN ac_users : ~(is_platform_banned(x) /\ is_active(x))
        /\ OutScope => OutOfSession
        /\ LiftScope => \A x \in DOMAIN ac_users : ac_users[x] = "banned" => Held(x) \/ j.user = x
    BY <1>0, <1>1, <2>1, AloneFacts DEF BanJob
  <2>6. BanScope => \A x \in DOMAIN ac_users : ~(is_platform_banned(x)' /\ is_active(x)')
    BY <2>3, <2>4, <2>5 DEF is_active
  <2>7. OutScope => OutOfSession'
    <3>1. \A i \in DOMAIN ac_tokens :
              ac_users'[ac_tokens[i].user] = "banned" => ac_users[ac_tokens[i].user] = "banned"
      BY <1>4, <2>3
    <3> QED
      BY <1>3, <2>5, <3>1, StayingOut
  <2>8. LiftScope => \A x \in DOMAIN ac_users : ac_users'[x] = "banned" => Held(x)'
    BY <2>3, <2>4, <2>5
  <2> HIDE DEF BanJob
  <2> QED
    BY <1>0, <1>2, <1>3, <1>n, <2>1, <2>3, <2>6, <2>7, <2>8, StandingAgrees
<1>10. CASE DisableUser(p) \/ EnableUser(p)
  <2>1. PICK x \in DOMAIN ac_users, status \in {"inactive", "active"} :
            /\ Request(p, NoRequest) /\ update_user_status(x, status)
            /\ status = "active" => "enable" \in scenario.ops
    BY <1>10 DEF DisableUser, EnableUser, AcAllowed
  <2>2. /\ DOMAIN ac_users' = DOMAIN ac_users /\ ac_users'[x] = status
        /\ \A y \in DOMAIN ac_users : y # x => ac_users'[y] = ac_users[y]
    BY <2>1, StatusOfOne
  <2>3. ac_bans' = ac_bans
    BY <1>10 DEF DisableUser, EnableUser
  <2>4. /\ \A y : is_platform_banned(y)' <=> is_platform_banned(y)
        /\ \A y : Held(y)' <=> Held(y)
    BY <2>3, BansThatStand
  <2>5. BanScope => \A y \in DOMAIN ac_users : ~(is_platform_banned(y)' /\ is_active(y)')
    <3>1. BanScope => status = "inactive"
      BY <2>1 DEF BanScope
    <3> QED
      BY <1>5, <2>1, <2>2, <2>4, <3>1 DEF is_active
  <2>6. OutScope => OutOfSession'
    <3>1. \A i \in DOMAIN ac_tokens :
              ac_users'[ac_tokens[i].user] = "banned" => ac_users[ac_tokens[i].user] = "banned"
      BY <1>4, <2>1, <2>2
    <3> QED
      BY <1>3, <1>5, <2>1, <3>1, StayingOut
  <2>7. LiftScope => \A y \in DOMAIN ac_users : ac_users'[y] = "banned" => Held(y)'
    BY <1>5, <2>1, <2>2, <2>4
  <2>8. Moves(p, NoRequest)
    BY <1>5, <2>1
  <2> HIDE DEF BanJob
  <2> QED
    BY <1>0, <1>2, <1>3, <1>n, <2>2, <2>5, <2>6, <2>7, <2>8, StandingAgrees
<1>11. CASE RecordBan(p)
  <2>1. PICK x \in DOMAIN ac_users, type \in BanType, scope \in BanScopes, t \in BOOLEAN :
            Request(p, NoRequest) /\ InsertBan(x, type, scope, t)
    BY <1>11 DEF RecordBan
  <2>2. Recorded(x, type)
    BY <1>0, <2>1, BanRecorded
  <2>3. \A y : Held(y) => Held(y)'
    BY <2>2, BansThatStand
  <2>4. ac_users' = ac_users /\ "ban create" \in scenario.ops
    BY <1>11 DEF RecordBan, AcAllowed
  <2>5. ~BanScope
    BY <2>4 DEF BanScope
  <2>6. OutScope => OutOfSession'
    BY <1>2, <1>5, <2>1, <2>4 DEF OutOfSession
  <2>7. LiftScope => \A y \in DOMAIN ac_users : ac_users'[y] = "banned" => Held(y)'
    BY <1>5, <2>1, <2>3, <2>4
  <2>8. Moves(p, NoRequest)
    BY <1>5, <2>1
  <2> HIDE DEF BanJob
  <2> QED
    BY <1>0, <1>2, <1>3, <1>n, <2>4, <2>5, <2>6, <2>7, <2>8, StandingAgrees
<1>12. CASE LiftById(p)
  <2>1. PICK b \in DOMAIN ac_bans :
            Request(p, NoRequest) /\ ac_bans' = [ac_bans EXCEPT ![b].lifted = TRUE]
    BY <1>12 DEF LiftById
  <2>2. Lifted({b})
    BY <1>0, <2>1, BanWritten
  <2>3. \A y : is_platform_banned(y)' => is_platform_banned(y)
    BY <2>2, BansThatStand
  <2>4. ac_users' = ac_users /\ "ban lift" \in scenario.ops
    BY <1>12 DEF LiftById, AcAllowed
  <2>5. ~LiftScope
    BY <2>4 DEF LiftScope
  <2>6. OutScope => OutOfSession'
    BY <1>2, <1>5, <2>1, <2>4 DEF OutOfSession
  <2>7. BanScope => \A y \in DOMAIN ac_users : ~(is_platform_banned(y)' /\ is_active(y)')
    BY <1>5, <2>1, <2>3, <2>4 DEF is_active
  <2>8. Moves(p, NoRequest)
    BY <1>5, <2>1
  <2> HIDE DEF BanJob
  <2> QED
    BY <1>0, <1>2, <1>3, <1>n, <2>4, <2>5, <2>6, <2>7, <2>8, StandingAgrees
<1> QED
  BY <1>6, <1>7, <1>8, <1>9, <1>10, <1>11, <1>12

\* The clock moves, or nothing does.
LEMMA AccountClockAgrees ==
    ASSUME AccountTypes, AccountsAgree, TokenExpires \/ BanEnds \/ GrantExpires \/ UNCHANGED acVars
    PROVE  AccountsAgree'
<1>1. UNCHANGED <<requestVars, ac_users, ac_players>>
  BY DEF TokenExpires, BanEnds, GrantExpires, acVars, acTables
<1>2. UNCHANGED <<scenario, req, crashes>>
  BY <1>1 DEF requestVars
<1>3. Revoking({})
  <2>1. CASE TokenExpires
    BY <2>1, TokenWritten DEF TokenExpires, AccountTypes, AccountTables
  <2>2. CASE ac_tokens' = ac_tokens
    BY <2>2, NoTokenWritten
  <2> QED
    BY <2>1, <2>2 DEF BanEnds, GrantExpires, acVars, acTables
<1>4. /\ \A x : is_platform_banned(x)' => is_platform_banned(x)
      /\ \A x : Held(x) => Held(x)'
  <2>1. CASE BanEnds
    <3>1. Lifted({})
      BY <2>1, BanWritten DEF BanEnds, AccountTypes, AccountTables
    <3>2. {} \cap DOMAIN ac_bans = {}
      OBVIOUS
    <3> QED
      BY <3>1, <3>2, BansThatStand
  <2>2. CASE ac_bans' = ac_bans
    BY <2>2, BansThatStand
  <2> QED
    BY <2>1, <2>2 DEF TokenExpires, GrantExpires, acVars, acTables
<1>5. RenewedOnce'
  <2> SUFFICES ASSUME NEW q \in Tasks, NEW s, Renews(req[q], s)' PROVE Renews(req[q], s)
    BY <1>3, RenewalsKept DEF AccountsAgree
  <2>1. PICK j : j = req[q]
    OBVIOUS
  <2>2. AccountJob(j) /\ req'[q] = j
    BY <1>2, <2>1 DEF AccountTypes
  <2>3. j.pc = "gate" => j.token \in DOMAIN ac_tokens
    BY <2>2 DEF AccountJob
  <2> QED
    BY <1>3, <2>1, <2>2, <2>3 DEF Renews, Revoking
<1>6. AccountsWhole'
  BY <1>1, <1>2 DEF AccountsAgree, AccountsWhole, WholeScope, AccountIsWhole, AcAllowed
<1>7. OneAtATime'
  BY <1>2 DEF AccountsAgree, OneAtATime
<1>8. BansHold'
  <2>1. \A q \in Tasks : BanJob(req[q]) => BanJob(req[q])'
    <3> SUFFICES ASSUME NEW q \in Tasks, BanJob(req[q]) PROVE BanJob(req[q])'
      OBVIOUS
    <3>1. PICK j : j = req[q] /\ j = req'[q]
      BY <1>2
    <3> QED
      BY <1>2, <1>4, <3>1 DEF BanJob
  <2>2. BanScope' = BanScope /\ \A x : is_active(x)' = is_active(x)
    BY <1>1, <1>2 DEF BanScope, is_active
  <2> HIDE DEF BanJob
  <2> QED
    BY <1>1, <1>2, <1>4, <2>1, <2>2 DEF AccountsAgree, BansHold
<1>9. SignedOut'
  <2>1. OutScope' = OutScope /\ \A q \in Tasks : OutJob(req[q])' = OutJob(req[q])
    BY <1>1, <1>2 DEF OutScope, OutJob
  <2>2. OutScope => OutOfSession
    BY DEF AccountsAgree, SignedOut, BannedIsSignedOut, OutOfSession, OutScope, AcAllowed
  <2>3. OutScope => OutOfSession'
    BY <1>1, <1>3, <2>2 DEF OutOfSession, Revoking
  <2>4. OutScope => BannedIsSignedOut'
    BY <2>3 DEF BannedIsSignedOut, OutOfSession
  <2> HIDE DEF OutJob
  <2> QED
    BY <2>1, <2>4 DEF AccountsAgree, SignedOut
<1>10. LiftsFinish'
  <2>1. LiftScope' = LiftScope
    BY <1>2 DEF LiftScope
  <2>2. LiftScope => \A q \in Tasks : req'[q].pc = "cli banned" => Held(req[q].user)'
    <3> SUFFICES ASSUME LiftScope, NEW q \in Tasks, req'[q].pc = "cli banned" PROVE Held(req[q].user)'
      OBVIOUS
    <3>1. PICK x : x = req[q].user /\ x = req'[q].user
      BY <1>2
    <3>2. Held(x)'
      BY <1>2, <1>4, <3>1 DEF AccountsAgree, LiftsFinish
    <3> HIDE DEF Held
    <3> QED
      BY <3>1, <3>2
  <2> HIDE DEF Held
  <2> QED
    BY <1>1, <1>2, <1>4, <2>1, <2>2 DEF AccountsAgree, LiftsFinish
<1> QED
  BY <1>5, <1>6, <1>7, <1>8, <1>9, <1>10 DEF AccountsAgree

\* A task dies between two statements.
LEMMA AccountDeathAgrees ==
    ASSUME AccountTypes, AccountsAgree, NEW p \in Tasks, Die(p), UNCHANGED acTables
    PROVE  AccountsAgree'
<1>1. /\ req'[p] = NoRequest /\ \A q \in Tasks : q # p => req'[q] = req[q]
      /\ scenario' = scenario /\ crashes' = crashes + 1 /\ crashes \in Nat /\ scenario.crashes # 0
      /\ DOMAIN req' = DOMAIN req
  <2>1. scenario.crashes \in Nat /\ crashes \in 0 .. scenario.crashes
    BY RequestsAssumption DEF AccountTypes, RequestsTypeOK
  <2> QED
    BY <2>1 DEF AccountTypes, RequestsTypeOK, Die
<1>2. UNCHANGED <<ac_users, ac_players, ac_tokens, ac_bans>>
  BY DEF acTables
<1>n. NoRequest.pc = "idle"
  BY DEF NoRequest
<1>3. RenewedOnce'
  <2>1. Revoking({})
    BY <1>2, NoTokenWritten
  <2>2. \A q \in Tasks : \A s : Renews(req[q], s)' => Renews(req[q], s)
    BY <1>1, <1>2, <1>n DEF Renews
  <2> HIDE DEF Renews
  <2> QED
    BY <2>1, <2>2, RenewalsKept DEF AccountsAgree
<1>4. AccountsWhole'
  BY <1>1, <1>2, <1>n DEF AccountsAgree, AccountsWhole, WholeScope, AccountIsWhole, AcAllowed
<1>5. OneAtATime'
  BY <1>1 DEF AccountsAgree, OneAtATime
<1>6. /\ \A x : is_platform_banned(x)' <=> is_platform_banned(x)
      /\ \A x : is_active(x)' <=> is_active(x)
  BY <1>2, BansThatStand DEF is_active
<1>7. BansHold'
  <2> SUFFICES ASSUME BanScope'
               PROVE  /\ \A q \in Tasks : BanJob(req[q])'
                      /\ \A x \in DOMAIN ac_users : ~(is_platform_banned(x) /\ is_active(x))
    BY <1>2, <1>6 DEF BansHold
  <2>1. BanScope /\ "user ban" \notin scenario.ops
    <3>1. crashes' # 0
      BY <1>1
    <3>2. /\ scenario.of = "accounts" /\ scenario.serial
          /\ scenario.ops \cap {"ban create", "enable"} = {}
          /\ "user ban" \notin scenario.ops
      BY <1>1, <3>1 DEF BanScope
    <3> QED
      BY <3>2 DEF BanScope
  <2>2. \A q \in Tasks : BanJob(req[q])
    BY <2>1 DEF AccountsAgree, BansHold
  <2>3. BanJob(NoRequest)'
    BY <1>n DEF BanJob
  <2>4. \A q \in Tasks : BanJob(req[q])'
    <3> SUFFICES ASSUME NEW q \in Tasks PROVE BanJob(req[q])'
      OBVIOUS
    <3>1. PICK j : j = req[q]
      OBVIOUS
    <3>2. BanJob(j)'
      BY <1>1, <1>6, <2>2, <3>1 DEF BanJob
    <3> HIDE DEF BanJob
    <3> QED
      BY <1>1, <2>3, <3>1, <3>2
  <2>5. \A q \in Tasks : req[q].pc # "cli banned"
    BY <2>1, <2>2 DEF BanJob
  <2> HIDE DEF BanJob
  <2> QED
    BY <2>1, <2>4, <2>5 DEF AccountsAgree, BansHold
<1>8. SignedOut'
  <2>1. OutScope' = OutScope
    BY <1>1 DEF OutScope
  <2>2. OutScope => BannedIsSignedOut'
    BY <1>1, <1>2 DEF AccountsAgree, SignedOut, BannedIsSignedOut, AcAllowed
  <2>3. OutJob(NoRequest)'
    BY IdleIsPlain
  <2>4. OutScope => \A q \in Tasks : OutJob(req[q])'
    <3> SUFFICES ASSUME OutScope, NEW q \in Tasks PROVE OutJob(req[q])'
      OBVIOUS
    <3>1. PICK j : j = req[q]
      OBVIOUS
    <3>2. OutJob(j)'
      BY <1>2, <3>1 DEF AccountsAgree, SignedOut, OutJob
    <3> HIDE DEF OutJob
    <3> QED
      BY <1>1, <2>3, <3>1, <3>2
  <2> QED
    BY <2>1, <2>2, <2>4 DEF SignedOut
<1>9. LiftsFinish'
  BY <1>1 DEF LiftsFinish, LiftScope
<1> QED
  BY <1>3, <1>4, <1>5, <1>7, <1>8, <1>9 DEF AccountsAgree

\* At the start.
LEMMA AccountsAgreeInit ==
    ASSUME RequestsInit, AcInit
    PROVE  AccountsAgree
<1>1. \A q \in Tasks : req[q] = NoRequest
  BY DEF RequestsInit
<1>n. NoRequest.pc = "idle"
  BY DEF NoRequest
<1>2. /\ ac_tokens = << >> /\ ac_bans = << >> /\ DOMAIN ac_players = DOMAIN ac_users
      /\ \A x \in DOMAIN ac_users : ac_users[x] = "active"
  BY DEF AcInit
<1>3. DOMAIN ac_tokens = {} /\ DOMAIN ac_bans = {} /\ Len(ac_tokens) = 0
  BY <1>2
<1>4. RenewedOnce
  BY <1>3 DEF RenewedOnce, OneTokenPerSession
<1>5. AccountsWhole
  BY <1>1, <1>2, <1>n DEF AccountsWhole, AccountIsWhole
<1>6. OneAtATime
  BY <1>1 DEF OneAtATime
<1>7. BansHold
  <2>1. \A q \in Tasks : BanJob(req[q])
    BY <1>1, <1>n DEF BanJob
  <2>2. \A x : ~is_platform_banned(x)
    BY <1>3 DEF is_platform_banned, get_active_for_user
  <2> QED
    BY <2>1, <2>2 DEF BansHold
<1>8. SignedOut
  BY <1>1, <1>3, IdleIsPlain DEF SignedOut, BannedIsSignedOut
<1>9. LiftsFinish
  BY <1>1, <1>2, <1>n DEF LiftsFinish
<1> QED
  BY <1>4, <1>5, <1>6, <1>7, <1>8, <1>9 DEF AccountsAgree

\* Every step.
LEMMA AccountsAgreeStep ==
    ASSUME AccountTypes, AccountsAgree, [AcNext]_acVars
    PROVE  AccountsAgree'
<1>1. ASSUME NEW p \in Users, AcSignInStep(p) PROVE AccountsAgree'
  <2>1. CASE create_account(p) \/ ProvisionUser(p)
    <3>1. UNCHANGED <<ac_tokens, ac_bans>>
      BY <2>1 DEF create_account, ProvisionUser
    <3> QED
      BY <2>1, <3>1, AddingAgrees, GoingOnAgrees
  <2>2. CASE try_revoke(p)
    <3>1. UNCHANGED <<ac_users, ac_bans>>
      BY <2>2 DEF try_revoke
    <3> QED
      BY <2>2, <3>1, TokenStepAgrees, GoingOnAgrees
  <2>3. CASE AssignDefaultRole(p) \/ CreateUserPlayer(p) \/ SelfHeal(p) \/ ProvisionName(p)
             \/ ProvisionPlayer(p) \/ StampSteamId(p) \/ WriteProfile(p)
    <3>1. UNCHANGED <<ac_users, ac_tokens, ac_bans>>
      BY <2>3 DEF AssignDefaultRole, CreateUserPlayer, SelfHeal, ProvisionName, ProvisionPlayer,
                  StampSteamId, WriteProfile, acTables
    <3> QED
      BY <2>3, <3>1, GoingOnAgrees
  <2>4. CASE RegisterAccount(p) \/ Login(p) \/ UpdateMyProfile(p) \/ SteamCallback(p) \/ Refresh(p) \/ Logout(p)
    BY <2>4, AskingAccountAgrees
  <2>5. CASE IssueToken(p) \/ RefreshGate(p) \/ RevokeAll(p) \/ RevokeOne(p) \/ LogoutAll(p)
    BY <2>5, TokenStepAgrees
  <2>6. CASE CreateUser(p)
    BY <2>6, AddingAgrees
  <2> QED
    BY <1>1, <2>1, <2>2, <2>3, <2>4, <2>5, <2>6 DEF AcSignInStep
<1>2. ASSUME NEW p \in Users, AcAdminStep(p) PROVE AccountsAgree'
  <2>1. CASE create_and_enforce(p)
    <3>1. ac_bans' = ac_bans => UNCHANGED <<ac_users, ac_tokens>>
      <4>1. PICK j : j = req[p]
        OBVIOUS
      <4>2. InsertBan(j.user, j.type, j.scope, j.temporary) \/ UNCHANGED <<ac_users, ac_tokens, ac_bans>>
        BY <2>1, <4>1 DEF create_and_enforce
      <4>3. InsertBan(j.user, j.type, j.scope, j.temporary) => ac_bans' # ac_bans
        <5>1. ac_bans \in Seq(BanRow)
          BY DEF AccountTypes, AccountTables, BansOK
        <5>2. ASSUME NEW e PROVE Append(ac_bans, e) # ac_bans
          <6>1. ac_bans \in Seq(BanRow \cup {e}) /\ e \in BanRow \cup {e} /\ Len(ac_bans) \in Nat
            BY <5>1, SeqDef, LenProperties
          <6>2. Len(Append(ac_bans, e)) = Len(ac_bans) + 1
            BY <6>1, AppendProperties
          <6> QED
            BY <6>1, <6>2
        <5> QED
          BY <5>2 DEF InsertBan
      <4> QED
        BY <4>2, <4>3
    <3> QED
      BY <2>1, <3>1, EnforcingAgrees, GoingOnAgrees
  <2>2. CASE InsertGrant(p) \/ WithdrawGrant(p) \/ WritePermission(p)
    <3>1. UNCHANGED <<ac_users, ac_tokens, ac_bans>>
      BY <2>2 DEF InsertGrant, WithdrawGrant, WritePermission
    <3> QED
      BY <2>2, <3>1, GoingOnAgrees
  <2>3. CASE lift(p) \/ StillBanned(p) \/ FindBannedUser(p) \/ RestoreStatus(p)
    BY <2>3, LiftingAgrees
  <2>4. CASE BanUser(p) \/ BanUserStatus(p) \/ UnbanUser(p) \/ UnbanUserStatus(p)
             \/ DisableUser(p) \/ EnableUser(p) \/ RecordBan(p) \/ LiftById(p)
    BY <2>4, CommandAgrees
  <2> QED
    BY <1>2, <2>1, <2>2, <2>3, <2>4, AskingAccountAgrees DEF AcAdminStep
<1>3. ASSUME NEW p \in Users, Die(p), UNCHANGED acTables PROVE AccountsAgree'
  BY <1>3, AccountDeathAgrees DEF Tasks
<1> QED
  BY <1>1, <1>2, <1>3, AccountClockAgrees DEF AcNext

\* The invariant says what it should.
LEMMA AgreementOfAccounts ==
    ASSUME AccountTypes, AccountsAgree
    PROVE  AccountsAreSound
<1>1. AccountTables
  BY DEF AccountTypes
<1>2. AcTypeOK
  <2>1. \A i \in DOMAIN ac_tokens : ac_tokens[i] \in RefreshTokenRow
    BY <1>1, LenProperties, ElementOfSeq DEF AccountTables, TokensOK
  <2>2. \A b \in DOMAIN ac_bans : ac_bans[b] \in BanRow
    BY <1>1, LenProperties, ElementOfSeq DEF AccountTables, BansOK
  <2>3. \A x \in DOMAIN ac_players :
            /\ x \in DOMAIN ac_users /\ ac_players[x] \in PlayerRow
            /\ \A y \in DOMAIN ac_players \ {x} :
                 /\ ac_players[x].steam = ac_players[y].steam => ac_players[x].steam = NoSteamId
                 /\ ac_players[x].name = ac_players[y].name => ac_players[x].name = 0
    BY <1>1 DEF AccountTables, PlayersOK
  <2>4. \A i \in DOMAIN ac_tokens : ac_tokens[i].user \in DOMAIN ac_users /\ ac_tokens[i].session \in 1 .. i
    BY <1>1 DEF AccountTables, TokensOK
  <2>5. \A b \in DOMAIN ac_bans : ac_bans[b].user \in DOMAIN ac_users
    BY <1>1 DEF AccountTables, BansOK
  <2>6. \A x \in DOMAIN ac_users : x \in AcPeople /\ ac_users[x] \in UserStatus
    BY <1>1 DEF AccountTables, UsersOK
  <2> QED
    BY <2>1, <2>2, <2>3, <2>4, <2>5, <2>6 DEF AcTypeOK
<1>3. OneTokenPerSession
  BY DEF AccountsAgree, RenewedOnce
<1>4. SignedInIsProvisioned
  BY <1>1 DEF AccountTables, TokensOK, Provisioned, SignedInIsProvisioned
<1>5. AccountIsWhole
  <2>1. CASE WholeScope
    BY <2>1 DEF AccountsAgree, AccountsWhole
  <2>2. CASE ~WholeScope
    <3>1. ASSUME AcAllowed("register"), ~AcAllowed("create user") PROVE FALSE
      <4>1. "register" \in scenario.ops /\ "create user" \notin scenario.ops /\ scenario.of = "accounts"
        BY <3>1 DEF AcAllowed
      <4>2. {"register", "create user"} \cap scenario.ops = {"register"}
        BY <4>1
      <4> QED
        BY <2>2, <4>1, <4>2 DEF WholeScope
    <3> QED
      BY <3>1 DEF AccountIsWhole
  <2> QED
    BY <2>1, <2>2
<1>6. GrantNamesRole
  BY <1>1 DEF AccountTables
<1>n. NoRequest.pc = "idle"
  BY DEF NoRequest
<1>7. BanIsEnforced
  <2> SUFFICES ASSUME /\ scenario.of = "accounts" /\ scenario.serial /\ Quiescent
                      /\ ~AcAllowed("ban create") /\ ~AcAllowed("enable")
                      /\ crashes = 0 \/ ~AcAllowed("user ban"),
                      NEW x \in DOMAIN ac_users, is_platform_banned(x)
               PROVE  ~is_active(x)
    BY DEF BanIsEnforced
  <2>1. "ban create" \notin scenario.ops /\ "enable" \notin scenario.ops
    BY DEF AcAllowed
  <2>2. BanScope
    BY <2>1 DEF BanScope, AcAllowed
  <2>3. \A q \in Tasks : req[q].pc # "cli banned"
    BY <1>n DEF Quiescent
  <2> QED
    BY <2>2, <2>3 DEF AccountsAgree, BansHold
<1>8. BannedIsSignedOut
  <2>1. CASE OutScope
    BY <2>1 DEF AccountsAgree, SignedOut
  <2>2. CASE ~OutScope
    BY <2>2 DEF OutScope, BannedIsSignedOut, AcAllowed
  <2> QED
    BY <2>1, <2>2
<1>9. LiftRestores
  <2> SUFFICES ASSUME /\ scenario.of = "accounts" /\ scenario.serial /\ scenario.crashes = 0 /\ Quiescent
                      /\ ~AcAllowed("ban lift"),
                      NEW x \in DOMAIN ac_users, ac_users[x] = "banned"
               PROVE  Held(x)
    BY DEF LiftRestores, Held, is_lifted
  <2>1. LiftScope
    BY DEF LiftScope, AcAllowed
  <2>2. \A q \in Tasks : req[q].pc \notin Lifting
    BY <1>n DEF Quiescent, Lifting
  <2> QED
    BY <2>1, <2>2 DEF AccountsAgree, LiftsFinish
<1> QED
  BY <1>2, <1>3, <1>4, <1>5, <1>6, <1>7, <1>8, <1>9 DEF AccountsAreSound

\* AccountsAreSound, for any people, roles, requests and deaths: a session
\* has one token that is valid whoever refreshes it at the same time, nobody
\* is signed in without the player a sign-in provisions, no grant outlives
\* its role, and, when requests do not overlap, platform bans that stand are
\* enforced, keep no session and are lifted with the account restored.
THEOREM AccountsStaySound == AcSpec => []AccountsAreSound
<1>1. RequestsInit /\ AcInit => AccountTypes /\ AccountsAgree
  BY AccountTypesInit, AccountsAgreeInit
<1>2. AccountTypes /\ AccountsAgree /\ [AcNext]_acVars => AccountTypes' /\ AccountsAgree'
  BY AccountTypesStep, AccountsAgreeStep
<1>3. AccountTypes /\ AccountsAgree => AccountsAreSound
  BY AgreementOfAccounts
<1> QED
  BY <1>1, <1>2, <1>3, PTL DEF AcSpec

=============================================================================
