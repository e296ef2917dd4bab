--------------------------- MODULE TournamentEntry ---------------------------
(***************************************************************************)
(* The life of a tournament until it is played: it is published, opened,   *)
(* entered (with or without an invitation), checked in, seeded and started *)
(* - which builds its stages, brackets and matches - and later completed.  *)
(* Only the registration and the approval hold the tournament row while    *)
(* they count, and only the start compares the status it replaces; every   *)
(* other operation reads, decides, and writes blindly.                     *)
(* Source: services/tournament/{service,registration,checkin,seeding}.rs,  *)
(* forfeit.rs, adapters/tournament/{tournament,registration,invitation}.rs *)
(***************************************************************************)
EXTENDS Requests, Sequences, FiniteSets

CONSTANTS
    Entrants,           \* the teams or players that may enter
    Leagues,            \* the leagues the tournament may be filed under
    MinParticipants     \* the table's constraint asks for two

VARIABLES
    cup,                \* the row in tournaments
    entries,            \* entries[e]: the registration of e
    invites,            \* invites[e]: the latest invitation of e
    stages,             \* the status of each stage, in stage_order
    brackets,           \* the bracket rows, each with the entrants its matches hold
    forfeits            \* entrants whose matches were forfeited

entryTables == <<cup, entries, invites, stages, brackets, forfeits>>

TournamentStatus == {"draft", "published", "registration", "scheduled", "in_progress",
                     "completed", "finalized", "cancelled"}
TournamentRegistrationStatus ==
    {"pending", "approved", "checked_in", "active", "eliminated", "disqualified",
     "withdrawn", "no_show"}

TournamentFormat ==
    {"single_elimination", "double_elimination", "round_robin", "swiss", "groups_and_playoffs"}

ASSUME TournamentEntryAssumption ==
    /\ MinParticipants \in Nat \ {0, 1} /\ Leagues # {} /\ IsFiniteSet(Entrants)
    /\ \A s \in Scenarios : s.of = "entry" =>
           /\ s.status \in TournamentStatus /\ s.format \in TournamentFormat
           /\ s.max \in 0 .. Cardinality(Entrants)
           /\ \A e \in DOMAIN s.entered :
                  e \in Entrants /\ s.entered[e] \in TournamentRegistrationStatus \cup {"none"}

valid_transitions(status) ==
    {to \in TournamentStatus :
        \/ status = "draft"        /\ to \in {"published", "cancelled"}
        \/ status = "published"    /\ to \in {"registration", "cancelled"}
        \/ status = "registration" /\ to \in {"scheduled", "in_progress", "cancelled"}
        \/ status = "scheduled"    /\ to \in {"registration", "in_progress", "cancelled"}
        \/ status = "in_progress"  /\ to \in {"completed", "cancelled"}
        \/ status = "completed"    /\ to = "finalized"}

\* A registration that is over, and one that may still be withdrawn.
EntryOver(status) == status \in {"eliminated", "disqualified", "withdrawn", "no_show"}
can_withdraw(status) == status \in {"pending", "approved", "checked_in", "active"}

NoEntry == [id |-> 0, status |-> "none", checked_in |-> FALSE, seed |-> 0, league |-> "none"]
Entry(id, status, league) ==
    [id |-> id, status |-> status, checked_in |-> status = "checked_in", seed |-> 0, league |-> league]
HasEntry(e) == entries[e].status # "none"

\* The registrations that take up a place, and how many places there are.
Slots(rows) == {e \in Entrants : rows[e].status \notin {"none", "withdrawn", "disqualified"}}

is_registration_open == cup.status = "registration" /\ ~cup.archived
RequiresCheckIn == scenario.check_in
Allowed(op) == scenario.of = "entry" /\ op \in scenario.ops /\ cup.status # "deleted"

\* The entrants a scenario is about, with the registration each starts with.
Candidates == DOMAIN scenario.entered

EntryInit ==
    LET on == scenario.of = "entry"
        home == CHOOSE l \in Leagues : TRUE
    IN  /\ cup = [status |-> IF on THEN scenario.status ELSE "draft", started |-> FALSE,
                  archived |-> FALSE, league |-> home,
                  max |-> IF on THEN scenario.max ELSE 0]
        /\ entries = [e \in Entrants |->
                         IF on /\ e \in Candidates /\ scenario.entered[e] # "none"
                         THEN Entry(1, scenario.entered[e], home) ELSE NoEntry]
        /\ invites = [e \in Entrants |-> [id |-> 0, status |-> "none"]]
        /\ stages = <<>> /\ brackets = <<>> /\ forfeits = {}

-----------------------------------------------------------------------------
(* The registrations table: an update finds its row by id, and fails when   *)
(* the row has been replaced meanwhile.                                     *)

UpdateEntry(e, id, row) ==
    entries' = IF entries[e].id = id THEN [entries EXCEPT ![e] = row] ELSE entries

update_status(e, id, status) == UpdateEntry(e, id, [entries[e] EXCEPT !.status = status])

\* check_in compares the status; the others do not.
check_in(e, id) ==
    UpdateEntry(e, id, IF entries[e].status = "approved"
                       THEN [entries[e] EXCEPT !.status = "checked_in", !.checked_in = TRUE]
                       ELSE entries[e])

list_checked_in == {e \in Entrants : entries[e].checked_in /\ entries[e].status \in {"checked_in", "active"}}
list_seeded == {e \in Entrants : entries[e].status \in {"checked_in", "approved", "active"}}
initial_registration_status == IF scenario.kind = "open" THEN "approved" ELSE "pending"

\* Mutant: the count runs before the lock is taken and is not repeated.
InsertUncounted(e, replace, league) ==
    IF HasEntry(e) /\ entries[e].id # replace
    THEN UNCHANGED entries
    ELSE entries' = [entries EXCEPT ![e] = Entry(entries[e].id + 1, initial_registration_status, league)]

\* Deletes the superseded row, counts the places that are taken and inserts,
\* under the lock of the tournament row; one row per entrant.
create_with_capacity_check(e, replace, league) ==
    IF \/ HasEntry(e) /\ entries[e].id # replace
       \/ Cardinality(Slots(entries) \ {e}) >= cup.max
    THEN UNCHANGED entries
    ELSE entries' = [entries EXCEPT ![e] = Entry(entries[e].id + 1, initial_registration_status, league)]

\* The row keeps the place it holds, so it is not counted against itself.
update_status_with_capacity_check(e, id, status) ==
    IF entries[e].id = id /\ Cardinality(Slots(entries) \ {e}) < cup.max
    THEN entries' = [entries EXCEPT ![e].status = status]
    ELSE UNCHANGED entries

-----------------------------------------------------------------------------
(* Invitations                                                              *)

permits_registration(status) == status \in {"pending", "accepted"}

\* The partial unique index refuses a second live invitation.
InviteToTournament(p) ==
    /\ Allowed("invite")
    /\ \E e \in Candidates :
          /\ ~permits_registration(invites[e].status)
          /\ invites' = [invites EXCEPT ![e] = [id |-> @.id + 1, status |-> "pending"]]
    /\ Request(p, NoRequest)
    /\ UNCHANGED <<cup, entries, stages, brackets, forfeits>>

RevokeInvitation(p) ==
    /\ Allowed("invite")
    /\ \E e \in Entrants :
          /\ invites[e].status # "none"
          /\ invites' = [invites EXCEPT ![e].status = "revoked"]
    /\ Request(p, NoRequest)
    /\ UNCHANGED <<cup, entries, stages, brackets, forfeits>>

\* mark_accepted, after the registration exists: by id, whatever its status.
ConsumeInvitation(p) ==
    /\ At(p, "entry accept")
    /\ LET e == req[p].entrant IN
       invites' = IF invites[e].id = req[p].invite THEN [invites EXCEPT ![e].status = "accepted"]
                  ELSE invites
    /\ Finish(p)
    /\ UNCHANGED <<cup, entries, stages, brackets, forfeits>>

-----------------------------------------------------------------------------
(* Registration                                                             *)

\* The invitation an invite-only tournament asks for: 0 when it asks for none.
require_invitation(e) ==
    IF scenario.kind # "invite_only" THEN {0}
    ELSE IF permits_registration(invites[e].status) THEN {invites[e].id} ELSE {}

Register(p) ==
    /\ Allowed("register")
    /\ is_registration_open
    /\ \E e \in Candidates :
          /\ HasEntry(e) => EntryOver(entries[e].status)
          /\ \E invite \in require_invitation(e) :
                Request(p, [pc |-> "entry insert", entrant |-> e, invite |-> invite,
                            replace |-> entries[e].id, league |-> cup.league])
    /\ UNCHANGED entryTables

InsertEntry(p) ==
    /\ At(p, "entry insert")
    /\ create_with_capacity_check(req[p].entrant, req[p].replace, req[p].league)
    /\ IF req[p].invite # 0 /\ entries' # entries
       THEN Continue(p, [pc |-> "entry accept", entrant |-> req[p].entrant, invite |-> req[p].invite])
       ELSE Finish(p)
    /\ UNCHANGED <<cup, invites, stages, brackets, forfeits>>

\* The organiser decides on what a read of the registration showed.
AskEntry(p, op, who, label) ==
    /\ Allowed(op)
    /\ \E e \in who : Request(p, [pc |-> label, entrant |-> e, id |-> entries[e].id])
    /\ UNCHANGED entryTables

With(status) == {e \in Entrants : entries[e].status = status}

ApproveRegistration(p) == AskEntry(p, "approve", With("pending"), "entry approve")
RejectRegistration(p) == AskEntry(p, "approve", With("pending"), "entry reject")

WriteApproved(p) ==
    /\ At(p, "entry approve")
    /\ update_status_with_capacity_check(req[p].entrant, req[p].id, "approved")
    /\ Finish(p)
    /\ UNCHANGED <<cup, invites, stages, brackets, forfeits>>

\* A rejection is stored as a withdrawal.
WriteRejected(p) ==
    /\ At(p, "entry reject")
    /\ update_status(req[p].entrant, req[p].id, "withdrawn")
    /\ Finish(p)
    /\ UNCHANGED <<cup, invites, stages, brackets, forfeits>>

\* The organisers' disqualification touches the registration alone.
Disqualify(p) ==
    AskEntry(p, "approve", {e \in Entrants : HasEntry(e) /\ ~EntryOver(entries[e].status)}, "entry disqualify")

WriteDisqualified(p) ==
    /\ At(p, "entry disqualify")
    /\ update_status(req[p].entrant, req[p].id, "disqualified")
    /\ Finish(p)
    /\ UNCHANGED <<cup, invites, stages, brackets, forfeits>>

-----------------------------------------------------------------------------
(* Leaving: the registration first, then its matches, one after the other   *)

WithdrawFromTournament(p) ==
    AskEntry(p, "withdraw", {e \in Entrants : can_withdraw(entries[e].status)}, "entry withdraw")

\* The administrators' disqualification accepts every status.
DisqualifyAndForfeit(p) == AskEntry(p, "withdraw", {e \in Entrants : HasEntry(e)}, "entry expel")

WriteLeft(p) ==
    /\ \/ At(p, "entry withdraw") /\ update_status(req[p].entrant, req[p].id, "withdrawn")
       \/ At(p, "entry expel") /\ update_status(req[p].entrant, req[p].id, "disqualified")
    /\ IF entries[req[p].entrant].id = req[p].id
       THEN Continue(p, [pc |-> "entry matches", entrant |-> req[p].entrant])
       ELSE Finish(p)
    /\ UNCHANGED <<cup, invites, stages, brackets, forfeits>>

find_pending_matches(e) == \E i \in DOMAIN brackets : e \in brackets[i].seated

ForfeitMatches(p) ==
    /\ At(p, "entry matches")
    /\ forfeits' = IF find_pending_matches(req[p].entrant) THEN forfeits \cup {req[p].entrant} ELSE forfeits
    /\ Finish(p)
    /\ UNCHANGED <<cup, entries, invites, stages, brackets>>

-----------------------------------------------------------------------------
(* Check-in                                                                 *)

\* The participant: while the window is open, which is not modelled further.
CheckIn(p) ==
    /\ RequiresCheckIn
    /\ AskEntry(p, "check_in", {e \in With("approved") : ~entries[e].checked_in}, "entry check in")

\* The organiser, who also takes a pending registration - by approving it first.
AdminCheckIn(p) ==
    \/ AskEntry(p, "check_in", {e \in With("approved") : ~entries[e].checked_in}, "entry check in")
    \/ AskEntry(p, "check_in", With("pending"), "entry admit")

WriteAdmitted(p) ==
    /\ At(p, "entry admit")
    /\ update_status(req[p].entrant, req[p].id, "approved")
    /\ Continue(p, [req[p] EXCEPT !.pc = "entry check in"])
    /\ UNCHANGED <<cup, invites, stages, brackets, forfeits>>

WriteCheckedIn(p) ==
    /\ At(p, "entry check in")
    /\ check_in(req[p].entrant, req[p].id)
    /\ Finish(p)
    /\ UNCHANGED <<cup, invites, stages, brackets, forfeits>>

ProcessNoShows(p) ==
    /\ Allowed("check_in") /\ RequiresCheckIn
    /\ LET absent == {e \in With("approved") : ~entries[e].checked_in} IN
       /\ absent # {}
       /\ Request(p, [pc |-> "entry no show", left |-> absent, ids |-> [e \in absent |-> entries[e].id]])
    /\ UNCHANGED entryTables

WriteNoShow(p) ==
    /\ At(p, "entry no show")
    /\ \E e \in req[p].left :
          /\ update_status(e, req[p].ids[e], "no_show")
          /\ IF req[p].left = {e} \/ entries[e].id # req[p].ids[e] THEN Finish(p)
             ELSE Continue(p, [req[p] EXCEPT !.left = @ \ {e}])
    /\ UNCHANGED <<cup, invites, stages, brackets, forfeits>>

-----------------------------------------------------------------------------
(* Seeding                                                                  *)

\* The checked-in registrations if there are any, otherwise the approved ones.
get_eligible_participants ==
    IF With("checked_in") # {} THEN With("checked_in") ELSE With("approved")

Orders(S) == {f \in [S -> 1 .. Cardinality(S)] : \A x, y \in S : f[x] = f[y] => x = y}

\* Shuffled or by rating: an order of everyone who is eligible.
AutoSeed(p) ==
    /\ Allowed("seed")
    /\ get_eligible_participants # {}
    /\ \E f \in Orders(get_eligible_participants) :
          Request(p, [pc |-> "entry seed", seeds |-> f, left |-> DOMAIN f,
                      ids |-> [e \in DOMAIN f |-> entries[e].id]])
    /\ UNCHANGED entryTables

\* Any list without repeated seeds, of any registrations.
ManualSeed(p) ==
    /\ Allowed("manual seed")
    /\ \E S \in SUBSET {e \in Entrants : HasEntry(e)} : \E f \in Orders(S) :
          /\ S # {}
          /\ Request(p, [pc |-> "entry seed", seeds |-> f, left |-> S,
                         ids |-> [e \in S |-> entries[e].id]])
    /\ UNCHANGED entryTables

WriteSeed(p) ==
    /\ At(p, "entry seed")
    /\ \E e \in req[p].left :
          /\ UpdateEntry(e, req[p].ids[e], [entries[e] EXCEPT !.seed = req[p].seeds[e]])
          /\ IF req[p].left = {e} \/ entries[e].id # req[p].ids[e] THEN Finish(p)
             ELSE Continue(p, [req[p] EXCEPT !.left = @ \ {e}])
    /\ UNCHANGED <<cup, invites, stages, brackets, forfeits>>

ClearSeeding(p) ==
    /\ Allowed("seed")
    /\ entries' = [e \in Entrants |-> [entries[e] EXCEPT !.seed = 0]]
    /\ Request(p, NoRequest)
    /\ UNCHANGED <<cup, invites, stages, brackets, forfeits>>

-----------------------------------------------------------------------------
(* The tournament's own operations                                          *)

\* An update finds the row by id; a deleted tournament has none.
UpdateCup(row) == cup' = IF cup.status = "deleted" THEN cup ELSE row

AskStatus(p, op, to) ==
    /\ Allowed(op)
    /\ to \in valid_transitions(cup.status)
    /\ Request(p, [pc |-> "cup status", to |-> to])
    /\ UNCHANGED entryTables

PublishTournament(p) == AskStatus(p, "organise", "published")
OpenRegistration(p) == cup.status = "published" /\ AskStatus(p, "organise", "registration")
CloseRegistration(p) == AskStatus(p, "close", "scheduled")
ReopenRegistration(p) == cup.status = "scheduled" /\ AskStatus(p, "close", "registration")
CancelTournament(p) == AskStatus(p, "cancel", "cancelled")
CompleteTournament(p) == AskStatus(p, "organise", "completed")
FinalizeTournament(p) == AskStatus(p, "organise", "finalized")

WriteStatus(p) ==
    /\ At(p, "cup status")
    /\ UpdateCup([cup EXCEPT !.status = req[p].to])
    /\ Finish(p)
    /\ UNCHANGED <<entries, invites, stages, brackets, forfeits>>

\* The bounds may change until the start; nobody compares them with the entries.
UpdateTournament(p) ==
    /\ Allowed("update") /\ ~cup.started
    /\ \E m \in MinParticipants .. Cardinality(Entrants) :
          Request(p, [pc |-> "cup update", max |-> m])
    /\ UNCHANGED entryTables

WriteUpdate(p) ==
    /\ At(p, "cup update")
    /\ UpdateCup([cup EXCEPT !.max = req[p].max])
    /\ Finish(p)
    /\ UNCHANGED <<entries, invites, stages, brackets, forfeits>>

count_registrations == Cardinality(Slots(entries))

MoveTournament(p) ==
    /\ Allowed("move")
    /\ count_registrations = 0
    /\ \E l \in Leagues \ {cup.league} : Request(p, [pc |-> "cup move", league |-> l])
    /\ UNCHANGED entryTables

WriteMove(p) ==
    /\ At(p, "cup move")
    /\ UpdateCup([cup EXCEPT !.league = req[p].league])
    /\ Finish(p)
    /\ UNCHANGED <<entries, invites, stages, brackets, forfeits>>

\* archive_tournament and restore_tournament: one statement each.
SetArchived(p) ==
    /\ Allowed("update")
    /\ cup' = [cup EXCEPT !.archived = ~@]
    /\ Request(p, NoRequest)
    /\ UNCHANGED <<entries, invites, stages, brackets, forfeits>>

\* Only a draft is deleted, and the statement says so again.
DeleteTournament(p) ==
    /\ Allowed("organise")
    /\ cup.status = "draft"
    /\ Request(p, [pc |-> "cup delete"])
    /\ UNCHANGED entryTables

WriteDelete(p) ==
    /\ At(p, "cup delete")
    /\ cup' = IF cup.status = "draft" THEN [cup EXCEPT !.status = "deleted"] ELSE cup
    /\ Finish(p)
    /\ UNCHANGED <<entries, invites, stages, brackets, forfeits>>

CreateStage(p) ==
    /\ Allowed("update") /\ ~cup.started /\ stages = <<>>
    /\ Request(p, [pc |-> "cup stage"])
    /\ UNCHANGED entryTables

WriteStage(p) ==
    /\ At(p, "cup stage")
    /\ stages' = Append(stages, "pending")
    /\ Finish(p)
    /\ UNCHANGED <<cup, entries, invites, brackets, forfeits>>

-----------------------------------------------------------------------------
(* The start                                                                *)

\* The participants are read, and counted, before the start is claimed.
StartTournament(p) ==
    /\ Allowed("start")
    /\ cup.status \in {"scheduled", "registration"}
    /\ LET field == IF RequiresCheckIn THEN list_checked_in ELSE list_seeded IN
       /\ Cardinality(field) >= MinParticipants
       /\ Request(p, [pc |-> "start claim", field |-> field, build |-> requests + 1])
    /\ UNCHANGED entryTables

\* Mutant: the status is written without a comparison.
ClaimBlindly(p) ==
    /\ At(p, "start claim")
    /\ cup' = [cup EXCEPT !.status = "in_progress", !.started = TRUE]
    /\ Continue(p, [req[p] EXCEPT !.pc = "start guard"])
    /\ UNCHANGED <<entries, invites, stages, brackets, forfeits>>

try_claim_start(p) ==
    /\ At(p, "start claim")
    /\ IF cup.status \in {"scheduled", "registration"}
       THEN /\ cup' = [cup EXCEPT !.status = "in_progress", !.started = TRUE]
            /\ Continue(p, [req[p] EXCEPT !.pc = "start guard"])
       ELSE UNCHANGED cup /\ Finish(p)
    /\ UNCHANGED <<entries, invites, stages, brackets, forfeits>>

\* A bracket set that is there already is not built again.
RecoveryGuard(p) ==
    /\ At(p, "start guard")
    /\ IF brackets # <<>> THEN Finish(p)
       ELSE Continue(p, [req[p] EXCEPT !.pc = "start stage"])
    /\ UNCHANGED entryTables

\* Groups and playoffs add their own stages; the other formats take the first
\* stage, or add one.
StartStage(p) ==
    /\ At(p, "start stage")
    /\ stages' = IF stages = <<>> /\ scenario.format # "groups_and_playoffs" THEN <<"pending">> ELSE stages
    /\ Continue(p, [pc |-> scenario.format, field |-> req[p].field, build |-> req[p].build, stage |-> 1])
    /\ UNCHANGED <<cup, entries, invites, brackets, forfeits>>

\* The rows are created first, the matches later.
CreateBrackets(p, names, field, left) ==
    /\ brackets' = brackets \o [i \in DOMAIN names |-> [build |-> req[p].build, name |-> names[i], seated |-> {}]]
    /\ Continue(p, [pc |-> "start seat", field |-> field, build |-> req[p].build, first |-> names[1],
                    left |-> left, stage |-> req[p].stage])
    /\ UNCHANGED <<cup, entries, invites, stages, forfeits>>

StartSingleElimination(p) ==
    At(p, "single_elimination") /\ CreateBrackets(p, <<"main">>, req[p].field, <<>>)
StartDoubleElimination(p) ==
    At(p, "double_elimination") /\ CreateBrackets(p, <<"winners", "losers", "grand">>, req[p].field, <<>>)
StartRoundRobin(p) == At(p, "round_robin") /\ CreateBrackets(p, <<"round robin">>, req[p].field, <<>>)
StartSwiss(p) == At(p, "swiss") /\ CreateBrackets(p, <<"swiss">>, req[p].field, <<>>)

\* group_count defaults to a quarter of the field, and at least two.
group_count(field) == IF Cardinality(field) \div 4 > 2 THEN Cardinality(field) \div 4 ELSE 2

\* distribute_into_groups: the snake draft deals the field into groups whose
\* sizes differ by at most one; which seeds meet is not distinguished.
distribute_into_groups(field) ==
    LET n == group_count(field) IN
    {g \in [1 .. n -> SUBSET field] :
        /\ UNION {g[i] : i \in 1 .. n} = field
        /\ \A i, j \in 1 .. n : i # j => g[i] \cap g[j] = {}
        /\ \A i, j \in 1 .. n : Cardinality(g[i]) <= Cardinality(g[j]) + 1}

\* What the settings ask for can be had of this field: two members a group, and
\* no more of them to advance than the smallest group has (from_format_settings;
\* a setting it cannot read is refused like advance = 0).
groups_fit(field) ==
    LET min_per_group == Cardinality(field) \div group_count(field) IN
    min_per_group >= 2 /\ scenario.advance \in 1 .. min_per_group

\* Refuses - the start is claimed already - groups that do not fit; otherwise
\* adds the group stage and the playoff stage.
StartGroupsAndPlayoffs(p) ==
    /\ At(p, "groups_and_playoffs")
    /\ IF ~groups_fit(req[p].field)
       THEN Finish(p) /\ UNCHANGED stages
       ELSE /\ stages' = stages \o <<"pending", "pending">>
            /\ \E g \in distribute_into_groups(req[p].field) :
                  Continue(p, [pc |-> "start group", build |-> req[p].build, left |-> g, stage |-> Len(stages) + 1])
    /\ UNCHANGED <<cup, entries, invites, brackets, forfeits>>

\* One group after the other: its bracket, its matches, its standings.
StartGroup(p) ==
    /\ At(p, "start group")
    /\ CreateBrackets(p, <<Len(req[p].left)>>, Head(req[p].left), Tail(req[p].left))

\* bulk_create, the initial assignments, the links and the ready marks.
SeatField(p) ==
    /\ At(p, "start seat")
    /\ brackets' = [i \in DOMAIN brackets |->
                       IF brackets[i].build = req[p].build /\ brackets[i].name = req[p].first
                       THEN [brackets[i] EXCEPT !.seated = req[p].field] ELSE brackets[i]]
    /\ IF req[p].left = <<>> THEN Continue(p, [pc |-> "start active", stage |-> req[p].stage])
       ELSE Continue(p, [pc |-> "start group", build |-> req[p].build, left |-> req[p].left, stage |-> req[p].stage])
    /\ UNCHANGED <<cup, entries, invites, stages, forfeits>>

ActivateStage(p) ==
    /\ At(p, "start active")
    /\ stages' = [stages EXCEPT ![req[p].stage] = "active"]
    /\ Continue(p, [pc |-> "start mark"])
    /\ UNCHANGED <<cup, entries, invites, brackets, forfeits>>

\* mark_started: blind.
MarkStarted(p) ==
    /\ At(p, "start mark")
    /\ cup' = [cup EXCEPT !.status = "in_progress", !.started = TRUE]
    /\ Finish(p)
    /\ UNCHANGED <<entries, invites, stages, brackets, forfeits>>

-----------------------------------------------------------------------------
EntryDie(p) == scenario.of = "entry" /\ Die(p) /\ UNCHANGED entryTables

EntryRequest(p) ==
    \/ InviteToTournament(p) \/ RevokeInvitation(p) \/ Register(p)
    \/ ApproveRegistration(p) \/ RejectRegistration(p) \/ Disqualify(p)
    \/ WithdrawFromTournament(p) \/ DisqualifyAndForfeit(p)
    \/ CheckIn(p) \/ AdminCheckIn(p) \/ ProcessNoShows(p)
    \/ AutoSeed(p) \/ ManualSeed(p) \/ ClearSeeding(p)
    \/ PublishTournament(p) \/ OpenRegistration(p) \/ CloseRegistration(p) \/ ReopenRegistration(p)
    \/ CancelTournament(p) \/ CompleteTournament(p) \/ FinalizeTournament(p)
    \/ UpdateTournament(p) \/ MoveTournament(p) \/ SetArchived(p) \/ CreateStage(p)
    \/ DeleteTournament(p)
    \/ StartTournament(p)

EntryStep(p) ==
    /\ scenario.of = "entry" /\ req[p] # NoRequest
    /\ \/ ConsumeInvitation(p) \/ InsertEntry(p) \/ WriteApproved(p) \/ WriteRejected(p)
       \/ WriteDisqualified(p) \/ WriteLeft(p) \/ ForfeitMatches(p)
       \/ WriteAdmitted(p) \/ WriteCheckedIn(p) \/ WriteNoShow(p) \/ WriteSeed(p)
       \/ WriteStatus(p) \/ WriteUpdate(p) \/ WriteMove(p) \/ WriteStage(p) \/ WriteDelete(p)
       \/ try_claim_start(p) \/ RecoveryGuard(p) \/ StartStage(p)
       \/ StartSingleElimination(p) \/ StartDoubleElimination(p) \/ StartRoundRobin(p)
       \/ StartSwiss(p) \/ StartGroupsAndPlayoffs(p) \/ StartGroup(p)
       \/ SeatField(p) \/ ActivateStage(p) \/ MarkStarted(p)

EntryNext == \E p \in Users : EntryRequest(p) \/ EntryStep(p) \/ EntryDie(p)

entryVars == <<requestVars, entryTables>>
EntryFairness == WF_entryVars(\E p \in Users : EntryStep(p))
EntrySpec == RequestsInit /\ EntryInit /\ [][EntryNext]_entryVars
EntryFairSpec == EntrySpec /\ EntryFairness

-----------------------------------------------------------------------------
\* The rows of tournaments, tournament_registrations and tournament_invitations.
TournamentRow ==
    [status : TournamentStatus \cup {"deleted"}, started : BOOLEAN, archived : BOOLEAN,
     league : Leagues, max : 0 .. Cardinality(Entrants)]
TournamentRegistrationRow ==
    {r \in [id : Nat, status : TournamentRegistrationStatus, checked_in : BOOLEAN,
            seed : 0 .. Cardinality(Entrants), league : Leagues] :
        r.status = "checked_in" => r.checked_in}
TournamentInvitationRow == [id : Nat, status : {"none", "pending", "accepted", "revoked"}]

\* The tables hold what their columns allow, and a bracket only seats entrants.
EntryTypeOK ==
    /\ cup \in TournamentRow
    /\ \A e \in Entrants : entries[e] = NoEntry \/ entries[e] \in TournamentRegistrationRow
    /\ invites \in [Entrants -> TournamentInvitationRow]
    /\ \A i \in DOMAIN brackets : brackets[i].seated \subseteq {e \in Entrants : HasEntry(e)}
    /\ \A i \in DOMAIN stages : stages[i] \in {"pending", "active"}

\* No operation takes a place beyond max_participants: registrations and approvals
\* racing each other and withdrawals never do (services/tournament/service.rs,
\* create_with_capacity_check), nor does anything when requests do not overlap.
\* Lowering the maximum leaves the entries as they are.
CapacityHolds ==
    Cardinality(Slots(entries')) > Cardinality(Slots(entries))
          => Cardinality(Slots(entries')) <= cup.max

Seated == UNION {brackets[i].seated : i \in DOMAIN brackets}
TooSmall == scenario.format = "groups_and_playoffs" /\ ~groups_fit(list_seeded)
UnderWay == Seated # {} /\ \E i \in DOMAIN stages : stages[i] = "active"

\* At most one start builds brackets ("must NOT build a second bracket set",
\* start_tournament), however often it is called, retried or interrupted.  (The
\* claim compares the status, and opening and closing the registration write it
\* back blindly: one of those that read the tournament before a start claimed it
\* lets a second start through, so this is without them, or about requests that
\* do not overlap.)
OneBracketSet ==
    (scenario.of = "entry" /\ (scenario.serial \/ scenario.ops \cap {"organise", "close"} = {})) =>
        \A i, j \in DOMAIN brackets : brackets[i].build = brackets[j].build

\* Who withdrew and sits in a bracket has forfeited: no opponent waits for a
\* participant who left (withdraw_from_tournament), when requests do not overlap
\* and none is interrupted.
WithdrawnIsForfeited ==
    (scenario.of = "entry" /\ scenario.serial /\ crashes = 0 /\ Quiescent) =>
        \A e \in Entrants, i \in DOMAIN brackets :
            (entries[e].status = "withdrawn" /\ e \in brackets[i].seated) => e \in forfeits

\* Every entrant was admitted for the league the tournament is filed under: moving
\* strands nobody (move_tournament), when requests do not overlap.
NobodyStranded ==
    (scenario.of = "entry" /\ scenario.serial) => \A e \in Slots(entries) : entries[e].league = cup.league

\* Automatic seeding gives no two participants the same seed, whatever entries come
\* and go between two runs of it, where nobody checks in and no list is applied by
\* hand, when requests do not overlap and none is interrupted (auto_seed).
SeedsDistinct ==
    (/\ scenario.of = "entry" /\ scenario.serial /\ crashes = 0 /\ Quiescent
     /\ scenario.ops \cap {"check_in", "manual seed"} = {}) =>
        \A x, y \in list_seeded : (x # y /\ entries[x].seed = entries[y].seed) => entries[x].seed = 0

\* A start that was claimed ends with everybody who was read as a participant seated
\* and the first stage active, unless it was interrupted or the field does not make
\* the groups its settings ask for (start_tournament).
StartBuilds ==
    (scenario.of = "entry" /\ cup.status = "in_progress" /\ crashes = 0 /\ ~TooSmall) ~>
        (crashes > 0 \/ UnderWay)

\* Who is entered, who is drawn and who has left agree, from the first
\* registration to the bracket.
EntryIsSound == EntryTypeOK /\ OneBracketSet /\ WithdrawnIsForfeited /\ NobodyStranded /\ SeedsDistinct

=============================================================================
