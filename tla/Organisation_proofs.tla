-------------------------- MODULE Organisation_proofs --------------------------
(***************************************************************************)
(* What is proved of the entry to a tournament: who is entered, who is     *)
(* drawn and who has left agree.                                           *)
(***************************************************************************)
EXTENDS TournamentEntry, FiniteSetTheorems, SequenceTheorems, TLAPS

-----------------------------------------------------------------------------
(* The inductive invariant.                                                 *)

Entered == {e \in Entrants : HasEntry(e)}
Seeds == 0 .. Cardinality(Entrants)
BracketNames == {"main", "winners", "losers", "grand", "round robin", "swiss"} \cup Nat
BracketRow == [build : Nat, name : BracketNames, seated : SUBSET Entrants]

\* The steps of one request that name one registration.
OneEntry == {"entry approve", "entry reject", "entry disqualify", "entry withdraw",
             "entry expel", "entry check in", "entry admit"}
\* The steps of a start: before the claim, and after it.
Claimed == {"start guard", "start stage"} \cup TournamentFormat
Building == {"start group", "start seat"}

GroupsLeft(left) ==
    left \in Seq(SUBSET Entrants) /\ \A i \in DOMAIN left : left[i] \subseteq Entered

\* What a request remembers is of the right kind.
EntryJob(r) ==
    /\ r.pc = "entry insert" =>
           r.entrant \in Entrants /\ r.league \in Leagues /\ r.invite \in Nat /\ r.replace \in Nat
    /\ r.pc \in {"entry accept", "entry matches"} => r.entrant \in Entrants
    /\ r.pc \in OneEntry =>
           /\ r \in [pc : {r.pc}, entrant : {r.entrant}, id : {r.id}]
           /\ r.entrant \in Entered
    /\ r.pc = "entry no show" =>
           /\ r \in [pc : {r.pc}, left : {r.left}, ids : {r.ids}]
           /\ r.left \subseteq Entered
    /\ r.pc = "entry seed" =>
           /\ r \in [pc : {r.pc}, seeds : {r.seeds}, left : {r.left}, ids : {r.ids}]
           /\ r.left \subseteq Entered
           /\ \A e \in r.left : r.seeds[e] \in Seeds
    /\ r.pc = "cup status" => r.to \in TournamentStatus
    /\ r.pc = "cup update" => r.max \in Seeds
    /\ r.pc = "cup move" => r.league \in Leagues
    /\ r.pc \in {"start claim"} \cup Claimed =>
           r.field \subseteq Entered /\ r.build \in Nat
    /\ r.pc \in {"start claim", "start guard", "start stage"} =>
           r \in [pc : {r.pc}, field : {r.field}, build : {r.build}]
    /\ r.pc = "start group" => r.build \in Nat /\ GroupsLeft(r.left) /\ r.left # <<>>
    /\ r.pc = "start seat" =>
           r.build \in Nat /\ GroupsLeft(r.left) /\ r.field \subseteq Entered

EntryTables ==
    /\ EntryTypeOK
    /\ DOMAIN entries = Entrants
    /\ brackets \in Seq(BracketRow)
    /\ stages \in Seq({"pending", "active"})

EntryTypes ==
    /\ RequestsTypeOK
    /\ EntryTables
    /\ \A p \in Tasks : EntryJob(req[p])

-----------------------------------------------------------------------------
(* The inductive invariant: the start.                                      *)

Holding(r) == r.pc \in Claimed \cup Building
\* What a tournament that was claimed may become.
Late == {"in_progress", "completed", "finalized", "cancelled"}
Guarded ==
    scenario.of = "entry" /\ (scenario.serial \/ scenario.ops \cap {"organise", "close"} = {})

\* A request that holds the start is the only one, and nothing takes the claim back.
StartJob(r) ==
    /\ Holding(r) => cup.status \in Late
    /\ r.pc \in Claimed => brackets = <<>>
    /\ r.pc \in Building => \A i \in DOMAIN brackets : brackets[i].build = r.build
    /\ r.pc = "cup status" => r.to \in Late \/ (scenario.serial /\ cup.status \notin Late)

OneAtATime ==
    scenario.serial => \A p, q \in Tasks : p # q => req[p] = NoRequest \/ req[q] = NoRequest

StartIsClaimed ==
    Guarded =>
        /\ brackets # <<>> => cup.status \in Late
        /\ \A i, j \in DOMAIN brackets : brackets[i].build = brackets[j].build
        /\ \A p \in Tasks : StartJob(req[p])
        /\ \A p, q \in Tasks : Holding(req[p]) /\ Holding(req[q]) => p = q

-----------------------------------------------------------------------------
(* ... the entries, when requests do not overlap.                           *)

Alone == scenario.of = "entry" /\ scenario.serial

\* What a request read is still true when it writes.
FreshJob(r) ==
    /\ r.pc = "entry insert" => r.league = cup.league /\ cup.status = "registration"
    /\ r.pc = "cup move" => Slots(entries) = {}
    /\ r.pc \in {"entry approve", "entry admit", "entry reject"} => r.entrant \in With("pending")
    /\ r.pc = "entry no show" => r.left \subseteq With("approved")
    /\ r.pc \in {"start claim", "start seat"} \cup Claimed => r.field \subseteq list_seeded
    /\ r.pc \in Building => \A i \in DOMAIN r.left : r.left[i] \subseteq list_seeded

Leaving(e) == \E p \in Tasks : req[p].pc = "entry matches" /\ req[p].entrant = e
LeaguesAgree == \A e \in Slots(entries) : entries[e].league = cup.league
\* Nobody who is seated waits for admission, and who left has forfeited or is about to.
SeatsAgree ==
    \A e \in Entrants, i \in DOMAIN brackets :
        e \in brackets[i].seated =>
            /\ entries[e].status # "pending"
            /\ entries[e].status = "withdrawn" /\ crashes = 0 => e \in forfeits \/ Leaving(e)

EntriesAgree ==
    Alone => LeaguesAgree /\ SeatsAgree /\ \A p \in Tasks : FreshJob(req[p])

-----------------------------------------------------------------------------
(* ... and the seeds, where nobody checks in.                               *)

SeedScope == Alone /\ crashes = 0 /\ scenario.ops \cap {"check_in", "manual seed"} = {}

\* A run of the seeding has written the seeds it does not still owe.
SeedJob(r) ==
    /\ r.pc \notin {"entry check in", "entry admit", "entry no show"}
    /\ r.pc = "entry seed" =>
           /\ r.left \subseteq DOMAIN r.seeds
           /\ DOMAIN r.seeds \subseteq With("checked_in") \cup With("approved")
           /\ With("checked_in") # {} => DOMAIN r.seeds \subseteq With("checked_in")
           /\ \A x, y \in DOMAIN r.seeds : r.seeds[x] = r.seeds[y] => x = y
           /\ \A e \in r.left : r.ids[e] = entries[e].id
           /\ \A e \in DOMAIN r.seeds \ r.left : entries[e].seed = r.seeds[e]
           /\ \A e \in list_seeded \ DOMAIN r.seeds : entries[e].seed = 0

SeedsAgree ==
    SeedScope =>
        /\ \A p \in Tasks : SeedJob(req[p])
        /\ (\A p \in Tasks : req[p].pc # "entry seed") =>
               \A x, y \in list_seeded : (x # y /\ entries[x].seed = entries[y].seed) => entries[x].seed = 0
        /\ With("checked_in") # {} => \A e \in list_seeded \ With("checked_in") : entries[e].seed = 0
        /\ \A e \in With("active") \cup With("pending") : entries[e].seed = 0

\* The whole invariant is EntryTypes /\ Agreement.
Agreement == OneAtATime /\ StartIsClaimed /\ EntriesAgree /\ SeedsAgree

-----------------------------------------------------------------------------
(* Types.                                                                   *)

\* A registration keeps its kind when its status or its seed is written.
LEMMA RowKept ==
    ASSUME NEW row \in TournamentRegistrationRow
    PROVE  /\ \A s \in TournamentRegistrationStatus \ {"checked_in"} :
                  [row EXCEPT !.status = s] \in TournamentRegistrationRow
           /\ [row EXCEPT !.status = "checked_in", !.checked_in = TRUE] \in TournamentRegistrationRow
           /\ \A n \in Seeds : [row EXCEPT !.seed = n] \in TournamentRegistrationRow
BY DEF TournamentRegistrationRow, TournamentRegistrationStatus, Seeds

\* A new registration is one.
LEMMA NewRow ==
    ASSUME NEW n \in Nat, NEW s \in TournamentRegistrationStatus, NEW l \in Leagues
    PROVE  Entry(n, s, l) \in TournamentRegistrationRow
<1>1. Cardinality(Entrants) \in Nat
  BY TournamentEntryAssumption, FS_CardinalityType
<1>2. 0 \in 0 .. Cardinality(Entrants)
  BY <1>1
<1>3. CASE s = "checked_in"
  <2>1. Entry(n, s, l) = [id |-> n, status |-> s, checked_in |-> TRUE, seed |-> 0, league |-> l]
    BY <1>3 DEF Entry
  <2> QED
    BY <2>1, <1>2 DEF TournamentRegistrationRow
<1>4. CASE s # "checked_in"
  <2>1. Entry(n, s, l) = [id |-> n, status |-> s, checked_in |-> FALSE, seed |-> 0, league |-> l]
    BY <1>4 DEF Entry
  <2> QED
    BY <2>1, <1>2, <1>4 DEF TournamentRegistrationRow
<1> QED
  BY <1>3, <1>4

\* Registrations are added and rewritten, never removed.
LEMMA EntriesWritten ==
    ASSUME EntryTables, UNCHANGED <<cup, invites, stages, brackets>>,
           DOMAIN entries' = Entrants,
           \A e \in Entrants : entries'[e] = entries[e] \/ entries'[e] \in TournamentRegistrationRow
    PROVE  EntryTables' /\ Entered \subseteq Entered'
<1>1. \A e \in Entrants : entries'[e] = NoEntry \/ entries'[e] \in TournamentRegistrationRow
  BY DEF EntryTables, EntryTypeOK
<1>2. \A row \in TournamentRegistrationRow : row.status # "none"
  BY DEF TournamentRegistrationRow, TournamentRegistrationStatus
<1>3. \A e \in Entrants : HasEntry(e) => HasEntry(e)'
  BY <1>2 DEF HasEntry
<1>4. \A i \in DOMAIN brackets : brackets[i].seated \subseteq {e \in Entrants : HasEntry(e)'}
  BY <1>3 DEF EntryTables, EntryTypeOK
<1> QED
  BY <1>1, <1>3, <1>4 DEF EntryTables, EntryTypeOK, Entered

\* An update by id touches one row.
LEMMA OneRowWritten ==
    ASSUME EntryTables, UNCHANGED <<cup, invites, stages, brackets>>,
           NEW e \in Entrants, NEW id, NEW row,
           HasEntry(e) => row \in TournamentRegistrationRow,
           HasEntry(e), UpdateEntry(e, id, row)
    PROVE  EntryTables' /\ Entered \subseteq Entered'
<1>1. DOMAIN entries' = Entrants
  BY DEF UpdateEntry, EntryTables
<1>2. \A x \in Entrants : entries'[x] = entries[x] \/ entries'[x] \in TournamentRegistrationRow
  BY DEF UpdateEntry, EntryTables
<1> QED
  BY <1>1, <1>2, EntriesWritten

\* What a row holds.
LEMMA RowOfEntered ==
    ASSUME EntryTables, NEW e \in Entered
    PROVE  e \in Entrants /\ HasEntry(e) /\ entries[e] \in TournamentRegistrationRow
BY DEF EntryTables, EntryTypeOK, Entered, HasEntry, NoEntry

\* A task takes its turn: the others remember what they remembered.
LEMMA EntryTurn ==
    ASSUME EntryTypes, NEW p \in Tasks, NEW r, req' = [req EXCEPT ![p] = r],
           RequestsTypeOK', EntryTables', Entered \subseteq Entered', EntryJob(r)'
    PROVE  EntryTypes'
<1>1. ASSUME NEW q \in Tasks, q # p
      PROVE  EntryJob(req[q])'
  <2>1. PICK j : j = req[q]
    OBVIOUS
  <2>2. req'[q] = j
    BY <1>1, <2>1 DEF EntryTypes, RequestsTypeOK
  <2>3. \A left : GroupsLeft(left) => GroupsLeft(left)'
    BY DEF GroupsLeft
  <2>4. EntryJob(j)
    BY <2>1 DEF EntryTypes
  <2>5. EntryJob(j)'
    <3> HIDE DEF GroupsLeft, Entered
    <3> QED
      BY <2>3, <2>4 DEF EntryJob
  <2> QED
    BY <2>2, <2>5
<1>2. req'[p] = r
  BY DEF EntryTypes, RequestsTypeOK
<1> QED
  BY <1>1, <1>2 DEF EntryTypes

\* The three ways a task moves on keep the bookkeeping.
LEMMA EntryBooks ==
    ASSUME RequestsTypeOK, NEW p \in Tasks, NEW r, Request(p, r) \/ Continue(p, r)
    PROVE  RequestsTypeOK' /\ req' = [req EXCEPT ![p] = r]
BY RequestsAssumption DEF RequestsTypeOK, Request, Continue

\* A task with nothing to do remembers nothing.
LEMMA IdleJob == EntryJob(NoRequest)
BY DEF EntryJob, NoRequest, OneEntry, Claimed, TournamentFormat

\* A step that writes no table.
LEMMA QuietEntryStep ==
    ASSUME EntryTypes, NEW p \in Tasks, NEW r, Request(p, r) \/ Continue(p, r),
           UNCHANGED entryTables, EntryJob(r)
    PROVE  EntryTypes'
<1>1. RequestsTypeOK' /\ req' = [req EXCEPT ![p] = r]
  BY EntryBooks DEF EntryTypes
<1>2. EntryTables' /\ Entered' = Entered
  BY DEF EntryTypes, EntryTables, EntryTypeOK, Entered, HasEntry, entryTables
<1>3. GroupsLeft(r.left)' = GroupsLeft(r.left)
  BY <1>2 DEF GroupsLeft
<1>4. EntryJob(r)'
  <2> HIDE DEF GroupsLeft, Entered
  <2> QED
    BY <1>2, <1>3 DEF EntryJob
<1> QED
  BY <1>1, <1>2, <1>4, EntryTurn

\* A step that writes a table and moves on.
LEMMA WritingEntryStep ==
    ASSUME EntryTypes, NEW p \in Tasks, NEW r, Request(p, r) \/ Continue(p, r),
           EntryTables', Entered \subseteq Entered', EntryJob(r)'
    PROVE  EntryTypes'
<1>1. RequestsTypeOK' /\ req' = [req EXCEPT ![p] = r]
  BY EntryBooks DEF EntryTypes
<1> QED
  BY <1>1, EntryTurn

\* A step that writes the registrations alone and ends the request.
LEMMA LastEntriesStep ==
    ASSUME EntryTypes, NEW p \in Tasks, Finish(p),
           EntryTables', Entered \subseteq Entered'
    PROVE  EntryTypes'
<1>1. EntryJob(NoRequest)'
  BY DEF EntryJob, NoRequest, OneEntry, Claimed, TournamentFormat
<1> QED
  BY <1>1, WritingEntryStep DEF Finish

\* An organiser's or a participant's question about registrations.
LEMMA AskEntryTypes ==
    ASSUME EntryTypes, NEW p \in Tasks, NEW op, NEW who, who \subseteq Entered,
           NEW label \in OneEntry, AskEntry(p, op, who, label)
    PROVE  EntryTypes'
<1>1. PICK e \in who : Request(p, [pc |-> label, entrant |-> e, id |-> entries[e].id])
  BY DEF AskEntry
<1> DEFINE r == [pc |-> label, entrant |-> e, id |-> entries[e].id]
<1>2. EntryJob(r)
  <2>1. r.pc \in OneEntry /\ r \in [pc : {r.pc}, entrant : {r.entrant}, id : {r.id}] /\ r.entrant \in Entered
    OBVIOUS
  <2> HIDE DEF r, Entered
  <2> QED
    BY <2>1 DEF EntryJob, OneEntry, Claimed, TournamentFormat
<1> QED
  BY <1>1, <1>2, QuietEntryStep DEF AskEntry

\* Whoever has a status has a registration.
LEMMA WithIsEntered ==
    ASSUME EntryTypes, NEW s, s # "none"
    PROVE  With(s) \subseteq Entered
BY DEF With, Entered, HasEntry

\* The requests that ask about one registration.
LEMMA AskingTypes ==
    ASSUME EntryTypes, NEW p \in Users,
           \/ ApproveRegistration(p) \/ RejectRegistration(p) \/ Disqualify(p)
           \/ WithdrawFromTournament(p) \/ DisqualifyAndForfeit(p)
           \/ CheckIn(p) \/ AdminCheckIn(p)
    PROVE  EntryTypes'
<1>0. p \in Tasks
  BY DEF Tasks
<1>1. With("pending") \subseteq Entered /\ With("approved") \subseteq Entered
  BY WithIsEntered
<1>2. {e \in Entrants : can_withdraw(entries[e].status)} \subseteq Entered
  BY DEF can_withdraw, Entered, HasEntry
<1>3. /\ {e \in Entrants : HasEntry(e) /\ ~EntryOver(entries[e].status)} \subseteq Entered
      /\ {e \in Entrants : HasEntry(e)} \subseteq Entered
  BY DEF Entered
<1>4. {e \in With("approved") : ~entries[e].checked_in} \subseteq Entered
  BY <1>1
<1>5. {"entry approve", "entry reject", "entry disqualify", "entry withdraw", "entry expel",
       "entry check in", "entry admit"} \subseteq OneEntry
  BY DEF OneEntry
<1> HIDE DEF Entered
<1>6. \A op, who, label : who \subseteq Entered /\ label \in OneEntry /\ AskEntry(p, op, who, label)
          => EntryTypes'
  BY <1>0, AskEntryTypes
<1> QED
  BY <1>1, <1>2, <1>3, <1>4, <1>5, <1>6
     DEF ApproveRegistration, RejectRegistration, Disqualify, WithdrawFromTournament,
         DisqualifyAndForfeit, CheckIn, AdminCheckIn

\* The requests that remember several registrations.
LEMMA ListingTypes ==
    ASSUME EntryTypes, NEW p \in Users, ProcessNoShows(p) \/ AutoSeed(p) \/ ManualSeed(p)
    PROVE  EntryTypes'
<1>0. p \in Tasks
  BY DEF Tasks
<1>1. With("pending") \subseteq Entered /\ With("approved") \subseteq Entered
      /\ With("checked_in") \subseteq Entered
  BY WithIsEntered
<1>2. ASSUME NEW S, S \subseteq Entered, NEW f \in Orders(S), NEW ids,
             Request(p, [pc |-> "entry seed", seeds |-> f, left |-> S, ids |-> ids]),
             UNCHANGED entryTables
      PROVE  EntryTypes'
  <2> DEFINE r == [pc |-> "entry seed", seeds |-> f, left |-> S, ids |-> ids]
  <2>1. IsFiniteSet(Entrants) /\ S \subseteq Entrants
    BY <1>2, TournamentEntryAssumption DEF Entered
  <2>2. IsFiniteSet(S) /\ Cardinality(S) <= Cardinality(Entrants)
    BY <2>1, FS_Subset
  <2>3. Cardinality(S) \in Nat /\ Cardinality(Entrants) \in Nat
    BY <2>1, <2>2, FS_CardinalityType
  <2>4. \A e \in S : f[e] \in Seeds
    BY <2>2, <2>3 DEF Orders, Seeds
  <2>5. /\ r.pc = "entry seed" /\ r \in [pc : {r.pc}, seeds : {r.seeds}, left : {r.left}, ids : {r.ids}]
        /\ r.left \subseteq Entered /\ \A e \in r.left : r.seeds[e] \in Seeds
    BY <1>2, <2>4
  <2>6. Request(p, r)
    BY <1>2
  <2> HIDE DEF r, Entered
  <2>7. EntryJob(r)
    BY <2>5 DEF EntryJob, OneEntry, Claimed, TournamentFormat
  <2> QED
    BY <1>0, <1>2, <2>6, <2>7, QuietEntryStep
<1>3. CASE ProcessNoShows(p)
  <2> DEFINE absent == {e \in With("approved") : ~entries[e].checked_in}
             r == [pc |-> "entry no show", left |-> absent, ids |-> [e \in absent |-> entries[e].id]]
  <2>1. Request(p, r) /\ UNCHANGED entryTables
    BY <1>3 DEF ProcessNoShows
  <2>2. /\ r.pc = "entry no show" /\ r \in [pc : {r.pc}, left : {r.left}, ids : {r.ids}]
        /\ r.left \subseteq Entered
    BY <1>1
  <2> HIDE DEF r, Entered
  <2>3. EntryJob(r)
    BY <2>2 DEF EntryJob, OneEntry, Claimed, TournamentFormat
  <2> QED
    BY <1>0, <2>1, <2>3, QuietEntryStep
<1>4. CASE AutoSeed(p)
  <2>1. PICK f \in Orders(get_eligible_participants) :
           Request(p, [pc |-> "entry seed", seeds |-> f, left |-> DOMAIN f,
                       ids |-> [e \in DOMAIN f |-> entries[e].id]])
    BY <1>4 DEF AutoSeed
  <2>2. DOMAIN f = get_eligible_participants
    BY DEF Orders
  <2>3. get_eligible_participants \subseteq Entered
    BY <1>1 DEF get_eligible_participants
  <2>4. UNCHANGED entryTables
    BY <1>4 DEF AutoSeed
  <2> HIDE DEF Entered
  <2> QED
    BY <2>1, <2>2, <2>3, <2>4, <1>2
<1>5. CASE ManualSeed(p)
  <2>1. PICK S \in SUBSET {e \in Entrants : HasEntry(e)} : \E f \in Orders(S) :
          /\ S # {}
          /\ Request(p, [pc |-> "entry seed", seeds |-> f, left |-> S,
                         ids |-> [e \in S |-> entries[e].id]])
    BY <1>5 DEF ManualSeed
  <2>2. UNCHANGED entryTables /\ S \subseteq Entered
    BY <1>5 DEF ManualSeed, Entered
  <2> HIDE DEF Entered
  <2> QED
    BY <2>1, <2>2, <1>2
<1> QED
  BY <1>3, <1>4, <1>5

\* The writes of one registration.
LEMMA OneEntryTypes ==
    ASSUME EntryTypes, NEW p \in Users,
           \/ WriteApproved(p) \/ WriteRejected(p) \/ WriteDisqualified(p)
           \/ WriteLeft(p) \/ WriteAdmitted(p) \/ WriteCheckedIn(p)
    PROVE  EntryTypes'
<1>0. p \in Tasks /\ EntryJob(req[p]) /\ EntryTables
  BY DEF Tasks, EntryTypes
<1>1. req[p].pc \in OneEntry
  BY DEF WriteApproved, WriteRejected, WriteDisqualified, WriteLeft, WriteAdmitted, WriteCheckedIn,
         At, OneEntry
<1>a. req[p].entrant \in Entered
      /\ req[p] \in [pc : {req[p].pc}, entrant : {req[p].entrant}, id : {req[p].id}]
  BY <1>0, <1>1 DEF EntryJob
<1>b. PICK e \in Entered : req[p].entrant = e
  BY <1>a
<1>c. PICK id : req[p].id = id
  OBVIOUS
<1>2. /\ req[p].entrant = e /\ req[p].id = id
      /\ req[p] \in [pc : {req[p].pc}, entrant : {e}, id : {id}]
  BY <1>a, <1>b, <1>c
<1>3. e \in Entrants /\ HasEntry(e) /\ entries[e] \in TournamentRegistrationRow
  BY <1>0, <1>2, RowOfEntered
<1>4. UNCHANGED <<cup, invites, stages, brackets>>
  BY DEF WriteApproved, WriteRejected, WriteDisqualified, WriteLeft, WriteAdmitted, WriteCheckedIn
<1>5. ASSUME NEW s \in {"approved", "withdrawn", "disqualified"}, update_status(e, id, s)
      PROVE  EntryTables' /\ Entered \subseteq Entered'
  <2>1. [entries[e] EXCEPT !.status = s] \in TournamentRegistrationRow
    BY <1>3, RowKept DEF TournamentRegistrationStatus
  <2> QED
    BY <1>0, <1>3, <1>4, <1>5, <2>1, OneRowWritten DEF update_status
<1>6. CASE WriteApproved(p)
  <2>1. [entries[e] EXCEPT !.status = "approved"] \in TournamentRegistrationRow
    BY <1>3, RowKept DEF TournamentRegistrationStatus
  <2>2. DOMAIN entries' = Entrants /\ (\A x \in Entrants : entries'[x] = entries[x]
             \/ entries'[x] \in TournamentRegistrationRow)
    BY <1>0, <1>2, <1>3, <1>6, <2>1 DEF WriteApproved, update_status_with_capacity_check, EntryTables
  <2>3. EntryTables' /\ Entered \subseteq Entered'
    BY <1>0, <1>4, <2>2, EntriesWritten
  <2> QED
    BY <1>0, <1>6, <2>3, LastEntriesStep DEF WriteApproved
<1>7. CASE WriteRejected(p) \/ WriteDisqualified(p)
  <2>1. EntryTables' /\ Entered \subseteq Entered'
    BY <1>2, <1>5, <1>7 DEF WriteRejected, WriteDisqualified
  <2> QED
    BY <1>0, <1>7, <2>1, LastEntriesStep DEF WriteRejected, WriteDisqualified
<1>8. CASE WriteLeft(p)
  <2>1. EntryTables' /\ Entered \subseteq Entered'
    BY <1>2, <1>5, <1>8 DEF WriteLeft
  <2>2. CASE Finish(p)
    BY <1>0, <2>1, <2>2, LastEntriesStep
  <2>3. CASE Continue(p, [pc |-> "entry matches", entrant |-> e])
    <3>1. EntryJob([pc |-> "entry matches", entrant |-> e])'
      BY <1>3 DEF EntryJob, OneEntry, Claimed, TournamentFormat
    <3> QED
      BY <1>0, <2>1, <2>3, <3>1, WritingEntryStep
  <2> QED
    BY <1>2, <1>8, <2>2, <2>3 DEF WriteLeft
<1>9. CASE WriteAdmitted(p)
  <2>1. EntryTables' /\ Entered \subseteq Entered'
    BY <1>2, <1>5, <1>9 DEF WriteAdmitted
  <2>2. PICK r : r = [req[p] EXCEPT !.pc = "entry check in"]
    OBVIOUS
  <2>5. r \in [pc : {"entry check in"}, entrant : {e}, id : {id}]
    BY <1>2, <2>2
  <2>3. EntryJob(r)'
    <3>1. r.pc = "entry check in" /\ r \in [pc : {r.pc}, entrant : {r.entrant}, id : {r.id}]
          /\ r.entrant \in Entered'
      BY <1>2, <2>1, <2>5
    <3> QED
      BY <3>1 DEF EntryJob, OneEntry, Claimed, TournamentFormat
  <2>4. Continue(p, r)
    BY <1>9, <2>2 DEF WriteAdmitted
  <2> QED
    BY <1>0, <2>1, <2>3, <2>4, WritingEntryStep
<1>10. CASE WriteCheckedIn(p)
  <2>1. (IF entries[e].status = "approved"
         THEN [entries[e] EXCEPT !.status = "checked_in", !.checked_in = TRUE]
         ELSE entries[e]) \in TournamentRegistrationRow
    BY <1>3, RowKept
  <2>2. EntryTables' /\ Entered \subseteq Entered'
    BY <1>0, <1>2, <1>3, <1>4, <1>10, <2>1, OneRowWritten DEF WriteCheckedIn, check_in
  <2> QED
    BY <1>0, <1>10, <2>2, LastEntriesStep DEF WriteCheckedIn
<1> QED
  BY <1>6, <1>7, <1>8, <1>9, <1>10

\* The writes of several registrations, and the insert.
LEMMA ManyEntriesTypes ==
    ASSUME EntryTypes, NEW p \in Users, scenario.of = "entry",
           WriteNoShow(p) \/ WriteSeed(p) \/ ClearSeeding(p) \/ InsertEntry(p)
    PROVE  EntryTypes'
<1>0. p \in Tasks /\ EntryTables
  BY DEF Tasks, EntryTypes
<1>j. PICK j : j = req[p]
  OBVIOUS
<1>k. EntryJob(j)
  BY <1>0, <1>j DEF EntryTypes
<1>1. UNCHANGED <<cup, invites, stages, brackets>>
  BY DEF WriteNoShow, WriteSeed, ClearSeeding, InsertEntry
<1>2. CASE WriteNoShow(p)
  <2>0. j.pc = "entry no show"
    BY <1>2, <1>j DEF WriteNoShow, At
  <2>1. j.left \subseteq Entered /\ j \in [pc : {"entry no show"}, left : {j.left}, ids : {j.ids}]
    BY <1>k, <2>0 DEF EntryJob
  <2>2. PICK e \in j.left :
          /\ update_status(e, j.ids[e], "no_show")
          /\ \/ Finish(p)
             \/ Continue(p, [j EXCEPT !.left = @ \ {e}])
    BY <1>2, <1>j DEF WriteNoShow
  <2>3. e \in Entrants /\ HasEntry(e) /\ entries[e] \in TournamentRegistrationRow
    BY <1>0, <2>1, RowOfEntered
  <2>4. [entries[e] EXCEPT !.status = "no_show"] \in TournamentRegistrationRow
    BY <2>3, RowKept DEF TournamentRegistrationStatus
  <2>5. EntryTables' /\ Entered \subseteq Entered'
    BY <1>0, <1>1, <2>2, <2>3, <2>4, OneRowWritten DEF update_status
  <2>6. PICK r : r = [j EXCEPT !.left = @ \ {e}]
    OBVIOUS
  <2>7. r \in [pc : {"entry no show"}, left : {j.left \ {e}}, ids : {j.ids}]
    BY <2>1, <2>6
  <2>8. EntryJob(r)'
    <3>1. /\ r.pc = "entry no show" /\ r \in [pc : {r.pc}, left : {r.left}, ids : {r.ids}]
          /\ r.left \subseteq Entered'
      BY <2>1, <2>5, <2>7
    <3> QED
      BY <3>1 DEF EntryJob, OneEntry, Claimed, TournamentFormat
  <2>9. CASE Finish(p)
    BY <1>0, <2>5, <2>9, LastEntriesStep
  <2>10. CASE Continue(p, r)
    BY <1>0, <2>5, <2>8, <2>10, WritingEntryStep
  <2> QED
    BY <2>2, <2>6, <2>9, <2>10
<1>3. CASE WriteSeed(p)
  <2>0. j.pc = "entry seed"
    BY <1>3, <1>j DEF WriteSeed, At
  <2>1. /\ j.left \subseteq Entered
        /\ j \in [pc : {"entry seed"}, seeds : {j.seeds}, left : {j.left}, ids : {j.ids}]
        /\ \A e \in j.left : j.seeds[e] \in Seeds
    BY <1>k, <2>0 DEF EntryJob
  <2>2. PICK e \in j.left :
          /\ UpdateEntry(e, j.ids[e], [entries[e] EXCEPT !.seed = j.seeds[e]])
          /\ \/ Finish(p)
             \/ Continue(p, [j EXCEPT !.left = @ \ {e}])
    BY <1>3, <1>j DEF WriteSeed
  <2>3. e \in Entrants /\ HasEntry(e) /\ entries[e] \in TournamentRegistrationRow
    BY <1>0, <2>1, RowOfEntered
  <2>4. [entries[e] EXCEPT !.seed = j.seeds[e]] \in TournamentRegistrationRow
    BY <2>1, <2>3, RowKept
  <2>5. EntryTables' /\ Entered \subseteq Entered'
    BY <1>0, <1>1, <2>2, <2>3, <2>4, OneRowWritten
  <2>6. PICK r : r = [j EXCEPT !.left = @ \ {e}]
    OBVIOUS
  <2>7. r \in [pc : {"entry seed"}, seeds : {j.seeds}, left : {j.left \ {e}}, ids : {j.ids}]
    BY <2>1, <2>6
  <2>8. EntryJob(r)'
    <3>1. /\ r.pc = "entry seed" /\ r \in [pc : {r.pc}, seeds : {r.seeds}, left : {r.left}, ids : {r.ids}]
          /\ r.left \subseteq Entered'
          /\ \A x \in r.left : r.seeds[x] \in Seeds
      BY <2>1, <2>5, <2>7
    <3> QED
      BY <3>1 DEF EntryJob, OneEntry, Claimed, TournamentFormat
  <2>9. CASE Finish(p)
    BY <1>0, <2>5, <2>9, LastEntriesStep
  <2>10. CASE Continue(p, r)
    BY <1>0, <2>5, <2>8, <2>10, WritingEntryStep
  <2> QED
    BY <2>2, <2>6, <2>9, <2>10
<1>4. CASE ClearSeeding(p)
  <2>1. 0 \in Seeds
    BY TournamentEntryAssumption, FS_CardinalityType DEF Seeds
  <2>2. \A e \in Entrants : entries'[e] = [entries[e] EXCEPT !.seed = 0]
    BY <1>4 DEF ClearSeeding
  <2>3. \A e \in Entrants : entries[e] = NoEntry => entries'[e] = NoEntry
    <3>1. [NoEntry EXCEPT !.seed = 0] = NoEntry
      BY DEF NoEntry
    <3> QED
      BY <2>2, <3>1
  <2>4. \A e \in Entrants : entries[e] \in TournamentRegistrationRow => entries'[e] \in TournamentRegistrationRow
    BY <2>1, <2>2, RowKept
  <2>5. DOMAIN entries' = Entrants
    BY <1>4 DEF ClearSeeding
  <2>6. \A e \in Entrants : entries'[e] = entries[e] \/ entries'[e] \in TournamentRegistrationRow
    BY <1>0, <2>3, <2>4 DEF EntryTables, EntryTypeOK
  <2>7. EntryTables' /\ Entered \subseteq Entered'
    BY <1>0, <1>1, <2>5, <2>6, EntriesWritten
  <2>8. EntryJob(NoRequest)'
    BY DEF EntryJob, NoRequest, OneEntry, Claimed, TournamentFormat
  <2> QED
    BY <1>0, <1>4, <2>7, <2>8, WritingEntryStep DEF ClearSeeding
<1>5. CASE InsertEntry(p)
  <2>0. j.pc = "entry insert"
    BY <1>5, <1>j DEF InsertEntry, At
  <2>1. j.entrant \in Entrants /\ j.league \in Leagues /\ j.invite \in Nat
    BY <1>k, <2>0 DEF EntryJob
  <2>2. create_with_capacity_check(j.entrant, j.replace, j.league)
    BY <1>5, <1>j DEF InsertEntry
  <2>3. entries[j.entrant].id \in Nat
    BY <1>0, <2>1 DEF EntryTables, EntryTypeOK, NoEntry, TournamentRegistrationRow
  <2>4. initial_registration_status \in TournamentRegistrationStatus
    BY DEF initial_registration_status, TournamentRegistrationStatus
  <2>5. Entry(entries[j.entrant].id + 1, initial_registration_status, j.league) \in TournamentRegistrationRow
    BY <2>1, <2>3, <2>4, NewRow
  <2>6. DOMAIN entries' = Entrants
        /\ \A e \in Entrants : entries'[e] = entries[e] \/ entries'[e] \in TournamentRegistrationRow
    BY <1>0, <2>1, <2>2, <2>5 DEF create_with_capacity_check, EntryTables
  <2>7. EntryTables' /\ Entered \subseteq Entered'
    BY <1>0, <1>1, <2>6, EntriesWritten
  <2>8. CASE Finish(p)
    BY <1>0, <2>7, <2>8, LastEntriesStep
  <2>9. CASE Continue(p, [pc |-> "entry accept", entrant |-> j.entrant, invite |-> j.invite])
    <3>1. EntryJob([pc |-> "entry accept", entrant |-> j.entrant, invite |-> j.invite])'
      BY <2>1 DEF EntryJob, OneEntry, Claimed, TournamentFormat
    <3> QED
      BY <1>0, <2>7, <2>9, <3>1, WritingEntryStep
  <2> QED
    BY <1>5, <1>j, <2>8, <2>9 DEF InsertEntry
<1> QED
  BY <1>2, <1>3, <1>4, <1>5

\* Registering, invitations and the forfeits.
LEMMA InvitingTypes ==
    ASSUME EntryTypes, NEW p \in Users,
           \/ Register(p) \/ InviteToTournament(p) \/ RevokeInvitation(p)
           \/ ConsumeInvitation(p) \/ ForfeitMatches(p)
    PROVE  EntryTypes'
<1>0. p \in Tasks /\ EntryTables
  BY DEF Tasks, EntryTypes
<1>1. EntryJob(NoRequest)'
  BY DEF EntryJob, NoRequest, OneEntry, Claimed, TournamentFormat
<1>2. ASSUME UNCHANGED <<cup, entries, stages, brackets>>, invites' \in [Entrants -> TournamentInvitationRow]
      PROVE  EntryTables' /\ Entered \subseteq Entered'
  BY <1>0, <1>2 DEF EntryTables, EntryTypeOK, HasEntry, Entered
<1>3. CASE Register(p)
  <2>0. \A e \in Candidates : scenario.of = "entry" => e \in Entrants
    BY TournamentEntryAssumption DEF Candidates, EntryTypes, RequestsTypeOK
  <2>1. PICK e \in Candidates : \E invite \in require_invitation(e) :
                Request(p, [pc |-> "entry insert", entrant |-> e, invite |-> invite,
                            replace |-> entries[e].id, league |-> cup.league])
    BY <1>3 DEF Register
  <2>2. PICK invite \in require_invitation(e) :
                Request(p, [pc |-> "entry insert", entrant |-> e, invite |-> invite,
                            replace |-> entries[e].id, league |-> cup.league])
    BY <2>1
  <2>3. e \in Entrants /\ UNCHANGED entryTables
    BY <1>3, <2>0 DEF Register, Allowed
  <2>4. invite \in Nat
    BY <1>0, <2>3 DEF require_invitation, EntryTables, EntryTypeOK, TournamentInvitationRow
  <2>5. cup.league \in Leagues /\ entries[e].id \in Nat
    BY <1>0, <2>3 DEF EntryTables, EntryTypeOK, NoEntry, TournamentRegistrationRow, TournamentRow
  <2> DEFINE r == [pc |-> "entry insert", entrant |-> e, invite |-> invite,
                            replace |-> entries[e].id, league |-> cup.league]
  <2>6. EntryJob(r)
    <3>1. r.pc = "entry insert" /\ r.entrant \in Entrants /\ r.league \in Leagues /\ r.invite \in Nat
          /\ r.replace \in Nat
      BY <2>3, <2>4, <2>5
    <3> HIDE DEF r
    <3> QED
      BY <3>1 DEF EntryJob, OneEntry, Claimed, TournamentFormat
  <2> QED
    BY <1>0, <2>2, <2>3, <2>6, QuietEntryStep
<1>4. CASE InviteToTournament(p)
  <2>1. invites' \in [Entrants -> TournamentInvitationRow]
    <3>1. PICK e \in Candidates : invites' = [invites EXCEPT ![e] = [id |-> @.id + 1, status |-> "pending"]]
      BY <1>4 DEF InviteToTournament
    <3>2. invites \in [Entrants -> TournamentInvitationRow]
      BY <1>0 DEF EntryTables, EntryTypeOK
    <3>3. CASE e \in Entrants
      <4>1. [id |-> invites[e].id + 1, status |-> "pending"] \in TournamentInvitationRow
        BY <3>2, <3>3 DEF TournamentInvitationRow
      <4> HIDE DEF TournamentInvitationRow
      <4>2. invites' = [invites EXCEPT ![e] = [id |-> invites[e].id + 1, status |-> "pending"]]
        BY <3>1
      <4> QED
        BY <3>2, <4>1, <4>2
    <3>4. CASE e \notin Entrants
      BY <3>1, <3>2, <3>4
    <3> QED
      BY <3>3, <3>4
  <2> QED
    BY <1>0, <1>1, <1>2, <1>4, <2>1, WritingEntryStep DEF InviteToTournament
<1>5. CASE RevokeInvitation(p)
  <2>1. invites' \in [Entrants -> TournamentInvitationRow]
    BY <1>0, <1>5 DEF RevokeInvitation, EntryTables, EntryTypeOK, TournamentInvitationRow
  <2> QED
    BY <1>0, <1>1, <1>2, <1>5, <2>1, WritingEntryStep DEF RevokeInvitation
<1>6. CASE ConsumeInvitation(p)
  <2>1. invites' \in [Entrants -> TournamentInvitationRow]
    BY <1>0, <1>6 DEF ConsumeInvitation, EntryTables, EntryTypeOK, TournamentInvitationRow
  <2> QED
    BY <1>0, <1>1, <1>2, <1>6, <2>1, LastEntriesStep DEF ConsumeInvitation
<1>7. CASE ForfeitMatches(p)
  <2>1. EntryTables' /\ Entered \subseteq Entered'
    BY <1>0, <1>7 DEF ForfeitMatches, EntryTables, EntryTypeOK, HasEntry, Entered
  <2> QED
    BY <1>0, <1>7, <2>1, LastEntriesStep DEF ForfeitMatches
<1> QED
  BY <1>3, <1>4, <1>5, <1>6, <1>7

\* What the row of the tournament may become.
LEMMA CupWritten ==
    ASSUME EntryTables, UNCHANGED <<entries, invites, stages, brackets>>, cup' \in TournamentRow
    PROVE  EntryTables' /\ Entered \subseteq Entered'
BY DEF EntryTables, EntryTypeOK, HasEntry, Entered

\* What the stages may become.
LEMMA StagesWritten ==
    ASSUME EntryTables, UNCHANGED <<cup, entries, invites, brackets>>,
           stages' \in Seq({"pending", "active"})
    PROVE  EntryTables' /\ Entered \subseteq Entered'
<1>1. \A i \in DOMAIN stages' : stages'[i] \in {"pending", "active"}
  <2>1. PICK s : s = stages'
    OBVIOUS
  <2>2. \A i \in DOMAIN s : s[i] \in {"pending", "active"}
    BY <2>1, ElementOfSeq, LenProperties
  <2> QED
    BY <2>1, <2>2
<1> QED
  BY <1>1 DEF EntryTables, EntryTypeOK, HasEntry, Entered

\* What the brackets may become.
LEMMA BracketsWritten ==
    ASSUME EntryTables, UNCHANGED <<cup, entries, invites, stages>>,
           brackets' \in Seq(BracketRow),
           \A i \in DOMAIN brackets' : brackets'[i].seated \subseteq Entered
    PROVE  EntryTables' /\ Entered \subseteq Entered'
BY DEF EntryTables, EntryTypeOK, HasEntry, Entered

\* The questions that are about the tournament's own row.
LEMMA AskingCupTypes ==
    ASSUME EntryTypes, NEW p \in Users,
           \/ PublishTournament(p) \/ OpenRegistration(p) \/ CloseRegistration(p)
           \/ ReopenRegistration(p) \/ CancelTournament(p) \/ CompleteTournament(p)
           \/ FinalizeTournament(p) \/ UpdateTournament(p) \/ MoveTournament(p)
           \/ CreateStage(p) \/ DeleteTournament(p) \/ StartTournament(p)
    PROVE  EntryTypes'
<1>0. p \in Tasks /\ EntryTables
  BY DEF Tasks, EntryTypes
<1>1. ASSUME NEW op, NEW to, AskStatus(p, op, to)
      PROVE  EntryTypes'
  <2>1. to \in TournamentStatus
    BY <1>1 DEF AskStatus, valid_transitions
  <2>2. EntryJob([pc |-> "cup status", to |-> to])
    BY <2>1 DEF EntryJob, OneEntry, Claimed, TournamentFormat
  <2> QED
    BY <1>0, <1>1, <2>2, QuietEntryStep DEF AskStatus
<1>2. CASE \/ PublishTournament(p) \/ OpenRegistration(p) \/ CloseRegistration(p)
           \/ ReopenRegistration(p) \/ CancelTournament(p) \/ CompleteTournament(p)
           \/ FinalizeTournament(p)
  BY <1>1, <1>2 DEF PublishTournament, OpenRegistration, CloseRegistration, ReopenRegistration,
        CancelTournament, CompleteTournament, FinalizeTournament
<1>3. CASE UpdateTournament(p)
  <2>1. PICK m \in MinParticipants .. Cardinality(Entrants) : Request(p, [pc |-> "cup update", max |-> m])
    BY <1>3 DEF UpdateTournament
  <2>2. m \in Seeds
    BY TournamentEntryAssumption, FS_CardinalityType DEF Seeds
  <2>3. EntryJob([pc |-> "cup update", max |-> m])
    BY <2>2 DEF EntryJob, OneEntry, Claimed, TournamentFormat
  <2> QED
    BY <1>0, <1>3, <2>1, <2>3, QuietEntryStep DEF UpdateTournament
<1>4. CASE MoveTournament(p)
  <2>1. PICK l \in Leagues : Request(p, [pc |-> "cup move", league |-> l])
    BY <1>4 DEF MoveTournament
  <2>2. EntryJob([pc |-> "cup move", league |-> l])
    BY DEF EntryJob, OneEntry, Claimed, TournamentFormat
  <2> QED
    BY <1>0, <1>4, <2>1, <2>2, QuietEntryStep DEF MoveTournament
<1>5. CASE CreateStage(p) \/ DeleteTournament(p)
  <2>1. EntryJob([pc |-> "cup stage"]) /\ EntryJob([pc |-> "cup delete"])
    BY DEF EntryJob, OneEntry, Claimed, TournamentFormat
  <2> QED
    BY <1>0, <1>5, <2>1, QuietEntryStep DEF CreateStage, DeleteTournament
<1>6. CASE StartTournament(p)
  <2> DEFINE field == IF RequiresCheckIn THEN list_checked_in ELSE list_seeded
             r == [pc |-> "start claim", field |-> field, build |-> requests + 1]
  <2>1. Request(p, r) /\ UNCHANGED entryTables
    BY <1>6 DEF StartTournament
  <2>2. field \subseteq Entered
    BY DEF list_checked_in, list_seeded, Entered, HasEntry
  <2>3. requests + 1 \in Nat
    BY RequestsAssumption DEF EntryTypes, RequestsTypeOK
  <2> HIDE DEF field, Entered
  <2>4. /\ r.pc = "start claim" /\ r \in [pc : {r.pc}, field : {r.field}, build : {r.build}]
        /\ r.field \subseteq Entered /\ r.build \in Nat
    BY <2>2, <2>3
  <2> HIDE DEF r
  <2>5. EntryJob(r)
    BY <2>4 DEF EntryJob, OneEntry, Claimed, TournamentFormat
  <2> QED
    BY <1>0, <2>1, <2>5, QuietEntryStep
<1> QED
  BY <1>2, <1>3, <1>4, <1>5, <1>6

\* The writes of the tournament's own row.
LEMMA CupTypes ==
    ASSUME EntryTypes, NEW p \in Users,
           \/ WriteStatus(p) \/ WriteUpdate(p) \/ WriteMove(p) \/ SetArchived(p)
           \/ WriteDelete(p) \/ WriteStage(p) \/ MarkStarted(p)
    PROVE  EntryTypes'
<1>0. p \in Tasks /\ EntryTables /\ cup \in TournamentRow /\ EntryJob(req[p])
  BY DEF Tasks, EntryTypes, EntryTables, EntryTypeOK
<1>1. EntryJob(NoRequest)'
  BY DEF EntryJob, NoRequest, OneEntry, Claimed, TournamentFormat
<1>2. CASE WriteStage(p)
  <2>1. stages' \in Seq({"pending", "active"})
    BY <1>0, <1>2, AppendProperties DEF WriteStage, EntryTables
  <2>2. EntryTables' /\ Entered \subseteq Entered'
    BY <1>0, <1>2, <2>1, StagesWritten DEF WriteStage
  <2> QED
    BY <1>0, <1>2, <2>2, LastEntriesStep DEF WriteStage
<1>3. CASE SetArchived(p)
  <2>1. cup' \in TournamentRow
    BY <1>0, <1>3 DEF SetArchived, TournamentRow
  <2> QED
    BY <1>0, <1>1, <1>3, <2>1, CupWritten, WritingEntryStep DEF SetArchived
<1>4. CASE WriteStatus(p) \/ WriteUpdate(p) \/ WriteMove(p) \/ WriteDelete(p) \/ MarkStarted(p)
  <2>1. WriteStatus(p) => req[p].to \in TournamentStatus
    BY <1>0 DEF WriteStatus, At, EntryJob
  <2>2. WriteUpdate(p) => req[p].max \in 0 .. Cardinality(Entrants)
    BY <1>0 DEF WriteUpdate, At, EntryJob, Seeds
  <2>3. WriteMove(p) => req[p].league \in Leagues
    BY <1>0 DEF WriteMove, At, EntryJob
  <2>4. cup' \in TournamentRow
    BY <1>0, <1>4, <2>1, <2>2, <2>3
       DEF WriteStatus, WriteUpdate, WriteMove, WriteDelete, MarkStarted, UpdateCup, TournamentRow, TournamentStatus
  <2>5. UNCHANGED <<entries, invites, stages, brackets>> /\ Finish(p)
    BY <1>4 DEF WriteStatus, WriteUpdate, WriteMove, WriteDelete, MarkStarted
  <2>6. EntryTables' /\ Entered \subseteq Entered'
    BY <1>0, <2>4, <2>5, CupWritten
  <2> QED
    BY <1>0, <2>5, <2>6, LastEntriesStep
<1> QED
  BY <1>2, <1>3, <1>4

\* The rows a start adds: they carry its number, and nobody sits in them yet.
LEMMA RowsAdded ==
    ASSUME EntryTables, NEW names, names \in Seq(BracketNames), NEW build \in Nat,
           brackets' = brackets \o [i \in DOMAIN names |->
                           [build |-> build, name |-> names[i], seated |-> {}]]
    PROVE  /\ brackets' \in Seq(BracketRow)
           /\ \A i \in DOMAIN brackets' :
                  \/ i \in DOMAIN brackets /\ brackets'[i] = brackets[i]
                  \/ brackets'[i].build = build /\ brackets'[i].seated = {}
<1> DEFINE row(i) == [build |-> build, name |-> names[i], seated |-> {}]
           new == [i \in DOMAIN names |-> row(i)]
<1>1. DOMAIN names = 1 .. Len(names) /\ Len(names) \in Nat
  BY LenProperties
<1>2. \A i \in DOMAIN names : names[i] \in BracketNames
  BY <1>1, ElementOfSeq
<1>3. \A i \in DOMAIN names : row(i) \in BracketRow
  BY <1>2 DEF BracketRow
<1>4. \A i \in DOMAIN names : row(i).build = build /\ row(i).seated = {}
  OBVIOUS
<1> HIDE DEF row
<1>5. new \in Seq(BracketRow)
  BY <1>1, <1>3, IsASeq
<1>6. \A i \in DOMAIN new : new[i].build = build /\ new[i].seated = {}
  BY <1>4
<1>7. brackets' = brackets \o new /\ brackets \in Seq(BracketRow)
  BY DEF EntryTables, row
<1> HIDE DEF new
<1>8. /\ brackets \o new \in Seq(BracketRow)
      /\ Len(brackets \o new) = Len(brackets) + Len(new)
      /\ \A i \in 1 .. Len(brackets) + Len(new) :
             (brackets \o new)[i] = IF i <= Len(brackets) THEN brackets[i] ELSE new[i - Len(brackets)]
  BY <1>5, <1>7, ConcatProperties
<1>9. /\ DOMAIN brackets = 1 .. Len(brackets) /\ Len(brackets) \in Nat
      /\ DOMAIN new = 1 .. Len(new) /\ Len(new) \in Nat
      /\ DOMAIN (brackets \o new) = 1 .. Len(brackets \o new)
  BY <1>5, <1>7, <1>8, LenProperties
<1>10. ASSUME NEW i \in DOMAIN brackets'
       PROVE  \/ i \in DOMAIN brackets /\ brackets'[i] = brackets[i]
              \/ brackets'[i].build = build /\ brackets'[i].seated = {}
  <2>1. i \in 1 .. Len(brackets) + Len(new)
    BY <1>7, <1>8, <1>9, <1>10
  <2>2. CASE i <= Len(brackets)
    BY <1>7, <1>8, <1>9, <2>1, <2>2
  <2>3. CASE ~(i <= Len(brackets))
    <3>1. i - Len(brackets) \in DOMAIN new
      <4>1. DOMAIN new = 1 .. Len(new) /\ Len(new) \in Nat /\ Len(brackets) \in Nat
        BY <1>9
      <4> QED
        BY <2>1, <2>3, <4>1
    <3>2. (brackets \o new)[i] = new[i - Len(brackets)]
      BY <1>8, <2>1, <2>3
    <3>3. brackets'[i] = new[i - Len(brackets)]
      BY <1>7, <3>2
    <3> QED
      BY <1>6, <3>1, <3>3
  <2> QED
    BY <2>2, <2>3
<1> QED
  BY <1>7, <1>8, <1>10

\* The steps of a start.
LEMMA StartTypes ==
    ASSUME EntryTypes, NEW p \in Users, scenario.of = "entry",
           \/ try_claim_start(p) \/ RecoveryGuard(p) \/ StartStage(p)
           \/ StartGroupsAndPlayoffs(p) \/ ActivateStage(p)
    PROVE  EntryTypes'
<1>0. p \in Tasks /\ EntryTables /\ cup \in TournamentRow
  BY DEF Tasks, EntryTypes, EntryTables, EntryTypeOK
<1>j. PICK j : j = req[p]
  OBVIOUS
<1>k. EntryJob(j)
  BY <1>0, <1>j DEF EntryTypes
<1>f. scenario.format \in TournamentFormat
  BY TournamentEntryAssumption DEF EntryTypes, RequestsTypeOK
<1>1. ASSUME NEW r, r \in [pc : {r.pc}, field : {j.field}, build : {j.build}],
             j.field \subseteq Entered, j.build \in Nat, Entered \subseteq Entered',
             r.pc \in {"start guard", "start stage"}
      PROVE  EntryJob(r)'
  <2>1. /\ r \in [pc : {r.pc}, field : {r.field}, build : {r.build}]
        /\ r.field \subseteq Entered' /\ r.build \in Nat
    BY <1>1
  <2> QED
    BY <1>1, <2>1 DEF EntryJob, OneEntry, Claimed, TournamentFormat
<1>2. CASE try_claim_start(p)
  <2>1. /\ j \in [pc : {"start claim"}, field : {j.field}, build : {j.build}]
        /\ j.field \subseteq Entered /\ j.build \in Nat
    BY <1>2, <1>j, <1>k DEF try_claim_start, At, EntryJob
  <2>2. cup' \in TournamentRow
    BY <1>0, <1>2 DEF try_claim_start, TournamentRow, TournamentStatus
  <2>3. EntryTables' /\ Entered \subseteq Entered'
    BY <1>0, <1>2, <2>2, CupWritten DEF try_claim_start
  <2>4. PICK r : r = [j EXCEPT !.pc = "start guard"]
    OBVIOUS
  <2>5. r \in [pc : {"start guard"}, field : {j.field}, build : {j.build}]
    BY <2>1, <2>4
  <2>6. EntryJob(r)'
    BY <1>1, <2>1, <2>3, <2>5
  <2>7. CASE Finish(p)
    BY <1>0, <2>3, <2>7, LastEntriesStep
  <2>8. CASE Continue(p, r)
    BY <1>0, <2>3, <2>6, <2>8, WritingEntryStep
  <2> QED
    BY <1>2, <1>j, <2>4, <2>7, <2>8 DEF try_claim_start
<1>3. CASE RecoveryGuard(p)
  <2>1. /\ j \in [pc : {"start guard"}, field : {j.field}, build : {j.build}]
        /\ j.field \subseteq Entered /\ j.build \in Nat
    BY <1>3, <1>j, <1>k DEF RecoveryGuard, At, EntryJob, Claimed
  <2>3. UNCHANGED entryTables
    BY <1>3 DEF RecoveryGuard
  <2>4. PICK r : r = [j EXCEPT !.pc = "start stage"]
    OBVIOUS
  <2>5. r \in [pc : {"start stage"}, field : {j.field}, build : {j.build}]
    BY <2>1, <2>4
  <2>6. EntryJob(r)
    <3>1. /\ r.pc = "start stage" /\ r \in [pc : {r.pc}, field : {r.field}, build : {r.build}]
          /\ r.field \subseteq Entered /\ r.build \in Nat
      BY <2>1, <2>5
    <3> QED
      BY <3>1 DEF EntryJob, OneEntry, Claimed, TournamentFormat
  <2>7. CASE Finish(p)
    BY <1>0, <2>3, <2>7, IdleJob, QuietEntryStep DEF Finish
  <2>8. CASE Continue(p, r)
    BY <1>0, <2>3, <2>6, <2>8, QuietEntryStep
  <2> QED
    BY <1>3, <1>j, <2>4, <2>7, <2>8 DEF RecoveryGuard
<1>4. CASE StartStage(p)
  <2>1. j.field \subseteq Entered /\ j.build \in Nat
    BY <1>4, <1>j, <1>k DEF StartStage, At, EntryJob, Claimed
  <2>2. stages' \in Seq({"pending", "active"})
    <3>1. stages \in Seq({"pending", "active"})
      BY <1>0 DEF EntryTables
    <3>2. <<"pending">> \in Seq({"pending", "active"})
      OBVIOUS
    <3> QED
      BY <1>4, <3>1, <3>2 DEF StartStage
  <2>3. EntryTables' /\ Entered \subseteq Entered'
    BY <1>0, <1>4, <2>2, StagesWritten DEF StartStage
  <2> DEFINE r == [pc |-> scenario.format, field |-> j.field, build |-> j.build, stage |-> 1]
  <2>4. PICK f : f = scenario.format
    OBVIOUS
  <2>x. PICK x : x = [pc |-> f, field |-> j.field, build |-> j.build, stage |-> 1]
    OBVIOUS
  <2>5. EntryJob(x)'
    <3>1. x.pc \in TournamentFormat /\ x.field \subseteq Entered' /\ x.build \in Nat
      BY <1>f, <2>1, <2>3, <2>4, <2>x
    <3>2. x.pc \notin {"entry insert", "entry accept", "entry matches", "entry no show", "entry seed",
                      "cup status", "cup update", "cup move", "start claim", "start guard",
                      "start stage", "start group", "start seat"} \cup OneEntry
      BY <3>1 DEF OneEntry, TournamentFormat
    <3> QED
      BY <3>1, <3>2 DEF EntryJob
  <2>6. Continue(p, x)
    BY <1>4, <1>j, <2>4, <2>x DEF StartStage
  <2> QED
    BY <1>0, <2>3, <2>5, <2>6, WritingEntryStep
<1>5. CASE StartGroupsAndPlayoffs(p)
  <2>1. j.field \subseteq Entered /\ j.build \in Nat
    BY <1>5, <1>j, <1>k DEF StartGroupsAndPlayoffs, At, EntryJob, Claimed, TournamentFormat
  <2>2. stages \in Seq({"pending", "active"})
    BY <1>0 DEF EntryTables
  <2>3. CASE Finish(p) /\ UNCHANGED stages
    <3>1. UNCHANGED entryTables
      BY <1>5, <2>3 DEF StartGroupsAndPlayoffs, entryTables
    <3> QED
      BY <1>0, <2>3, <3>1, IdleJob, QuietEntryStep DEF Finish
  <2>4. CASE /\ stages' = stages \o <<"pending", "pending">>
             /\ \E g \in distribute_into_groups(j.field) :
                  Continue(p, [pc |-> "start group", build |-> j.build, left |-> g, stage |-> Len(stages) + 1])
    <3>1. <<"pending", "pending">> \in Seq({"pending", "active"})
      OBVIOUS
    <3>2. stages' \in Seq({"pending", "active"})
      BY <2>2, <2>4, <3>1, ConcatProperties
    <3>3. EntryTables' /\ Entered \subseteq Entered'
      BY <1>0, <1>5, <3>2, StagesWritten DEF StartGroupsAndPlayoffs
    <3>4. PICK n : n = Len(stages) + 1
      OBVIOUS
    <3>5. PICK g \in distribute_into_groups(j.field) :
             Continue(p, [pc |-> "start group", build |-> j.build, left |-> g, stage |-> n])
      BY <2>4, <3>4
    <3>6. GroupsLeft(g)' /\ g # <<>>
      <4>1. PICK k : k = group_count(j.field)
        OBVIOUS
      <4>2. g \in [1 .. k -> SUBSET j.field]
        BY <3>5, <4>1 DEF distribute_into_groups
      <4>3. k \in Nat /\ k >= 2
        <5>1. j.field \subseteq Entrants
          BY <2>1 DEF Entered
        <5>2. Cardinality(j.field) \in Nat
          BY <5>1, TournamentEntryAssumption, FS_Subset, FS_CardinalityType
        <5>3. PICK c \in Nat : c = Cardinality(j.field)
          BY <5>2
        <5> QED
          BY <4>1, <5>3 DEF group_count
      <4>4. \A i \in 1 .. k : g[i] \subseteq j.field /\ DOMAIN g = 1 .. k
        BY <4>2
      <4>5. \A i \in 1 .. k : g[i] \in SUBSET Entrants /\ g[i] \subseteq Entered'
        BY <2>1, <3>3, <4>4 DEF Entered
      <4>6. g \in [1 .. k -> SUBSET Entrants]
        BY <4>2, <4>5
      <4>7. g \in Seq(SUBSET Entrants)
        BY <4>3, <4>6
      <4>8. 1 \in DOMAIN g
        BY <4>3, <4>6
      <4>9. g # <<>>
        BY <4>8
      <4>10. \A i \in DOMAIN g : g[i] \subseteq Entered'
        BY <4>5, <4>6
      <4> QED
        BY <4>7, <4>9, <4>10 DEF GroupsLeft
    <3>7. EntryJob([pc |-> "start group", build |-> j.build, left |-> g, stage |-> n])'
      <4> HIDE DEF GroupsLeft
      <4> QED
        BY <2>1, <3>6 DEF EntryJob, OneEntry, Claimed, TournamentFormat
    <3> QED
      BY <1>0, <3>3, <3>5, <3>7, WritingEntryStep
  <2> QED
    BY <1>5, <1>j, <2>3, <2>4 DEF StartGroupsAndPlayoffs
<1>6. CASE ActivateStage(p)
  <2>1. stages' \in Seq({"pending", "active"})
    <3>1. PICK s : s = stages
      OBVIOUS
    <3>2. s \in Seq({"pending", "active"})
      BY <1>0, <3>1 DEF EntryTables
    <3>3. PICK n : n = req[p].stage
      OBVIOUS
    <3>4. stages' = [s EXCEPT ![n] = "active"]
      BY <1>6, <3>1, <3>3 DEF ActivateStage
    <3>5. CASE n \in 1 .. Len(s)
      BY <3>2, <3>4, <3>5, ExceptSeq
    <3>6. CASE n \notin 1 .. Len(s)
      <4>1. DOMAIN s = 1 .. Len(s)
        BY <3>2, LenProperties
      <4>2. stages' = s
        BY <3>2, <3>4, <3>6, <4>1
      <4> QED
        BY <3>2, <4>2
    <3> QED
      BY <3>5, <3>6
  <2>2. EntryTables' /\ Entered \subseteq Entered'
    BY <1>0, <1>6, <2>1, StagesWritten DEF ActivateStage
  <2>3. EntryJob([pc |-> "start mark"])'
    BY DEF EntryJob, OneEntry, Claimed, TournamentFormat
  <2> QED
    BY <1>0, <1>6, <2>2, <2>3, WritingEntryStep DEF ActivateStage
<1> QED
  BY <1>2, <1>3, <1>4, <1>5, <1>6

\* The steps of a start that create brackets ...
LEMMA CreateBracketsTypes ==
    ASSUME EntryTypes, NEW p \in Tasks, NEW names, names \in Seq(BracketNames),
           NEW field, field \subseteq Entered, NEW left, GroupsLeft(left),
           req[p].build \in Nat, CreateBrackets(p, names, field, left)
    PROVE  EntryTypes'
<1>1. PICK j : j = req[p]
  OBVIOUS
<1>2. brackets' = brackets \o [i \in DOMAIN names |->
                           [build |-> j.build, name |-> names[i], seated |-> {}]]
  BY <1>1 DEF CreateBrackets
<1>3. EntryTables /\ j.build \in Nat
  BY <1>1 DEF EntryTypes
<1>4. /\ brackets' \in Seq(BracketRow)
      /\ \A i \in DOMAIN brackets' :
             \/ i \in DOMAIN brackets /\ brackets'[i] = brackets[i]
             \/ brackets'[i].build = j.build /\ brackets'[i].seated = {}
  BY <1>2, <1>3, RowsAdded
<1>5. \A i \in DOMAIN brackets : brackets[i].seated \subseteq Entered
  BY <1>3 DEF EntryTables, EntryTypeOK, Entered
<1>6. \A i \in DOMAIN brackets' : brackets'[i].seated \subseteq Entered
  <2> HIDE DEF Entered
  <2> QED
    BY <1>4, <1>5
<1>7. EntryTables' /\ Entered \subseteq Entered'
  BY <1>3, <1>4, <1>6, BracketsWritten DEF CreateBrackets
<1>8. GroupsLeft(left)'
  BY <1>7 DEF GroupsLeft
<1>9. PICK r : r = [pc |-> "start seat", field |-> field, build |-> j.build, first |-> names[1],
                    left |-> left, stage |-> j.stage]
  OBVIOUS
<1>10. EntryJob(r)'
  <2>1. r.pc = "start seat" /\ r.build \in Nat /\ GroupsLeft(r.left)' /\ r.field \subseteq Entered'
    <3> HIDE DEF GroupsLeft, Entered
    <3>1. r.left = left
      BY <1>9
    <3> QED
      BY <1>3, <1>7, <1>8, <1>9, <3>1
  <2> HIDE DEF GroupsLeft
  <2> QED
    BY <2>1 DEF EntryJob, OneEntry, Claimed, TournamentFormat
<1>11. Continue(p, r)
  BY <1>1, <1>9 DEF CreateBrackets
<1> QED
  BY <1>7, <1>10, <1>11, WritingEntryStep

\* ... which are these five, and the one that seats the field.
LEMMA BuildTypes ==
    ASSUME EntryTypes, NEW p \in Users,
           \/ StartSingleElimination(p) \/ StartDoubleElimination(p) \/ StartRoundRobin(p)
           \/ StartSwiss(p) \/ StartGroup(p) \/ SeatField(p)
    PROVE  EntryTypes'
<1>0. p \in Tasks /\ EntryTables
  BY DEF Tasks, EntryTypes
<1>j. PICK j : j = req[p]
  OBVIOUS
<1>k. EntryJob(j)
  BY <1>0, <1>j DEF EntryTypes
<1>1. GroupsLeft(<<>>)
  BY DEF GroupsLeft
<1>2. /\ <<"main">> \in Seq(BracketNames) /\ <<"winners", "losers", "grand">> \in Seq(BracketNames)
      /\ <<"round robin">> \in Seq(BracketNames) /\ <<"swiss">> \in Seq(BracketNames)
  BY DEF BracketNames
<1>3. CASE StartSingleElimination(p) \/ StartDoubleElimination(p) \/ StartRoundRobin(p) \/ StartSwiss(p)
  <2>1. j.pc \in {"single_elimination", "double_elimination", "round_robin", "swiss"}
    BY <1>3, <1>j DEF StartSingleElimination, StartDoubleElimination, StartRoundRobin, StartSwiss, At
  <2>2. j.field \subseteq Entered /\ j.build \in Nat
    BY <1>k, <2>1 DEF EntryJob, Claimed, TournamentFormat
  <2>3. PICK names : names \in Seq(BracketNames) /\ CreateBrackets(p, names, j.field, <<>>)
    BY <1>2, <1>3, <1>j DEF StartSingleElimination, StartDoubleElimination, StartRoundRobin, StartSwiss
  <2> QED
    BY <1>0, <1>1, <1>j, <2>2, <2>3, CreateBracketsTypes
<1>4. CASE StartGroup(p)
  <2>0. j.pc = "start group"
    BY <1>4, <1>j DEF StartGroup, At
  <2>1. j.build \in Nat /\ GroupsLeft(j.left) /\ j.left # <<>>
    BY <1>k, <2>0 DEF EntryJob
  <2>2. PICK l : l = j.left
    OBVIOUS
  <2>3. l \in Seq(SUBSET Entrants) /\ l # <<>> /\ \A i \in DOMAIN l : l[i] \subseteq Entered
    BY <2>1, <2>2 DEF GroupsLeft
  <2>4. Len(l) \in Nat /\ Len(l) >= 1 /\ DOMAIN l = 1 .. Len(l)
    BY <2>3, LenProperties, EmptySeq
  <2>5. /\ Head(l) = l[1] /\ Tail(l) \in Seq(SUBSET Entrants) /\ Len(Tail(l)) = Len(l) - 1
        /\ \A i \in 1 .. Len(Tail(l)) : Tail(l)[i] = l[i + 1]
    BY <2>3, HeadTailProperties
  <2>6. DOMAIN Tail(l) = 1 .. Len(Tail(l))
    BY <2>5, LenProperties
  <2>7. Head(l) \subseteq Entered
    BY <2>3, <2>4, <2>5
  <2>8. GroupsLeft(Tail(l))
    <3>1. \A i \in DOMAIN Tail(l) : Tail(l)[i] \subseteq Entered
      <4>1. ASSUME NEW i \in 1 .. Len(Tail(l)) PROVE Tail(l)[i] = l[i + 1] /\ i + 1 \in DOMAIN l
        BY <2>4, <2>5, <4>1
      <4> QED
        BY <2>3, <2>6, <4>1
    <3> QED
      BY <2>5, <3>1 DEF GroupsLeft
  <2>9. <<Len(l)>> \in Seq(BracketNames)
    <3>1. PICK n \in Nat : n = Len(l)
      BY <2>4
    <3>2. PICK name \in BracketNames : name = n
      BY DEF BracketNames
    <3>3. <<name>> \in Seq(BracketNames)
      OBVIOUS
    <3> QED
      BY <3>1, <3>2, <3>3
  <2>10. CreateBrackets(p, <<Len(l)>>, Head(l), Tail(l))
    BY <1>4, <1>j, <2>2 DEF StartGroup
  <2> HIDE DEF GroupsLeft, Entered
  <2> QED
    BY <1>0, <1>j, <2>1, <2>7, <2>8, <2>9, <2>10, CreateBracketsTypes
<1>5. CASE SeatField(p)
  <2>0. j.pc = "start seat"
    BY <1>5, <1>j DEF SeatField, At
  <2>1. j.build \in Nat /\ GroupsLeft(j.left) /\ j.field \subseteq Entered
    BY <1>k, <2>0 DEF EntryJob
  <2> DEFINE row(i) == IF brackets[i].build = j.build /\ brackets[i].name = j.first
                       THEN [brackets[i] EXCEPT !.seated = j.field] ELSE brackets[i]
  <2>2. /\ brackets \in Seq(BracketRow) /\ DOMAIN brackets = 1 .. Len(brackets) /\ Len(brackets) \in Nat
        /\ \A i \in DOMAIN brackets : brackets[i] \in BracketRow /\ brackets[i].seated \subseteq Entered
    <3>1. brackets \in Seq(BracketRow)
      BY <1>0 DEF EntryTables
    <3>2. DOMAIN brackets = 1 .. Len(brackets) /\ Len(brackets) \in Nat
      BY <3>1, LenProperties
    <3>3. \A i \in DOMAIN brackets : brackets[i] \in BracketRow
      BY <3>1, <3>2, ElementOfSeq
    <3> QED
      BY <1>0, <3>1, <3>2, <3>3 DEF EntryTables, EntryTypeOK, Entered
  <2>3. \A i \in DOMAIN brackets : row(i) \in BracketRow /\ row(i).seated \subseteq Entered
    <3>1. j.field \subseteq Entrants
      BY <2>1 DEF Entered
    <3>2. ASSUME NEW i \in DOMAIN brackets
          PROVE  /\ [brackets[i] EXCEPT !.seated = j.field] \in BracketRow
                 /\ [brackets[i] EXCEPT !.seated = j.field].seated = j.field
      BY <2>2, <3>1 DEF BracketRow
    <3> HIDE DEF Entered
    <3> QED
      BY <2>1, <2>2, <3>2
  <2> HIDE DEF row
  <2>4. brackets' = [i \in DOMAIN brackets |-> row(i)]
    BY <1>5, <1>j DEF SeatField, row
  <2>5. [i \in DOMAIN brackets |-> row(i)] \in Seq(BracketRow)
    BY <2>2, <2>3, IsASeq
  <2>6. \A i \in DOMAIN brackets' : brackets'[i].seated \subseteq Entered
    BY <2>3, <2>4
  <2>7. EntryTables' /\ Entered \subseteq Entered'
    BY <1>0, <1>5, <2>4, <2>5, <2>6, BracketsWritten DEF SeatField
  <2>8. GroupsLeft(j.left)'
    BY <2>1, <2>7 DEF GroupsLeft
  <2>9. CASE Continue(p, [pc |-> "start active", stage |-> j.stage])
    <3>1. EntryJob([pc |-> "start active", stage |-> j.stage])'
      BY DEF EntryJob, OneEntry, Claimed, TournamentFormat
    <3> QED
      BY <1>0, <2>7, <2>9, <3>1, WritingEntryStep
  <2>10. CASE j.left # <<>> /\ Continue(p, [pc |-> "start group", build |-> j.build, left |-> j.left, stage |-> j.stage])
    <3>1. PICK r : r = [pc |-> "start group", build |-> j.build, left |-> j.left, stage |-> j.stage]
      OBVIOUS
    <3>2. r.pc = "start group" /\ r.build \in Nat /\ GroupsLeft(r.left)' /\ r.left # <<>>
      <4> HIDE DEF GroupsLeft
      <4>1. r.left = j.left
        BY <3>1
      <4> QED
        BY <2>1, <2>8, <2>10, <3>1, <4>1
    <3>3. EntryJob(r)'
      <4> HIDE DEF GroupsLeft
      <4> QED
        BY <3>2 DEF EntryJob, OneEntry, Claimed, TournamentFormat
    <3> QED
      BY <1>0, <2>7, <2>10, <3>1, <3>3, WritingEntryStep
  <2> QED
    BY <1>5, <1>j, <2>9, <2>10 DEF SeatField
<1> QED
  BY <1>3, <1>4, <1>5

\* The first state ...
LEMMA EntryTypesInit == RequestsInit /\ EntryInit => EntryTypes
<1> SUFFICES ASSUME RequestsInit, EntryInit PROVE EntryTypes
  OBVIOUS
<1>1. RequestsTypeOK /\ \A p \in Tasks : req[p] = NoRequest
  BY RequestsAssumption DEF RequestsInit, RequestsTypeOK
<1>2. \A p \in Tasks : EntryJob(req[p])
  BY <1>1, IdleJob
<1>3. scenario \in Scenarios /\ 0 \in 0 .. Cardinality(Entrants)
  BY <1>1, TournamentEntryAssumption, FS_CardinalityType DEF RequestsTypeOK
<1>4. cup \in TournamentRow
  <2>1. PICK l \in Leagues : l = CHOOSE x \in Leagues : TRUE
    BY TournamentEntryAssumption
  <2>2. CASE scenario.of = "entry"
    BY <1>3, <2>1, <2>2, TournamentEntryAssumption DEF EntryInit, TournamentRow, TournamentStatus
  <2>3. CASE scenario.of # "entry"
    BY <1>3, <2>1, <2>3 DEF EntryInit, TournamentRow, TournamentStatus
  <2> QED
    BY <2>2, <2>3
<1>5. \A e \in Entrants : entries[e] = NoEntry \/ entries[e] \in TournamentRegistrationRow
  <2>1. PICK l \in Leagues : l = CHOOSE x \in Leagues : TRUE
    BY TournamentEntryAssumption
  <2>2. \A s \in TournamentRegistrationStatus : Entry(1, s, l) \in TournamentRegistrationRow
    BY NewRow
  <2>3. \A e \in Entrants : scenario.of = "entry" /\ e \in Candidates /\ scenario.entered[e] # "none"
                => scenario.entered[e] \in TournamentRegistrationStatus
    BY <1>3, TournamentEntryAssumption DEF Candidates
  <2> QED
    BY <2>1, <2>2, <2>3 DEF EntryInit
<1>6. invites \in [Entrants -> TournamentInvitationRow]
  BY DEF EntryInit, TournamentInvitationRow
<1>7. brackets = <<>> /\ stages = <<>> /\ DOMAIN entries = Entrants
  BY DEF EntryInit
<1>8. EntryTables
  BY <1>4, <1>5, <1>6, <1>7 DEF EntryTables, EntryTypeOK
<1> QED
  BY <1>1, <1>2, <1>8 DEF EntryTypes

\* ... and every step.
LEMMA EntryTypesStep == EntryTypes /\ [EntryNext]_entryVars => EntryTypes'
<1> SUFFICES ASSUME EntryTypes, [EntryNext]_entryVars PROVE EntryTypes'
  OBVIOUS
<1>1. ASSUME NEW p \in Users, EntryRequest(p) PROVE EntryTypes'
  <2>1. CASE ClearSeeding(p)
    BY <1>1, <2>1, ManyEntriesTypes DEF ClearSeeding, Allowed
  <2> QED
    BY <1>1, <2>1, AskingTypes, ListingTypes, InvitingTypes, AskingCupTypes, CupTypes DEF EntryRequest
<1>2. ASSUME NEW p \in Users, EntryStep(p) PROVE EntryTypes'
  BY <1>2, OneEntryTypes, ManyEntriesTypes, InvitingTypes, CupTypes, StartTypes, BuildTypes DEF EntryStep
<1>3. ASSUME NEW p \in Users, EntryDie(p) PROVE EntryTypes'
  <2>1. p \in Tasks /\ req' = [req EXCEPT ![p] = NoRequest] /\ UNCHANGED entryTables
    BY <1>3 DEF EntryDie, Die, Tasks
  <2>2. RequestsTypeOK'
    BY <1>3, RequestsAssumption DEF EntryDie, Die, EntryTypes, RequestsTypeOK
  <2>3. EntryTables' /\ Entered \subseteq Entered'
    BY <2>1 DEF EntryTypes, EntryTables, EntryTypeOK, Entered, HasEntry, entryTables
  <2>4. EntryJob(NoRequest)'
    BY DEF EntryJob, NoRequest, OneEntry, Claimed, TournamentFormat
  <2> QED
    BY <2>1, <2>2, <2>3, <2>4, EntryTurn
<1>4. CASE UNCHANGED entryVars
  <2>1. req' = req /\ UNCHANGED entryTables /\ RequestsTypeOK'
    BY <1>4 DEF entryVars, requestVars, EntryTypes, RequestsTypeOK
  <2>2. EntryTables' /\ Entered' = Entered
    BY <2>1 DEF EntryTypes, EntryTables, EntryTypeOK, Entered, HasEntry, entryTables
  <2>3. \A left : GroupsLeft(left)' = GroupsLeft(left)
    BY <2>2 DEF GroupsLeft
  <2>4. ASSUME NEW p \in Tasks PROVE EntryJob(req[p])'
    <3>1. PICK j : j = req[p]
      OBVIOUS
    <3>2. EntryJob(j)
      BY <3>1 DEF EntryTypes
    <3>3. EntryJob(j)'
      <4> HIDE DEF GroupsLeft, Entered
      <4> QED
        BY <2>2, <2>3, <3>2 DEF EntryJob
    <3> QED
      BY <2>1, <3>1, <3>3
  <2> QED
    BY <2>1, <2>2, <2>4 DEF EntryTypes
<1> QED
  BY <1>1, <1>2, <1>3, <1>4 DEF EntryNext

-----------------------------------------------------------------------------
(* How the invariant survives a step, whatever the step.                    *)

\* A request arrives, or one that is being served moves on.
Moves(p, r) == Request(p, r) \/ (req[p] # NoRequest /\ Continue(p, r))

\* One task moves; when requests do not overlap the others are idle.
LEMMA MoveFacts ==
    ASSUME EntryTypes, OneAtATime, NEW p \in Tasks, NEW r, Moves(p, r)
    PROVE  /\ scenario' = scenario /\ crashes' = crashes
           /\ req'[p] = r /\ \A q \in Tasks : q # p => req'[q] = req[q]
           /\ scenario.serial => \A q \in Tasks : q # p => req[q] = NoRequest
           /\ OneAtATime'
<1>1. scenario' = scenario /\ crashes' = crashes /\ req' = [req EXCEPT ![p] = r] /\ DOMAIN req = Tasks
  BY DEF Moves, Request, Continue, EntryTypes, RequestsTypeOK
<1>2. req'[p] = r /\ \A q \in Tasks : q # p => req'[q] = req[q]
  BY <1>1
<1>3. scenario.serial => \A q \in Tasks : q # p => req[q] = NoRequest
  BY DEF Moves, Request, MayStart, OneAtATime
<1>4. OneAtATime'
  BY <1>1, <1>2, <1>3 DEF OneAtATime
<1> QED
  BY <1>1, <1>2, <1>3, <1>4

\* The start.
LEMMA StartTurn ==
    ASSUME EntryTypes, OneAtATime, StartIsClaimed, NEW p \in Tasks, NEW r, Moves(p, r),
           cup.status \in Late => cup'.status \in Late,
           Guarded => \/ brackets' = brackets
                      \/ /\ Holding(req[p])
                         /\ \A i \in DOMAIN brackets' : brackets'[i].build = req[p].build,
           Guarded /\ Holding(r) => Holding(req[p]) \/ cup.status \notin Late,
           Guarded => StartJob(r)'
    PROVE  StartIsClaimed'
<1> SUFFICES ASSUME Guarded
             PROVE  /\ brackets' # <<>> => cup'.status \in Late
                    /\ \A i, k \in DOMAIN brackets' : brackets'[i].build = brackets'[k].build
                    /\ \A q \in Tasks : StartJob(req[q])'
                    /\ \A q, o \in Tasks : Holding(req'[q]) /\ Holding(req'[o]) => q = o
  BY MoveFacts DEF StartIsClaimed, Guarded, Holding
<1>1. /\ req'[p] = r /\ \A q \in Tasks : q # p => req'[q] = req[q]
      /\ scenario.serial => \A q \in Tasks : q # p => req[q] = NoRequest
      /\ scenario' = scenario
  BY MoveFacts
<1>2. /\ brackets # <<>> => cup.status \in Late
      /\ \A i, k \in DOMAIN brackets : brackets[i].build = brackets[k].build
      /\ \A q \in Tasks : StartJob(req[q])
      /\ \A q, o \in Tasks : Holding(req[q]) /\ Holding(req[o]) => q = o
  BY DEF StartIsClaimed
<1>3. \A q \in Tasks : Holding(req[q]) => cup.status \in Late
  BY <1>2 DEF StartJob
<1>4. ASSUME NEW q \in Tasks, q # p PROVE StartJob(req[q])'
  <2>1. PICK k : k = req[q]
    OBVIOUS
  <2>2. StartJob(k) /\ req'[q] = k
    BY <1>1, <1>2, <1>4, <2>1
  <2>3. CASE k = NoRequest
    <3>1. k.pc = "idle"
      BY <2>3 DEF NoRequest
    <3>2. StartJob(k)'
      BY <3>1 DEF StartJob, Holding, Claimed, Building, TournamentFormat
    <3> QED
      BY <2>2, <3>2
  <2>4. CASE k # NoRequest
    <3>1. ~scenario.serial
      BY <1>1, <1>4, <2>1, <2>4
    <3>2. Holding(k) => ~Holding(req[p])
      BY <1>2, <1>4, <2>1
    <3>3. Holding(k) => brackets' = brackets
      BY <3>2
    <3>4. k.pc \in Claimed \/ k.pc \in Building => Holding(k)
      BY DEF Holding
    <3>5. StartJob(k)'
      <4> HIDE DEF Holding, Claimed, Building
      <4>1. Holding(k)' = Holding(k)
        BY DEF Holding
      <4>2. Holding(k) => cup'.status \in Late
        BY <2>2 DEF StartJob
      <4>3. k.pc \in Claimed => brackets' = <<>>
        BY <2>2, <3>3, <3>4 DEF StartJob
      <4>4. k.pc \in Building => \A i \in DOMAIN brackets' : brackets'[i].build = k.build
        BY <2>2, <3>3, <3>4 DEF StartJob
      <4>5. k.pc = "cup status" => k.to \in Late
        BY <2>2, <3>1 DEF StartJob
      <4> QED
        BY <4>1, <4>2, <4>3, <4>4, <4>5 DEF StartJob
    <3> QED
      BY <2>2, <3>5
  <2> QED
    BY <2>3, <2>4
<1>5. \A q \in Tasks : StartJob(req[q])'
  BY <1>1, <1>4
<1>6. brackets' # <<>> => cup'.status \in Late
  BY <1>2, <1>3
<1>7. \A i, k \in DOMAIN brackets' : brackets'[i].build = brackets'[k].build
  BY <1>2
<1>8. \A q, o \in Tasks : Holding(req'[q]) /\ Holding(req'[o]) => q = o
  <2> HIDE DEF Holding
  <2>1. ASSUME NEW q \in Tasks, q # p, Holding(req'[q]) PROVE ~Holding(r)
    BY <1>1, <1>2, <1>3, <2>1
  <2> QED
    BY <1>1, <1>2, <2>1
<1> QED
  BY <1>5, <1>6, <1>7, <1>8

\* The entries.
LEMMA EntriesTurn ==
    ASSUME EntryTypes, OneAtATime, EntriesAgree, NEW p \in Tasks, NEW r, Moves(p, r),
           Alone => LeaguesAgree' /\ SeatsAgree' /\ FreshJob(r)'
    PROVE  EntriesAgree'
<1>1. /\ req'[p] = r /\ \A q \in Tasks : q # p => req'[q] = req[q]
      /\ scenario.serial => \A q \in Tasks : q # p => req[q] = NoRequest
      /\ scenario' = scenario
  BY MoveFacts
<1>2. Alone' = Alone
  BY <1>1 DEF Alone
<1>3. FreshJob(NoRequest)'
  BY DEF FreshJob, NoRequest, Claimed, Building, TournamentFormat
<1>4. ASSUME Alone PROVE \A q \in Tasks : FreshJob(req[q])'
  BY <1>1, <1>3, <1>4 DEF Alone
<1> QED
  BY <1>2, <1>4 DEF EntriesAgree

\* Nobody takes a place in another league.
LEMMA LeaguesKept ==
    ASSUME LeaguesAgree, cup'.league = cup.league,
           \A e \in Entrants : \/ entries'[e].status \in {"none", "withdrawn", "disqualified"}
                               \/ entries'[e].league = cup.league
                               \/ e \in Slots(entries) /\ entries'[e].league = entries[e].league
    PROVE  LeaguesAgree'
BY DEF LeaguesAgree, Slots

\* Nobody who is seated falls back or leaves unseen.
LEMMA SeatsKept ==
    ASSUME EntryTypes, OneAtATime, Alone, SeatsAgree, NEW p \in Tasks, NEW r, Moves(p, r),
           UNCHANGED <<brackets, forfeits>>, req[p].pc # "entry matches",
           \A e \in Entrants :
               \/ entries'[e].status = entries[e].status
               \/ entries'[e].status \notin {"pending", "withdrawn"}
               \/ entries'[e].status = "withdrawn" /\ r.pc = "entry matches" /\ r.entrant = e
               \/ \A i \in DOMAIN brackets : e \notin brackets[i].seated
    PROVE  SeatsAgree'
<1>1. /\ req'[p] = r /\ \A q \in Tasks : q # p => req[q] = NoRequest
      /\ crashes' = crashes
  BY MoveFacts DEF Alone
<1>2. \A e : ~Leaving(e)
  <2>1. NoRequest.pc = "idle"
    BY DEF NoRequest
  <2>2. \A q \in Tasks : req[q].pc # "entry matches"
    BY <1>1, <2>1
  <2> QED
    BY <2>2 DEF Leaving
<1>3. ASSUME NEW e \in Entrants, NEW i \in DOMAIN brackets, e \in brackets[i].seated
      PROVE  /\ entries'[e].status # "pending"
             /\ entries'[e].status = "withdrawn" /\ crashes' = 0 => e \in forfeits' \/ Leaving(e)'
  <2>1. /\ entries[e].status # "pending"
        /\ entries[e].status = "withdrawn" /\ crashes = 0 => e \in forfeits
    BY <1>2, <1>3 DEF SeatsAgree
  <2>2. r.pc = "entry matches" /\ r.entrant = e => Leaving(e)'
    BY <1>1 DEF Leaving
  <2> QED
    BY <1>1, <1>3, <2>1, <2>2
<1> QED
  BY <1>3 DEF SeatsAgree

\* The seeds, unless the step writes one.
LEMMA SeedsKept ==
    ASSUME EntryTypes, OneAtATime, SeedsAgree, NEW p \in Tasks, NEW r, Moves(p, r),
           req[p].pc # "entry seed",
           SeedScope =>
               /\ SeedJob(r)'
               /\ \A e \in Entrants :
                      \/ /\ entries'[e].status = entries[e].status
                         /\ entries'[e].seed \in {entries[e].seed, 0}
                      \/ entries'[e].seed = 0 /\ entries'[e].status # "checked_in"
                      \/ entries'[e].status \notin {"checked_in", "approved", "active", "pending"}
    PROVE  SeedsAgree'
<1>1. /\ req'[p] = r /\ \A q \in Tasks : q # p => req'[q] = req[q]
      /\ scenario.serial => \A q \in Tasks : q # p => req[q] = NoRequest
      /\ scenario' = scenario /\ crashes' = crashes
  BY MoveFacts
<1>2. SeedScope' = SeedScope
  BY <1>1 DEF SeedScope, Alone
<1> SUFFICES ASSUME SeedScope
             PROVE  /\ \A q \in Tasks : SeedJob(req[q])'
                    /\ \A x, y \in list_seeded' :
                           (x # y /\ entries'[x].seed = entries'[y].seed) => entries'[x].seed = 0
                    /\ With("checked_in")' # {} =>
                           \A e \in list_seeded' \ With("checked_in")' : entries'[e].seed = 0
                    /\ \A e \in With("active")' \cup With("pending")' : entries'[e].seed = 0
  BY <1>2 DEF SeedsAgree
<1>3. SeedJob(NoRequest)'
  BY DEF SeedJob, NoRequest
<1>4. \A q \in Tasks : SeedJob(req[q])'
  BY <1>1, <1>3 DEF SeedScope, Alone
<1>5. \A q \in Tasks : req[q].pc # "entry seed"
  <2>1. NoRequest.pc = "idle"
    BY DEF NoRequest
  <2> QED
    BY <1>1, <2>1 DEF SeedScope, Alone
<1>6. /\ \A x, y \in list_seeded : (x # y /\ entries[x].seed = entries[y].seed) => entries[x].seed = 0
      /\ With("checked_in") # {} => \A e \in list_seeded \ With("checked_in") : entries[e].seed = 0
      /\ \A e \in With("active") \cup With("pending") : entries[e].seed = 0
  BY <1>5 DEF SeedsAgree
<1>7. \A e \in list_seeded' : entries'[e].seed = 0
                             \/ (/\ e \in list_seeded /\ entries'[e].seed = entries[e].seed
                                 /\ entries'[e].status = entries[e].status)
  BY DEF list_seeded
<1>8. \A x, y \in list_seeded' :
          (x # y /\ entries'[x].seed = entries'[y].seed) => entries'[x].seed = 0
  <2> SUFFICES ASSUME NEW x \in list_seeded', NEW y \in list_seeded', x # y,
                      entries'[x].seed = entries'[y].seed, entries'[x].seed # 0
               PROVE  FALSE
    OBVIOUS
  <2>1. x \in list_seeded /\ entries'[x].seed = entries[x].seed
    BY <1>7
  <2>2. y \in list_seeded /\ entries'[y].seed = entries[y].seed
    BY <1>7
  <2>3. entries[x].seed = entries[y].seed /\ entries[x].seed # 0
    BY <2>1, <2>2
  <2> QED
    BY <1>6, <2>1, <2>2, <2>3
<1>9. With("checked_in")' \subseteq With("checked_in")
  BY DEF With
<1>10. With("checked_in")' # {} =>
           \A e \in list_seeded' \ With("checked_in")' : entries'[e].seed = 0
  <2> SUFFICES ASSUME With("checked_in")' # {}, NEW e \in list_seeded', e \notin With("checked_in")',
                      entries'[e].seed # 0
               PROVE  FALSE
    OBVIOUS
  <2>1. e \in list_seeded /\ entries'[e].seed = entries[e].seed /\ entries'[e].status = entries[e].status
    BY <1>7
  <2>2. e \notin With("checked_in")
    BY <2>1 DEF With
  <2> QED
    BY <1>6, <1>9, <2>1, <2>2
<1>11. \A e \in With("active")' \cup With("pending")' : entries'[e].seed = 0
  BY <1>6 DEF With
<1> QED
  BY <1>4, <1>8, <1>10, <1>11

\* A step that leaves the registrations, the brackets and the forfeits alone.
LEMMA TablesTurn ==
    ASSUME EntryTypes, Agreement, NEW p \in Tasks, NEW r, Moves(p, r),
           UNCHANGED <<entries, brackets, forfeits>>, cup'.league = cup.league,
           cup.status \in Late => cup'.status \in Late,
           req[p].pc \notin {"entry matches", "entry seed"},
           Guarded /\ Holding(r) => Holding(req[p]) \/ cup.status \notin Late,
           Guarded => StartJob(r)', Alone => FreshJob(r)', SeedScope => SeedJob(r)'
    PROVE  Agreement'
<1>1. OneAtATime' /\ StartIsClaimed'
  BY MoveFacts, StartTurn DEF Agreement
<1>2. ASSUME Alone PROVE LeaguesAgree' /\ SeatsAgree'
  <2>1. LeaguesAgree /\ SeatsAgree
    BY <1>2 DEF Agreement, EntriesAgree
  <2>2. LeaguesAgree'
    BY <2>1 DEF LeaguesAgree, Slots
  <2>3. SeatsAgree'
    BY <1>2, <2>1, SeatsKept DEF Agreement
  <2> QED
    BY <2>2, <2>3
<1>3. EntriesAgree'
  BY <1>2, EntriesTurn DEF Agreement
<1>4. SeedsAgree'
  BY SeedsKept DEF Agreement
<1> QED
  BY <1>1, <1>3, <1>4 DEF Agreement

\* A request that only remembers what it was asked.
LEMMA RequestTurn ==
    ASSUME EntryTypes, Agreement, NEW p \in Tasks, NEW r, Request(p, r), UNCHANGED entryTables,
           ~Holding(r), Guarded => StartJob(r), Alone => FreshJob(r), SeedScope => SeedJob(r)
    PROVE  Agreement'
<1>1. req[p].pc = "idle"
  BY DEF Request, MayStart, NoRequest
<1>2. UNCHANGED <<cup, entries, brackets, forfeits>>
  BY DEF entryTables
<1>3. scenario' = scenario
  BY DEF Request
<1>4. Guarded => StartJob(r)'
  BY <1>2, <1>3 DEF StartJob
<1>5. With("pending")' = With("pending") /\ With("approved")' = With("approved")
      /\ With("checked_in")' = With("checked_in") /\ list_seeded' = list_seeded
      /\ Slots(entries)' = Slots(entries)
  BY <1>2 DEF With, list_seeded, Slots
<1>6. Alone => FreshJob(r)'
  <2> HIDE DEF With, list_seeded, Slots
  <2> QED
    BY <1>2, <1>5 DEF FreshJob
<1>7. SeedScope => SeedJob(r)'
  <2> HIDE DEF With, list_seeded
  <2> QED
    BY <1>2, <1>5 DEF SeedJob
<1> QED
  BY <1>1, <1>2, <1>4, <1>6, <1>7, TablesTurn DEF Moves

\* The states of a request that promise nothing.
Plain == {"idle", "entry disqualify", "entry withdraw", "entry expel", "entry matches",
          "entry accept", "cup update", "cup stage", "cup delete", "start active", "start mark"}
IsPlain(r) == r.pc \in Plain
IsListing(r) == r.pc \in {"entry no show", "entry seed"}

\* They promise nothing.
LEMMA PlainJob ==
    ASSUME NEW r, IsPlain(r)
    PROVE  /\ ~Holding(r) /\ StartJob(r) /\ FreshJob(r) /\ SeedJob(r)
           /\ StartJob(r)' /\ FreshJob(r)' /\ SeedJob(r)'
<1>1. r.pc \notin Claimed \cup Building /\ r.pc \notin {"cup status", "entry insert", "cup move",
          "entry approve", "entry admit", "entry reject", "entry check in", "entry no show", "start claim", "start seat",
          "entry seed"}
  BY DEF IsPlain, Plain, Claimed, Building, TournamentFormat
<1> HIDE DEF Claimed, Building
<1>2. ~Holding(r) /\ StartJob(r) /\ StartJob(r)'
  BY <1>1 DEF Holding, StartJob
<1>3. FreshJob(r) /\ FreshJob(r)'
  BY <1>1 DEF FreshJob
<1>4. SeedJob(r) /\ SeedJob(r)'
  BY <1>1 DEF SeedJob
<1> QED
  BY <1>2, <1>3, <1>4

\* The requests that ask about one registration.
LEMMA AskingAgrees ==
    ASSUME EntryTypes, Agreement, NEW p \in Users,
           \/ ApproveRegistration(p) \/ RejectRegistration(p) \/ Disqualify(p)
           \/ WithdrawFromTournament(p) \/ DisqualifyAndForfeit(p)
           \/ CheckIn(p) \/ AdminCheckIn(p)
    PROVE  Agreement'
<1>0. p \in Tasks
  BY DEF Tasks
<1>1. ASSUME NEW op, NEW who, NEW label \in OneEntry, AskEntry(p, op, who, label),
             label \in {"entry approve", "entry admit", "entry reject"} => who \subseteq With("pending"),
             label \in {"entry check in", "entry admit"} => op = "check_in"
      PROVE  Agreement'
  <2>1. PICK e \in who : Request(p, [pc |-> label, entrant |-> e, id |-> entries[e].id])
    BY <1>1 DEF AskEntry
  <2>2. PICK id : id = entries[e].id
    OBVIOUS
  <2>3. PICK r : r = [pc |-> label, entrant |-> e, id |-> id]
    OBVIOUS
  <2>4. r.pc = label /\ r.entrant = e
    BY <2>3
  <2>5. label \notin Claimed \cup Building /\ label \notin {"cup status", "entry insert", "cup move",
             "entry no show", "start claim", "start seat", "entry seed"}
    BY <1>1 DEF OneEntry, Claimed, Building, TournamentFormat
  <2> HIDE DEF Claimed, Building, With
  <2>6. ~Holding(r) /\ StartJob(r)
    BY <2>4, <2>5 DEF Holding, StartJob
  <2>7. FreshJob(r)
    BY <1>1, <2>4, <2>5 DEF FreshJob
  <2>8. SeedScope => SeedJob(r)
    <3>1. SeedScope => op # "check_in"
      BY <1>1 DEF SeedScope, AskEntry, Allowed
    <3>2. SeedScope => label \notin {"entry check in", "entry admit"}
      BY <1>1, <3>1
    <3> QED
      BY <2>4, <2>5, <3>2 DEF SeedJob
  <2>9. UNCHANGED entryTables
    BY <1>1 DEF AskEntry
  <2> QED
    BY <1>0, <2>1, <2>2, <2>3, <2>6, <2>7, <2>8, <2>9, RequestTurn
<1>2. {"entry approve", "entry reject", "entry disqualify", "entry withdraw", "entry expel",
       "entry check in", "entry admit"} \subseteq OneEntry
  BY DEF OneEntry
<1>3. CASE ApproveRegistration(p)
  BY <1>1, <1>2, <1>3 DEF ApproveRegistration
<1>4. CASE RejectRegistration(p)
  BY <1>1, <1>2, <1>4 DEF RejectRegistration
<1>5. CASE Disqualify(p) \/ WithdrawFromTournament(p) \/ DisqualifyAndForfeit(p)
  <2>1. ASSUME NEW op, NEW who, NEW label \in {"entry disqualify", "entry withdraw", "entry expel"},
               AskEntry(p, op, who, label)
        PROVE  Agreement'
    BY <1>1, <1>2, <2>1
  <2> QED
    BY <1>5, <2>1 DEF Disqualify, WithdrawFromTournament, DisqualifyAndForfeit
<1>6. CASE CheckIn(p) \/ AdminCheckIn(p)
  <2>1. ASSUME NEW who, AskEntry(p, "check_in", who, "entry check in") PROVE Agreement'
    BY <1>1, <1>2, <2>1
  <2>2. ASSUME AskEntry(p, "check_in", With("pending"), "entry admit") PROVE Agreement'
    BY <1>1, <1>2, <2>2
  <2> QED
    BY <1>6, <2>1, <2>2 DEF CheckIn, AdminCheckIn
<1> QED
  BY <1>3, <1>4, <1>5, <1>6

\* Nor do those that list registrations touch the start.
LEMMA ListJob ==
    ASSUME NEW r, IsListing(r)
    PROVE  ~Holding(r) /\ StartJob(r)
<1>1. r.pc \notin Claimed \cup Building
  BY DEF IsListing, Claimed, Building, TournamentFormat
<1> HIDE DEF Claimed, Building
<1> QED
  BY <1>1 DEF IsListing, Holding, StartJob

\* The requests that remember several registrations.
LEMMA ListingAgrees ==
    ASSUME EntryTypes, Agreement, NEW p \in Users, ProcessNoShows(p) \/ AutoSeed(p) \/ ManualSeed(p)
    PROVE  Agreement'
<1>0. p \in Tasks
  BY DEF Tasks
<1>1. "entry no show" \notin Claimed \cup Building /\ "entry seed" \notin Claimed \cup Building
  BY DEF Claimed, Building, TournamentFormat
<1>3. CASE ProcessNoShows(p)
  <2> DEFINE absent == {e \in With("approved") : ~entries[e].checked_in}
  <2>1. PICK r : r = [pc |-> "entry no show", left |-> absent, ids |-> [e \in absent |-> entries[e].id]]
    OBVIOUS
  <2>2. Request(p, r) /\ UNCHANGED entryTables /\ "check_in" \in scenario.ops
    BY <1>3, <2>1 DEF ProcessNoShows, Allowed
  <2>3. r.pc = "entry no show" /\ r.left = absent
    BY <2>1
  <2>4. r.left \subseteq With("approved")
    BY <2>3
  <2> HIDE DEF absent, Claimed, Building, With
  <2>5. FreshJob(r)
    BY <1>1, <2>3, <2>4 DEF FreshJob
  <2>6. ~SeedScope
    BY <2>2 DEF SeedScope
  <2>10. ~Holding(r) /\ StartJob(r)
    <3>1. IsListing(r)
      BY <2>3 DEF IsListing
    <3> QED
      BY <3>1, ListJob
  <2> QED
    BY <1>0, <2>2, <2>5, <2>6, <2>10, RequestTurn
<1>5. CASE ManualSeed(p)
  <2>1. PICK S \in SUBSET {e \in Entrants : HasEntry(e)} : \E f \in Orders(S) :
          /\ S # {}
          /\ Request(p, [pc |-> "entry seed", seeds |-> f, left |-> S,
                         ids |-> [e \in S |-> entries[e].id]])
    BY <1>5 DEF ManualSeed
  <2>2. PICK f \in Orders(S) :
          Request(p, [pc |-> "entry seed", seeds |-> f, left |-> S,
                         ids |-> [e \in S |-> entries[e].id]])
    BY <2>1
  <2>3. PICK r : r = [pc |-> "entry seed", seeds |-> f, left |-> S, ids |-> [e \in S |-> entries[e].id]]
    OBVIOUS
  <2>4. Request(p, r) /\ r.pc = "entry seed" /\ UNCHANGED entryTables
    BY <1>5, <2>2, <2>3 DEF ManualSeed
  <2>5. ~SeedScope
    BY <1>5 DEF ManualSeed, Allowed, SeedScope
  <2>10. ~Holding(r) /\ StartJob(r) /\ FreshJob(r)
    <3>1. IsListing(r)
      BY <2>4 DEF IsListing
    <3>2. FreshJob(r)
      <4> HIDE DEF Claimed, Building
      <4> QED
        BY <1>1, <2>4 DEF FreshJob
    <3> QED
      BY <3>1, <3>2, ListJob
  <2> QED
    BY <1>0, <2>4, <2>5, <2>10, RequestTurn
<1>6. CASE AutoSeed(p)
  <2>1. PICK S : S = get_eligible_participants
    OBVIOUS
  <2>2. PICK f \in Orders(S) :
           Request(p, [pc |-> "entry seed", seeds |-> f, left |-> DOMAIN f,
                       ids |-> [e \in DOMAIN f |-> entries[e].id]])
    BY <1>6, <2>1 DEF AutoSeed
  <2>3. DOMAIN f = S /\ \A x, y \in S : f[x] = f[y] => x = y
    BY <2>2 DEF Orders
  <2>4. PICK r : r = [pc |-> "entry seed", seeds |-> f, left |-> S, ids |-> [e \in S |-> entries[e].id]]
    OBVIOUS
  <2>5. Request(p, r) /\ r.pc = "entry seed" /\ UNCHANGED entryTables
    BY <1>6, <2>2, <2>3, <2>4 DEF AutoSeed
  <2>6. /\ r.left = S /\ r.seeds = f /\ \A e \in S : r.ids[e] = entries[e].id
    BY <2>4
  <2>7. /\ S \subseteq With("checked_in") \cup With("approved")
        /\ With("checked_in") # {} => S = With("checked_in")
        /\ With("checked_in") = {} => S = With("approved")
    BY <2>1 DEF get_eligible_participants
  <2>8. SeedScope => \A e \in list_seeded \ S : entries[e].seed = 0
    <3> SUFFICES ASSUME SeedScope, NEW e \in list_seeded, e \notin S PROVE entries[e].seed = 0
      OBVIOUS
    <3>1. /\ With("checked_in") # {} => \A x \in list_seeded \ With("checked_in") : entries[x].seed = 0
          /\ \A x \in With("active") \cup With("pending") : entries[x].seed = 0
      BY DEF Agreement, SeedsAgree
    <3>2. CASE With("checked_in") # {}
      BY <2>7, <3>1, <3>2
    <3>3. CASE With("checked_in") = {}
      <4>1. e \in With("active")
        BY <2>7, <3>3 DEF list_seeded, With
      <4> QED
        BY <3>1, <4>1
    <3> QED
      BY <3>2, <3>3
  <2> HIDE DEF With, list_seeded
  <2>9. SeedScope => SeedJob(r)
    BY <2>3, <2>5, <2>6, <2>7, <2>8 DEF SeedJob
  <2>10. ~Holding(r) /\ StartJob(r) /\ FreshJob(r)
    <3>1. IsListing(r)
      BY <2>5 DEF IsListing
    <3>2. FreshJob(r)
      <4> HIDE DEF Claimed, Building
      <4> QED
        BY <1>1, <2>5 DEF FreshJob
    <3> QED
      BY <3>1, <3>2, ListJob
  <2> QED
    BY <1>0, <2>5, <2>9, <2>10, RequestTurn
<1> QED
  BY <1>3, <1>5, <1>6

\* Registering, invitations, and clearing the seeds.
LEMMA InvitingAgrees ==
    ASSUME EntryTypes, Agreement, NEW p \in Users, ConsumeInvitation(p) => req[p] # NoRequest,
           \/ Register(p) \/ InviteToTournament(p) \/ RevokeInvitation(p)
           \/ ConsumeInvitation(p) \/ ClearSeeding(p)
    PROVE  Agreement'
<1>0. p \in Tasks
  BY DEF Tasks
<1>1. ~Holding(NoRequest) /\ StartJob(NoRequest)' /\ FreshJob(NoRequest)' /\ SeedJob(NoRequest)'
  <2>1. IsPlain(NoRequest)
    BY DEF IsPlain, Plain, NoRequest
  <2> QED
    BY <2>1, PlainJob
<1>2. CASE InviteToTournament(p) \/ RevokeInvitation(p)
  <2>1. Request(p, NoRequest) /\ UNCHANGED <<cup, entries, brackets, forfeits>>
    BY <1>2 DEF InviteToTournament, RevokeInvitation
  <2>2. req[p].pc = "idle"
    BY <2>1 DEF Request, MayStart, NoRequest
  <2> QED
    BY <1>0, <1>1, <2>1, <2>2, TablesTurn DEF Moves
<1>3. CASE ConsumeInvitation(p)
  <2>1. Continue(p, NoRequest) /\ UNCHANGED <<cup, entries, brackets, forfeits>>
    BY <1>3 DEF ConsumeInvitation, Finish
  <2>2. req[p].pc = "entry accept" /\ req[p] # NoRequest
    BY <1>3 DEF ConsumeInvitation, At
  <2> QED
    BY <1>0, <1>1, <2>1, <2>2, TablesTurn DEF Moves
<1>4. CASE Register(p)
  <2>1. PICK e \in Candidates : \E invite \in require_invitation(e) :
                Request(p, [pc |-> "entry insert", entrant |-> e, invite |-> invite,
                            replace |-> entries[e].id, league |-> cup.league])
    BY <1>4 DEF Register
  <2>2. PICK invite \in require_invitation(e) :
                Request(p, [pc |-> "entry insert", entrant |-> e, invite |-> invite,
                            replace |-> entries[e].id, league |-> cup.league])
    BY <2>1
  <2>3. PICK r : r = [pc |-> "entry insert", entrant |-> e, invite |-> invite,
                      replace |-> entries[e].id, league |-> cup.league]
    OBVIOUS
  <2>4. r.pc = "entry insert" /\ r.league = cup.league /\ cup.status = "registration"
    BY <1>4, <2>3 DEF Register, is_registration_open
  <2>5. ~Holding(r) /\ StartJob(r)
    BY <2>4 DEF Holding, StartJob, Claimed, Building, TournamentFormat
  <2>6. FreshJob(r)
    BY <2>4 DEF FreshJob, Claimed, Building, TournamentFormat
  <2>7. SeedJob(r)
    BY <2>4 DEF SeedJob
  <2>8. Request(p, r) /\ UNCHANGED entryTables
    BY <1>4, <2>2, <2>3 DEF Register
  <2> QED
    BY <1>0, <2>5, <2>6, <2>7, <2>8, RequestTurn
<1>5. CASE ClearSeeding(p)
  <2>1. /\ Request(p, NoRequest) /\ UNCHANGED <<cup, brackets, forfeits>>
        /\ \A e \in Entrants : entries'[e] = [entries[e] EXCEPT !.seed = 0]
    BY <1>5 DEF ClearSeeding
  <2>2. req[p].pc = "idle"
    BY <2>1 DEF Request, MayStart, NoRequest
  <2>3. \A e \in Entrants : entries[e] = NoEntry \/ entries[e] \in TournamentRegistrationRow
    BY DEF EntryTypes, EntryTables, EntryTypeOK
  <2>4. ASSUME NEW e \in Entrants
        PROVE  /\ entries'[e].status = entries[e].status /\ entries'[e].league = entries[e].league
               /\ entries'[e].seed = 0
    BY <2>1, <2>3, <2>4 DEF NoEntry, TournamentRegistrationRow
  <2>5. OneAtATime' /\ StartIsClaimed'
    BY <1>0, <1>1, <2>1, MoveFacts, StartTurn DEF Agreement, Moves
  <2>6. EntriesAgree'
    <3>1. ASSUME Alone PROVE LeaguesAgree' /\ SeatsAgree'
      <4>1. LeaguesAgree /\ SeatsAgree
        BY <3>1 DEF Agreement, EntriesAgree
      <4>2. LeaguesAgree'
        BY <2>1, <2>4, <4>1 DEF LeaguesAgree, Slots
      <4>3. SeatsAgree'
        BY <1>0, <2>1, <2>2, <2>4, <3>1, <4>1, SeatsKept DEF Agreement, Moves
      <4> QED
        BY <4>2, <4>3
    <3> QED
      BY <1>0, <1>1, <2>1, <3>1, EntriesTurn DEF Agreement, Moves
  <2>7. SeedsAgree'
    BY <1>0, <1>1, <2>1, <2>2, <2>4, SeedsKept DEF Agreement, Moves
  <2> QED
    BY <2>5, <2>6, <2>7 DEF Agreement
<1> QED
  BY <1>2, <1>3, <1>4, <1>5

\* The questions that are about the tournament's own row.
LEMMA AskingCupAgrees ==
    ASSUME EntryTypes, Agreement, NEW p \in Users,
           \/ PublishTournament(p) \/ OpenRegistration(p) \/ CloseRegistration(p)
           \/ ReopenRegistration(p) \/ CancelTournament(p) \/ CompleteTournament(p)
           \/ FinalizeTournament(p) \/ UpdateTournament(p) \/ MoveTournament(p)
           \/ CreateStage(p) \/ DeleteTournament(p) \/ StartTournament(p)
    PROVE  Agreement'
<1>0. p \in Tasks
  BY DEF Tasks
<1>1. ASSUME NEW op, NEW to, AskStatus(p, op, to), op \in {"organise", "close"} \/ to = "cancelled"
      PROVE  Agreement'
  <2>1. PICK r : r = [pc |-> "cup status", to |-> to]
    OBVIOUS
  <2>2. r.pc = "cup status" /\ r.to = to /\ Request(p, r) /\ UNCHANGED entryTables
    BY <1>1, <2>1 DEF AskStatus
  <2>3. to \in valid_transitions(cup.status)
    BY <1>1 DEF AskStatus
  <2>4. Guarded => to \in Late \/ (scenario.serial /\ cup.status \notin Late)
    <3>1. cup.status \in Late => to \in Late
      BY <2>3 DEF valid_transitions, Late
    <3>2. Guarded => scenario.serial \/ op \notin {"organise", "close"}
      BY <1>1 DEF AskStatus, Allowed, Guarded
    <3>3. "cancelled" \in Late
      BY DEF Late
    <3>4. op \notin {"organise", "close"} => to \in Late
      BY <1>1, <3>3
    <3> QED
      BY <3>1, <3>2, <3>4
  <2> HIDE DEF Late
  <2>5. ~Holding(r) /\ (Guarded => StartJob(r))
    BY <2>2, <2>4 DEF Holding, StartJob, Claimed, Building, TournamentFormat
  <2>6. FreshJob(r)
    BY <2>2 DEF FreshJob, Claimed, Building, TournamentFormat
  <2>7. SeedJob(r)
    BY <2>2 DEF SeedJob
  <2> QED
    BY <1>0, <2>2, <2>5, <2>6, <2>7, RequestTurn
<1>2. CASE \/ PublishTournament(p) \/ OpenRegistration(p) \/ CloseRegistration(p)
           \/ ReopenRegistration(p) \/ CancelTournament(p) \/ CompleteTournament(p)
           \/ FinalizeTournament(p)
  <2>1. ASSUME NEW to, AskStatus(p, "organise", to) \/ AskStatus(p, "close", to) PROVE Agreement'
    BY <1>1, <2>1
  <2>2. AskStatus(p, "cancel", "cancelled") => Agreement'
    BY <1>1
  <2> QED
    BY <1>2, <2>1, <2>2 DEF PublishTournament, OpenRegistration, CloseRegistration, ReopenRegistration,
          CancelTournament, CompleteTournament, FinalizeTournament
<1>3. ASSUME NEW r, IsPlain(r), Request(p, r), UNCHANGED entryTables PROVE Agreement'
  BY <1>0, <1>3, PlainJob, RequestTurn
<1>4. CASE UpdateTournament(p)
  <2>1. PICK m : Request(p, [pc |-> "cup update", max |-> m])
    BY <1>4 DEF UpdateTournament
  <2>2. IsPlain([pc |-> "cup update", max |-> m])
    BY DEF IsPlain, Plain
  <2> QED
    BY <1>3, <1>4, <2>1, <2>2 DEF UpdateTournament
<1>5. CASE CreateStage(p) \/ DeleteTournament(p)
  <2>1. IsPlain([pc |-> "cup stage"]) /\ IsPlain([pc |-> "cup delete"])
    BY DEF IsPlain, Plain
  <2> QED
    BY <1>3, <1>5, <2>1 DEF CreateStage, DeleteTournament
<1>6. CASE MoveTournament(p)
  <2>1. PICK l : Request(p, [pc |-> "cup move", league |-> l])
    BY <1>6 DEF MoveTournament
  <2>2. PICK r : r = [pc |-> "cup move", league |-> l]
    OBVIOUS
  <2>3. r.pc = "cup move" /\ Request(p, r) /\ UNCHANGED entryTables
    BY <1>6, <2>1, <2>2 DEF MoveTournament
  <2>4. Slots(entries) = {}
    <3>1. IsFiniteSet(Slots(entries))
      BY TournamentEntryAssumption, FS_Subset DEF Slots
    <3> QED
      BY <1>6, <3>1, FS_EmptySet DEF MoveTournament, count_registrations
  <2>5. ~Holding(r) /\ StartJob(r)
    BY <2>3 DEF Holding, StartJob, Claimed, Building, TournamentFormat
  <2>6. FreshJob(r)
    BY <2>3, <2>4 DEF FreshJob, Claimed, Building, TournamentFormat
  <2>7. SeedJob(r)
    BY <2>3 DEF SeedJob
  <2> QED
    BY <1>0, <2>3, <2>5, <2>6, <2>7, RequestTurn
<1>7. CASE StartTournament(p)
  <2>1. PICK field : field = IF RequiresCheckIn THEN list_checked_in ELSE list_seeded
    OBVIOUS
  <2>2. PICK n : n = requests + 1
    OBVIOUS
  <2>3. PICK r : r = [pc |-> "start claim", field |-> field, build |-> n]
    OBVIOUS
  <2>4. r.pc = "start claim" /\ r.field = field /\ Request(p, r) /\ UNCHANGED entryTables
    BY <1>7, <2>1, <2>2, <2>3 DEF StartTournament
  <2>5. field \subseteq list_seeded
    BY <2>1 DEF list_checked_in, list_seeded
  <2>6. ~Holding(r) /\ StartJob(r)
    BY <2>4 DEF Holding, StartJob, Claimed, Building, TournamentFormat
  <2> HIDE DEF list_seeded
  <2>7. FreshJob(r)
    BY <2>4, <2>5 DEF FreshJob, Claimed, Building, TournamentFormat
  <2>8. SeedJob(r)
    BY <2>4 DEF SeedJob
  <2> QED
    BY <1>0, <2>4, <2>6, <2>7, <2>8, RequestTurn
<1> QED
  BY <1>2, <1>4, <1>5, <1>6, <1>7

\* The writes of the tournament's own row, of a stage and of a forfeit.
LEMMA CupAgrees ==
    ASSUME EntryTypes, Agreement, NEW p \in Users, req[p] # NoRequest,
           \/ WriteStatus(p) \/ WriteUpdate(p) \/ WriteMove(p) \/ WriteDelete(p) \/ WriteStage(p)
           \/ MarkStarted(p) \/ ActivateStage(p) \/ ForfeitMatches(p)
    PROVE  Agreement'
<1>0. p \in Tasks /\ EntryJob(req[p]) /\ cup \in TournamentRow
  BY DEF Tasks, EntryTypes, EntryTables, EntryTypeOK
<1>1. ~Holding(NoRequest) /\ StartJob(NoRequest)' /\ FreshJob(NoRequest)' /\ SeedJob(NoRequest)'
  <2>1. IsPlain(NoRequest)
    BY DEF IsPlain, Plain, NoRequest
  <2> QED
    BY <2>1, PlainJob
<1>2. CASE WriteStatus(p)
  <2>1. /\ Moves(p, NoRequest) /\ UNCHANGED <<entries, brackets, forfeits>>
        /\ req[p].pc = "cup status" /\ (cup.status = "deleted" => cup' = cup)
        /\ cup.status # "deleted" => cup' = [cup EXCEPT !.status = req[p].to]
    BY <1>2 DEF WriteStatus, Finish, Moves, At, UpdateCup
  <2>2. cup'.league = cup.league
    BY <1>0, <2>1 DEF TournamentRow
  <2>3. cup.status # "deleted" => cup'.status = req[p].to
    BY <1>0, <2>1 DEF TournamentRow
  <2>4. Guarded /\ cup.status \in Late => req[p].to \in Late
    BY <1>0, <2>1 DEF Agreement, StartIsClaimed, StartJob
  <2>5. CASE cup.status \in Late => cup'.status \in Late
    BY <1>0, <1>1, <2>1, <2>2, <2>5, TablesTurn
  <2>6. CASE ~Guarded
    <3>1. StartIsClaimed'
      BY <1>0, <2>1, <2>6, MoveFacts DEF Agreement, StartIsClaimed, Guarded
    <3>2. ~Alone
      BY <2>6 DEF Guarded, Alone
    <3>3. OneAtATime' /\ EntriesAgree'
      BY <1>0, <2>1, <3>2, MoveFacts, EntriesTurn DEF Agreement
    <3>4. SeedsAgree'
      BY <1>0, <1>1, <2>1, SeedsKept DEF Agreement
    <3> QED
      BY <3>1, <3>3, <3>4 DEF Agreement
  <2> QED
    BY <2>1, <2>3, <2>4, <2>5, <2>6
<1>3. CASE WriteUpdate(p) \/ WriteStage(p) \/ WriteDelete(p) \/ MarkStarted(p)
  <2>1. /\ Moves(p, NoRequest) /\ UNCHANGED <<entries, brackets, forfeits>>
        /\ req[p].pc \in {"cup update", "cup stage", "cup delete", "start mark"}
    BY <1>3 DEF WriteUpdate, WriteStage, WriteDelete, MarkStarted, Finish, Moves, At
  <2>2. cup'.league = cup.league /\ (cup.status \in Late => cup'.status \in Late)
    BY <1>0, <1>3 DEF WriteUpdate, WriteStage, WriteDelete, MarkStarted, UpdateCup, TournamentRow, Late
  <2> HIDE DEF Late
  <2> QED
    BY <1>0, <1>1, <2>1, <2>2, TablesTurn
<1>4. CASE WriteMove(p)
  <2>1. /\ Moves(p, NoRequest) /\ UNCHANGED <<entries, brackets, forfeits>> /\ req[p].pc = "cup move"
        /\ cup' = cup \/ cup' = [cup EXCEPT !.league = req[p].league]
    BY <1>4 DEF WriteMove, Finish, Moves, At, UpdateCup
  <2>2. cup'.status = cup.status
    BY <1>0, <2>1 DEF TournamentRow
  <2>3. Alone => Slots(entries) = {}
    BY <1>0, <2>1 DEF Agreement, EntriesAgree, FreshJob
  <2>4. OneAtATime' /\ StartIsClaimed'
    BY <1>0, <1>1, <2>1, <2>2, MoveFacts, StartTurn DEF Agreement
  <2>5. EntriesAgree'
    <3>1. ASSUME Alone PROVE LeaguesAgree' /\ SeatsAgree'
      <4>1. LeaguesAgree'
        BY <2>1, <2>3, <3>1 DEF LeaguesAgree, Slots
      <4>2. SeatsAgree'
        BY <1>0, <2>1, <3>1, SeatsKept DEF Agreement, EntriesAgree
      <4> QED
        BY <4>1, <4>2
    <3> QED
      BY <1>0, <1>1, <2>1, <3>1, EntriesTurn DEF Agreement
  <2>6. SeedsAgree'
    BY <1>0, <1>1, <2>1, SeedsKept DEF Agreement
  <2> QED
    BY <2>4, <2>5, <2>6 DEF Agreement
<1>5. CASE ActivateStage(p)
  <2>1. IsPlain([pc |-> "start mark"])
    BY DEF IsPlain, Plain
  <2>2. PICK r : r = [pc |-> "start mark"]
    OBVIOUS
  <2>3. Moves(p, r) /\ UNCHANGED <<cup, entries, brackets, forfeits>> /\ req[p].pc = "start active"
    BY <1>5, <2>2 DEF ActivateStage, Moves, At
  <2>4. ~Holding(r) /\ StartJob(r)' /\ FreshJob(r)' /\ SeedJob(r)'
    BY <2>1, <2>2, PlainJob
  <2> QED
    BY <1>0, <2>3, <2>4, TablesTurn
<1>6. CASE ForfeitMatches(p)
  <2>1. PICK e : e = req[p].entrant
    OBVIOUS
  <2>2. /\ Moves(p, NoRequest) /\ UNCHANGED <<cup, entries, brackets>> /\ req[p].pc = "entry matches"
        /\ forfeits' = IF find_pending_matches(e) THEN forfeits \cup {e} ELSE forfeits
    BY <1>6, <2>1 DEF ForfeitMatches, Finish, Moves, At
  <2>3. OneAtATime' /\ StartIsClaimed'
    BY <1>0, <1>1, <2>2, MoveFacts, StartTurn DEF Agreement
  <2>4. EntriesAgree'
    <3>1. ASSUME Alone PROVE LeaguesAgree' /\ SeatsAgree'
      <4>1. LeaguesAgree /\ SeatsAgree
        BY <3>1 DEF Agreement, EntriesAgree
      <4>2. LeaguesAgree'
        BY <2>2, <4>1 DEF LeaguesAgree, Slots
      <4>3. crashes' = crashes /\ \A q \in Tasks : q # p => req[q] = NoRequest
        BY <1>0, <2>2, <3>1, MoveFacts DEF Alone, Agreement
      <4>4. NoRequest.pc = "idle"
        BY DEF NoRequest
      <4>5. \A x : Leaving(x) => x = e
        BY <2>1, <4>3, <4>4 DEF Leaving
      <4>6. ASSUME NEW x \in Entrants, NEW i \in DOMAIN brackets, x \in brackets[i].seated
            PROVE  /\ entries'[x].status # "pending"
                   /\ entries'[x].status = "withdrawn" /\ crashes' = 0 => x \in forfeits'
        <5>1. x = e => find_pending_matches(e)
          BY <4>6 DEF find_pending_matches
        <5> QED
          BY <2>2, <4>1, <4>3, <4>5, <4>6, <5>1 DEF SeatsAgree
      <4>7. SeatsAgree'
        BY <2>2, <4>6 DEF SeatsAgree
      <4> QED
        BY <4>2, <4>7
    <3> QED
      BY <1>0, <1>1, <2>2, <3>1, EntriesTurn DEF Agreement
  <2>5. SeedsAgree'
    BY <1>0, <1>1, <2>2, SeedsKept DEF Agreement
  <2> QED
    BY <2>3, <2>4, <2>5 DEF Agreement
<1> QED
  BY <1>2, <1>3, <1>4, <1>5, <1>6

\* What the write of one registration may do to its place, its seat and its seed.
PlaceKept(e, row) ==
    \/ row.status \in {"none", "withdrawn", "disqualified"}
    \/ row.league = cup.league
    \/ e \in Slots(entries) /\ row.league = entries[e].league
SeatKept(e, row, r) ==
    \/ row.status = entries[e].status
    \/ row.status \notin {"pending", "withdrawn"}
    \/ row.status = "withdrawn" /\ r.pc = "entry matches" /\ r.entrant = e
    \/ \A i \in DOMAIN brackets : e \notin brackets[i].seated
SeedKept(e, row) ==
    \/ row.status = entries[e].status /\ row.seed \in {entries[e].seed, 0}
    \/ row.seed = 0 /\ row.status # "checked_in"
    \/ row.status \notin {"checked_in", "approved", "active", "pending"}

\* A step that writes one registration.
LEMMA RowTurn ==
    ASSUME EntryTypes, Agreement, NEW p \in Tasks, NEW r, Moves(p, r),
           UNCHANGED <<cup, brackets, forfeits>>, NEW e \in Entrants, NEW row,
           entries' = entries \/ entries' = [entries EXCEPT ![e] = row],
           req[p].pc \notin {"entry matches", "entry seed"},
           ~Holding(r), StartJob(r)', Alone => FreshJob(r)', SeedScope => SeedJob(r)',
           Alone => PlaceKept(e, row) /\ SeatKept(e, row, r), SeedScope => SeedKept(e, row)
    PROVE  Agreement'
<1>1. OneAtATime' /\ StartIsClaimed'
  BY MoveFacts, StartTurn DEF Agreement
<1>2. \A x \in Entrants : entries'[x] = entries[x] \/ (x = e /\ entries'[x] = row)
  BY DEF EntryTypes, EntryTables
<1>3. ASSUME Alone PROVE LeaguesAgree' /\ SeatsAgree'
  <2>1. LeaguesAgree /\ SeatsAgree
    BY <1>3 DEF Agreement, EntriesAgree
  <2>2. LeaguesAgree'
    <3>1. \A x \in Entrants : \/ entries'[x].status \in {"none", "withdrawn", "disqualified"}
                              \/ entries'[x].league = cup.league
                              \/ x \in Slots(entries) /\ entries'[x].league = entries[x].league
      <4>1. \A x \in Entrants : x \in Slots(entries) \/ entries[x].status \in {"none", "withdrawn", "disqualified"}
        BY DEF Slots
      <4>2. PlaceKept(e, row)
        BY <1>3
      <4>3. ASSUME NEW x \in Entrants
            PROVE  \/ entries'[x].status \in {"none", "withdrawn", "disqualified"}
                   \/ entries'[x].league = cup.league
                   \/ x \in Slots(entries) /\ entries'[x].league = entries[x].league
        <5>1. CASE entries'[x] = entries[x]
          BY <4>1, <5>1
        <5>2. CASE x = e /\ entries'[x] = row
          BY <4>2, <5>2 DEF PlaceKept
        <5> QED
          BY <1>2, <5>1, <5>2
      <4> QED
        BY <4>3
    <3> QED
      BY <2>1, <3>1, LeaguesKept
  <2>3. SeatsAgree'
    <3>1. SeatKept(e, row, r)
      BY <1>3
    <3>2. \A x \in Entrants :
               \/ entries'[x].status = entries[x].status
               \/ entries'[x].status \notin {"pending", "withdrawn"}
               \/ entries'[x].status = "withdrawn" /\ r.pc = "entry matches" /\ r.entrant = x
               \/ \A i \in DOMAIN brackets : x \notin brackets[i].seated
      BY <1>2, <3>1 DEF SeatKept
    <3> QED
      BY <1>3, <2>1, <3>2, SeatsKept DEF Agreement
  <2> QED
    BY <2>2, <2>3
<1>4. EntriesAgree'
  BY <1>3, EntriesTurn DEF Agreement
<1>5. SeedsAgree'
  <2>1. SeedScope => \A x \in Entrants :
            \/ /\ entries'[x].status = entries[x].status
               /\ entries'[x].seed \in {entries[x].seed, 0}
            \/ entries'[x].seed = 0 /\ entries'[x].status # "checked_in"
            \/ entries'[x].status \notin {"checked_in", "approved", "active", "pending"}
    <3> SUFFICES ASSUME SeedScope, NEW x \in Entrants
                 PROVE  \/ /\ entries'[x].status = entries[x].status
                           /\ entries'[x].seed \in {entries[x].seed, 0}
                        \/ entries'[x].seed = 0 /\ entries'[x].status # "checked_in"
                        \/ entries'[x].status \notin {"checked_in", "approved", "active", "pending"}
      OBVIOUS
    <3>1. CASE entries'[x] = entries[x]
      BY <3>1
    <3>2. CASE x = e /\ entries'[x] = row
      <4>1. SeedKept(e, row)
        OBVIOUS
      <4> QED
        BY <3>2, <4>1 DEF SeedKept
    <3> QED
      BY <1>2, <3>1, <3>2
  <2> QED
    BY <2>1, SeedsKept DEF Agreement
<1> QED
  BY <1>1, <1>4, <1>5 DEF Agreement

\* A registration whose status is written: what stays as it was.
LEMMA StatusWritten ==
    ASSUME NEW row \in TournamentRegistrationRow, NEW s
    PROVE  /\ [row EXCEPT !.status = s].status = s
           /\ [row EXCEPT !.status = s].league = row.league
           /\ [row EXCEPT !.status = s].seed = row.seed
           /\ [row EXCEPT !.status = s].id = row.id
BY DEF TournamentRegistrationRow

\* Nobody sits in a bracket while the registration is open, nor while admission is awaited.
LEMMA Unseated ==
    ASSUME Agreement, Alone, NEW e \in Entrants,
           cup.status \notin Late \/ entries[e].status = "pending"
    PROVE  \A i \in DOMAIN brackets : e \notin brackets[i].seated
<1>1. CASE entries[e].status = "pending"
  BY <1>1 DEF Agreement, EntriesAgree, SeatsAgree
<1>2. CASE cup.status \notin Late
  <2>1. brackets = <<>>
    BY <1>2 DEF Agreement, StartIsClaimed, Alone, Guarded
  <2> QED
    BY <2>1
<1> QED
  BY <1>1, <1>2

\* The writes of one registration.
LEMMA OneEntryAgrees ==
    ASSUME EntryTypes, Agreement, NEW p \in Users, req[p] # NoRequest,
           \/ WriteApproved(p) \/ WriteRejected(p) \/ WriteDisqualified(p)
           \/ WriteLeft(p) \/ WriteAdmitted(p) \/ WriteCheckedIn(p)
    PROVE  Agreement'
<1>0. p \in Tasks /\ EntryJob(req[p]) /\ EntryTables
  BY DEF Tasks, EntryTypes
<1>1. req[p].pc \in OneEntry
  BY DEF WriteApproved, WriteRejected, WriteDisqualified, WriteLeft, WriteAdmitted, WriteCheckedIn,
         At, OneEntry
<1>a. req[p].entrant \in Entered
      /\ req[p] \in [pc : {req[p].pc}, entrant : {req[p].entrant}, id : {req[p].id}]
  BY <1>0, <1>1 DEF EntryJob
<1>b. PICK e \in Entered : req[p].entrant = e
  BY <1>a
<1>c. PICK id : req[p].id = id
  OBVIOUS
<1>2. /\ req[p].entrant = e /\ req[p].id = id
      /\ req[p] \in [pc : {req[p].pc}, entrant : {e}, id : {id}]
  BY <1>a, <1>b, <1>c
<1>3. e \in Entrants /\ HasEntry(e) /\ entries[e] \in TournamentRegistrationRow
  BY <1>0, <1>2, RowOfEntered
<1>4. UNCHANGED <<cup, brackets, forfeits>>
  BY DEF WriteApproved, WriteRejected, WriteDisqualified, WriteLeft, WriteAdmitted, WriteCheckedIn
<1>5. req[p].pc \notin {"entry matches", "entry seed"}
  BY <1>1 DEF OneEntry
<1>6. /\ Alone => FreshJob(req[p]) /\ LeaguesAgree
      /\ SeedScope => SeedJob(req[p]) /\ \A x \in With("pending") : entries[x].seed = 0
  BY <1>0 DEF Agreement, EntriesAgree, SeedsAgree, SeedScope
<1>n. ~Holding(NoRequest) /\ StartJob(NoRequest)' /\ FreshJob(NoRequest)' /\ SeedJob(NoRequest)'
  <2>1. IsPlain(NoRequest)
    BY DEF IsPlain, Plain, NoRequest
  <2> QED
    BY <2>1, PlainJob
<1> DEFINE written(s) == [entries[e] EXCEPT !.status = s]
<1>w. \A s : /\ written(s).status = s /\ written(s).league = entries[e].league
             /\ written(s).seed = entries[e].seed
  BY <1>3, StatusWritten
<1>p. ASSUME Alone, e \in With("pending")
      PROVE  entries[e].status = "pending" /\ e \in Slots(entries)
             /\ \A i \in DOMAIN brackets : e \notin brackets[i].seated
  BY <1>3, <1>p, Unseated DEF With, Slots
<1>7. CASE WriteApproved(p)
  <2>1. Moves(p, NoRequest) /\ req[p].pc = "entry approve"
        /\ (entries' = entries \/ entries' = [entries EXCEPT ![e] = written("approved")])
    BY <1>0, <1>2, <1>3, <1>7
       DEF WriteApproved, update_status_with_capacity_check, At, Finish, Moves, EntryTables
  <2>2. Alone => e \in With("pending")
    BY <1>2, <1>6, <2>1 DEF FreshJob
  <2>3. PICK row : row = written("approved")
    OBVIOUS
  <2>4. row.status = "approved" /\ row.league = entries[e].league /\ row.seed = entries[e].seed
    BY <1>w, <2>3
  <2>5. Alone => PlaceKept(e, row) /\ SeatKept(e, row, NoRequest)
    BY <1>p, <2>2, <2>4 DEF PlaceKept, SeatKept
  <2>6. SeedScope => SeedKept(e, row)
    BY <1>6, <2>2, <2>4 DEF SeedKept, SeedScope
  <2> QED
    BY <1>0, <1>3, <1>4, <1>5, <1>n, <2>1, <2>3, <2>5, <2>6, RowTurn
<1>8. CASE WriteRejected(p)
  <2>1. Moves(p, NoRequest) /\ req[p].pc = "entry reject"
        /\ (entries' = entries \/ entries' = [entries EXCEPT ![e] = written("withdrawn")])
    BY <1>2, <1>8 DEF WriteRejected, update_status, UpdateEntry, At, Finish, Moves
  <2>2. Alone => e \in With("pending")
    BY <1>2, <1>6, <2>1 DEF FreshJob
  <2>3. PICK row : row = written("withdrawn")
    OBVIOUS
  <2>4. row.status = "withdrawn"
    BY <1>w, <2>3
  <2>5. Alone => PlaceKept(e, row) /\ SeatKept(e, row, NoRequest)
    BY <1>p, <2>2, <2>4 DEF PlaceKept, SeatKept
  <2>6. SeedKept(e, row)
    BY <2>4 DEF SeedKept
  <2> QED
    BY <1>0, <1>3, <1>4, <1>5, <1>n, <2>1, <2>3, <2>5, <2>6, RowTurn
<1>9. ASSUME NEW r, Moves(p, r), IsPlain(r),
             entries' = entries \/ entries' = [entries EXCEPT ![e] = written("disqualified")]
      PROVE  Agreement'
  <2>3. PICK row : row = written("disqualified")
    OBVIOUS
  <2>4. row.status = "disqualified"
    BY <1>w, <2>3
  <2>5. PlaceKept(e, row) /\ SeatKept(e, row, r)
    BY <2>4 DEF PlaceKept, SeatKept
  <2>6. SeedKept(e, row)
    BY <2>4 DEF SeedKept
  <2>7. ~Holding(r) /\ StartJob(r)' /\ FreshJob(r)' /\ SeedJob(r)'
    BY <1>9, PlainJob
  <2> QED
    BY <1>0, <1>3, <1>4, <1>5, <1>9, <2>3, <2>5, <2>6, <2>7, RowTurn
<1>10. CASE WriteDisqualified(p)
  <2>1. Moves(p, NoRequest)
        /\ (entries' = entries \/ entries' = [entries EXCEPT ![e] = written("disqualified")])
    BY <1>2, <1>10 DEF WriteDisqualified, update_status, UpdateEntry, Finish, Moves
  <2>2. IsPlain(NoRequest)
    BY DEF IsPlain, Plain, NoRequest
  <2> QED
    BY <1>9, <2>1, <2>2
<1>11. CASE WriteLeft(p)
  <2>1. PICK r : r = [pc |-> "entry matches", entrant |-> e]
    OBVIOUS
  <2>2. IsPlain(r) /\ r.pc = "entry matches" /\ r.entrant = e
    BY <2>1 DEF IsPlain, Plain
  <2>3. IsPlain(NoRequest)
    BY DEF IsPlain, Plain, NoRequest
  <2>4. \/ Moves(p, NoRequest) /\ entries[e].id # id
        \/ Moves(p, r) /\ entries[e].id = id
    BY <1>2, <1>11, <2>1 DEF WriteLeft, Finish, Moves
  <2>5. \/ update_status(e, id, "withdrawn")
        \/ update_status(e, id, "disqualified")
    BY <1>2, <1>11 DEF WriteLeft
  <2>6. CASE update_status(e, id, "disqualified")
    BY <1>9, <2>2, <2>3, <2>4, <2>6 DEF update_status, UpdateEntry
  <2>7. CASE entries[e].id # id
    BY <1>9, <2>3, <2>4, <2>5, <2>7 DEF update_status, UpdateEntry
  <2>8. CASE update_status(e, id, "withdrawn") /\ entries[e].id = id
    <3>1. Moves(p, r) /\ entries' = [entries EXCEPT ![e] = written("withdrawn")]
      BY <2>4, <2>8 DEF update_status, UpdateEntry
    <3>3. PICK row : row = written("withdrawn")
      OBVIOUS
    <3>4. row.status = "withdrawn"
      BY <1>w, <3>3
    <3>5. PlaceKept(e, row) /\ SeatKept(e, row, r)
      BY <2>2, <3>4 DEF PlaceKept, SeatKept
    <3>6. SeedKept(e, row)
      BY <3>4 DEF SeedKept
    <3>7. ~Holding(r) /\ StartJob(r)' /\ FreshJob(r)' /\ SeedJob(r)'
      BY <2>2, PlainJob
    <3> QED
      BY <1>0, <1>3, <1>4, <1>5, <3>1, <3>3, <3>5, <3>6, <3>7, RowTurn
  <2> QED
    BY <2>5, <2>6, <2>7, <2>8
<1>12. CASE WriteAdmitted(p)
  <2>1. PICK r : r = [req[p] EXCEPT !.pc = "entry check in"]
    OBVIOUS
  <2>2. r \in [pc : {"entry check in"}, entrant : {e}, id : {id}]
    BY <1>2, <2>1
  <2>3. r.pc = "entry check in"
    BY <2>2
  <2>4. Moves(p, r) /\ req[p].pc = "entry admit"
        /\ (entries' = entries \/ entries' = [entries EXCEPT ![e] = written("approved")])
    BY <1>2, <1>12, <2>1 DEF WriteAdmitted, update_status, UpdateEntry, At, Moves
  <2>5. ~SeedScope
    BY <1>6, <2>4 DEF SeedJob
  <2>6. Alone => e \in With("pending")
    BY <1>2, <1>6, <2>4 DEF FreshJob
  <2>7. PICK row : row = written("approved")
    OBVIOUS
  <2>8. row.status = "approved" /\ row.league = entries[e].league
    BY <1>w, <2>7
  <2>9. Alone => PlaceKept(e, row) /\ SeatKept(e, row, r)
    BY <1>p, <2>6, <2>8 DEF PlaceKept, SeatKept
  <2>10. ~Holding(r) /\ StartJob(r)' /\ FreshJob(r)'
    BY <2>3 DEF Holding, StartJob, FreshJob, Claimed, Building, TournamentFormat
  <2> QED
    BY <1>0, <1>3, <1>4, <1>5, <2>4, <2>5, <2>7, <2>9, <2>10, RowTurn
<1>13. CASE WriteCheckedIn(p)
  <2>1. PICK row : row = IF entries[e].status = "approved"
                         THEN [entries[e] EXCEPT !.status = "checked_in", !.checked_in = TRUE]
                         ELSE entries[e]
    OBVIOUS
  <2>2. Moves(p, NoRequest) /\ req[p].pc = "entry check in"
        /\ (entries' = entries \/ entries' = [entries EXCEPT ![e] = row])
    BY <1>2, <1>13, <2>1 DEF WriteCheckedIn, check_in, UpdateEntry, At, Finish, Moves
  <2>3. ~SeedScope
    BY <1>6, <2>2 DEF SeedJob
  <2>4. \/ row = entries[e]
        \/ entries[e].status = "approved" /\ row.status = "checked_in" /\ row.league = entries[e].league
    BY <1>3, <2>1 DEF TournamentRegistrationRow
  <2>5. PlaceKept(e, row) /\ SeatKept(e, row, NoRequest)
    <3>1. CASE row = entries[e]
      BY <1>3, <3>1 DEF PlaceKept, SeatKept, Slots
    <3>2. CASE entries[e].status = "approved" /\ row.status = "checked_in" /\ row.league = entries[e].league
      BY <1>3, <3>2 DEF PlaceKept, SeatKept, Slots
    <3> QED
      BY <2>4, <3>1, <3>2
  <2> QED
    BY <1>0, <1>3, <1>4, <1>5, <1>n, <2>2, <2>3, <2>5, RowTurn
<1> QED
  BY <1>7, <1>8, <1>10, <1>11, <1>12, <1>13

\* The insert, and the first of the registrations a request lists.
LEMMA EnteringAgrees ==
    ASSUME EntryTypes, Agreement, NEW p \in Users, req[p] # NoRequest,
           InsertEntry(p) \/ WriteNoShow(p)
    PROVE  Agreement'
<1>0. p \in Tasks /\ EntryTables
  BY DEF Tasks, EntryTypes
<1>j. PICK j : j = req[p]
  OBVIOUS
<1>k. EntryJob(j) /\ (Alone => FreshJob(j)) /\ (SeedScope => SeedJob(j))
  BY <1>0, <1>j DEF EntryTypes, Agreement, EntriesAgree, SeedsAgree
<1>n. ~Holding(NoRequest) /\ StartJob(NoRequest)' /\ FreshJob(NoRequest)' /\ SeedJob(NoRequest)'
  <2>1. IsPlain(NoRequest)
    BY DEF IsPlain, Plain, NoRequest
  <2> QED
    BY <2>1, PlainJob
<1>1. UNCHANGED <<cup, brackets, forfeits>>
  BY DEF InsertEntry, WriteNoShow
<1>2. CASE InsertEntry(p)
  <2>0. j.pc = "entry insert"
    BY <1>2, <1>j DEF InsertEntry, At
  <2>1. PICK e \in Entrants : e = j.entrant
    BY <1>k, <2>0 DEF EntryJob
  <2>2. PICK row : row = Entry(entries[e].id + 1, initial_registration_status, j.league)
    OBVIOUS
  <2>3. entries' = entries \/ entries' = [entries EXCEPT ![e] = row]
    BY <1>2, <1>j, <2>1, <2>2 DEF InsertEntry, create_with_capacity_check
  <2>4. row.status \in {"approved", "pending"} /\ row.seed = 0 /\ row.league = j.league
    BY <2>2 DEF Entry, initial_registration_status
  <2>5. ASSUME Alone PROVE row.league = cup.league /\ \A i \in DOMAIN brackets : e \notin brackets[i].seated
    <3>1. j.league = cup.league /\ cup.status = "registration"
      BY <1>k, <2>0, <2>5 DEF FreshJob
    <3>2. cup.status \notin Late
      BY <3>1 DEF Late
    <3> QED
      BY <2>4, <2>5, <3>1, <3>2, Unseated
  <2>6. PICK r : r = [pc |-> "entry accept", entrant |-> e, invite |-> j.invite]
    OBVIOUS
  <2>7. ASSUME NEW x PROVE Alone => PlaceKept(e, row) /\ SeatKept(e, row, x)
    BY <2>5 DEF PlaceKept, SeatKept
  <2>8. SeedKept(e, row)
    BY <2>4 DEF SeedKept
  <2>9. IsPlain(r) /\ j.pc \notin {"entry matches", "entry seed"}
    BY <2>0, <2>6 DEF IsPlain, Plain
  <2>10. ~Holding(r) /\ StartJob(r)' /\ FreshJob(r)' /\ SeedJob(r)'
    BY <2>9, PlainJob
  <2>11. Moves(p, NoRequest) \/ Moves(p, r)
    BY <1>2, <1>j, <2>1, <2>6 DEF InsertEntry, Finish, Moves
  <2>12. CASE Moves(p, NoRequest)
    BY <1>0, <1>1, <1>j, <1>n, <2>3, <2>7, <2>8, <2>9, <2>12, RowTurn
  <2>13. CASE Moves(p, r)
    BY <1>0, <1>1, <1>j, <2>3, <2>7, <2>8, <2>9, <2>10, <2>13, RowTurn
  <2> QED
    BY <2>11, <2>12, <2>13
<1>3. CASE WriteNoShow(p)
  <2>0. j.pc = "entry no show"
    BY <1>3, <1>j DEF WriteNoShow, At
  <2>1. j.left \subseteq Entered /\ j \in [pc : {"entry no show"}, left : {j.left}, ids : {j.ids}]
    BY <1>k, <2>0 DEF EntryJob
  <2>2. PICK e \in j.left :
          /\ update_status(e, j.ids[e], "no_show")
          /\ \/ Finish(p)
             \/ Continue(p, [j EXCEPT !.left = @ \ {e}])
    BY <1>3, <1>j DEF WriteNoShow
  <2>3. e \in Entrants /\ HasEntry(e) /\ entries[e] \in TournamentRegistrationRow
    BY <1>0, <2>1, RowOfEntered
  <2>4. PICK row : row = [entries[e] EXCEPT !.status = "no_show"]
    OBVIOUS
  <2>5. row.status = "no_show" /\ row.league = entries[e].league
    BY <2>3, <2>4, StatusWritten
  <2>6. entries' = entries \/ entries' = [entries EXCEPT ![e] = row]
    BY <2>2, <2>4 DEF update_status, UpdateEntry
  <2>7. ~SeedScope
    BY <1>k, <2>0 DEF SeedJob
  <2>8. Alone => j.left \subseteq With("approved")
    BY <1>k, <2>0 DEF FreshJob
  <2>9. ASSUME NEW x PROVE Alone => PlaceKept(e, row) /\ SeatKept(e, row, x)
    BY <2>5, <2>8 DEF PlaceKept, SeatKept, With, Slots
  <2>10. PICK r : r = [j EXCEPT !.left = @ \ {e}]
    OBVIOUS
  <2>11. r \in [pc : {"entry no show"}, left : {j.left \ {e}}, ids : {j.ids}]
    BY <2>1, <2>10
  <2>12. r.pc = "entry no show" /\ r.left = j.left \ {e}
    BY <2>11
  <2>14. ~Holding(r) /\ StartJob(r)'
    BY <2>12 DEF Holding, StartJob, Claimed, Building, TournamentFormat
  <2>15. Alone => FreshJob(r)'
    <3>1. Alone => j.left \ {e} \subseteq With("approved")'
      BY <2>6, <2>8 DEF With, EntryTypes, EntryTables
    <3> HIDE DEF With
    <3> QED
      BY <2>12, <3>1 DEF FreshJob, Claimed, Building, TournamentFormat
  <2>16. Moves(p, NoRequest) \/ Moves(p, r)
    BY <2>2, <2>10 DEF Finish, Moves
  <2>17. j.pc \notin {"entry matches", "entry seed"}
    BY <2>0
  <2>18. CASE Moves(p, NoRequest)
    BY <1>0, <1>1, <1>j, <1>n, <2>3, <2>6, <2>7, <2>9, <2>17, <2>18, RowTurn
  <2>19. CASE Moves(p, r)
    BY <1>0, <1>1, <1>j, <2>3, <2>6, <2>7, <2>9, <2>14, <2>15, <2>17, <2>19, RowTurn
  <2> QED
    BY <2>16, <2>18, <2>19
<1> QED
  BY <1>2, <1>3

\* Seeding writes one seed after the other.
LEMMA SeedingAgrees ==
    ASSUME EntryTypes, Agreement, NEW p \in Users, req[p] # NoRequest, WriteSeed(p)
    PROVE  Agreement'
<1>0. p \in Tasks /\ EntryTables
  BY DEF Tasks, EntryTypes
<1>j. PICK j : j = req[p]
  OBVIOUS
<1>k. EntryJob(j) /\ (SeedScope => SeedJob(j))
  BY <1>0, <1>j DEF EntryTypes, Agreement, EntriesAgree, SeedsAgree
<1>n. ~Holding(NoRequest) /\ StartJob(NoRequest)' /\ FreshJob(NoRequest)' /\ SeedJob(NoRequest)'
  <2>1. IsPlain(NoRequest)
    BY DEF IsPlain, Plain, NoRequest
  <2> QED
    BY <2>1, PlainJob
<1>1. UNCHANGED <<cup, brackets, forfeits>>
  BY DEF WriteSeed
<1>2. j.pc = "entry seed"
  BY <1>j DEF WriteSeed, At
<1>3. /\ j.left \subseteq Entered
      /\ j \in [pc : {"entry seed"}, seeds : {j.seeds}, left : {j.left}, ids : {j.ids}]
  BY <1>k, <1>2 DEF EntryJob
<1>4. PICK e \in j.left :
        /\ UpdateEntry(e, j.ids[e], [entries[e] EXCEPT !.seed = j.seeds[e]])
        /\ IF j.left = {e} \/ entries[e].id # j.ids[e] THEN Finish(p)
           ELSE Continue(p, [j EXCEPT !.left = @ \ {e}])
  BY <1>j DEF WriteSeed
<1>5. e \in Entrants /\ HasEntry(e) /\ entries[e] \in TournamentRegistrationRow
  BY <1>0, <1>3, RowOfEntered
<1>6. PICK row : row = [entries[e] EXCEPT !.seed = j.seeds[e]]
  OBVIOUS
<1>7. /\ row.status = entries[e].status /\ row.league = entries[e].league /\ row.id = entries[e].id
      /\ row.seed = j.seeds[e]
  BY <1>5, <1>6 DEF TournamentRegistrationRow
<1>8. entries' = IF entries[e].id = j.ids[e] THEN [entries EXCEPT ![e] = row] ELSE entries
  BY <1>4, <1>6 DEF UpdateEntry
<1>9. /\ \A x \in Entrants : x # e => entries'[x] = entries[x]
      /\ entries'[e] = entries[e] \/ entries'[e] = row
      /\ entries[e].id = j.ids[e] => entries'[e] = row
  BY <1>0, <1>5, <1>8 DEF EntryTables
<1>10. \A x \in Entrants : /\ entries'[x].status = entries[x].status
                           /\ entries'[x].league = entries[x].league
                           /\ entries'[x].id = entries[x].id
  BY <1>7, <1>9
<1>11. PICK r : r = [j EXCEPT !.left = @ \ {e}]
  OBVIOUS
<1>12. r \in [pc : {"entry seed"}, seeds : {j.seeds}, left : {j.left \ {e}}, ids : {j.ids}]
  BY <1>3, <1>11
<1>13. r.pc = "entry seed" /\ r.seeds = j.seeds /\ r.left = j.left \ {e} /\ r.ids = j.ids
  BY <1>12
<1>14. ~Holding(r) /\ StartJob(r)' /\ FreshJob(r)'
  BY <1>13 DEF Holding, StartJob, FreshJob, Claimed, Building, TournamentFormat
<1>15. \/ Moves(p, NoRequest) /\ (j.left = {e} \/ entries[e].id # j.ids[e])
       \/ Moves(p, r)
  BY <1>4, <1>11 DEF Finish, Moves
<1>16. PICK n : /\ Moves(p, n) /\ ~Holding(n) /\ StartJob(n)' /\ FreshJob(n)'
                /\ \/ n = NoRequest /\ (j.left = {e} \/ entries[e].id # j.ids[e])
                   \/ n = r
  BY <1>n, <1>14, <1>15
<1>17. OneAtATime' /\ StartIsClaimed'
  BY <1>0, <1>1, <1>16, MoveFacts, StartTurn DEF Agreement
<1>18. EntriesAgree'
  <2>1. ASSUME Alone PROVE LeaguesAgree' /\ SeatsAgree'
    <3>1. LeaguesAgree /\ SeatsAgree
      BY <2>1 DEF Agreement, EntriesAgree
    <3>2. LeaguesAgree'
      BY <1>1, <1>10, <3>1 DEF LeaguesAgree, Slots
    <3>3. req[p].pc # "entry matches"
      BY <1>j, <1>2
    <3>4. SeatsAgree'
      BY <1>0, <1>1, <1>10, <1>16, <2>1, <3>1, <3>3, SeatsKept DEF Agreement
    <3> QED
      BY <3>2, <3>4
  <2> QED
    BY <1>0, <1>16, <2>1, EntriesTurn DEF Agreement
<1>19. SeedsAgree'
  <2>1. /\ req'[p] = n /\ \A q \in Tasks : q # p => req'[q] = req[q]
        /\ scenario.serial => \A q \in Tasks : q # p => req[q] = NoRequest
        /\ scenario' = scenario /\ crashes' = crashes
    BY <1>0, <1>16, MoveFacts DEF Agreement
  <2>2. SeedScope' = SeedScope
    BY <2>1 DEF SeedScope, Alone
  <2>3. With("checked_in")' = With("checked_in") /\ With("approved")' = With("approved")
        /\ With("active")' = With("active") /\ With("pending")' = With("pending")
        /\ list_seeded' = list_seeded
    BY <1>10 DEF With, list_seeded
  <2> SUFFICES ASSUME SeedScope
               PROVE  /\ \A q \in Tasks : SeedJob(req[q])'
                      /\ (\A q \in Tasks : req'[q].pc # "entry seed") => \A x, y \in list_seeded :
                             (x # y /\ entries'[x].seed = entries'[y].seed) => entries'[x].seed = 0
                      /\ With("checked_in") # {} =>
                             \A x \in list_seeded \ With("checked_in") : entries'[x].seed = 0
                      /\ \A x \in With("active") \cup With("pending") : entries'[x].seed = 0
    BY <2>2, <2>3 DEF SeedsAgree
  <2>4. PICK S : S = DOMAIN j.seeds
    OBVIOUS
  <2>5. /\ j.left \subseteq S
        /\ S \subseteq With("checked_in") \cup With("approved")
        /\ With("checked_in") # {} => S \subseteq With("checked_in")
        /\ \A x, y \in S : j.seeds[x] = j.seeds[y] => x = y
        /\ \A x \in j.left : j.ids[x] = entries[x].id
        /\ \A x \in S \ j.left : entries[x].seed = j.seeds[x]
        /\ \A x \in list_seeded \ S : entries[x].seed = 0
    BY <1>k, <1>2, <2>4 DEF SeedJob
  <2>6. entries'[e] = row /\ e \in S /\ S \subseteq Entrants
    BY <1>4, <1>9, <2>5 DEF With
  <2>7. \A x \in S \ (j.left \ {e}) : entries'[x].seed = j.seeds[x]
    BY <1>7, <1>9, <2>5, <2>6
  <2>8. \A x \in Entrants \ S : entries'[x] = entries[x]
    BY <1>9, <2>6
  <2>9. \A x \in list_seeded \ S : entries'[x].seed = 0
    BY <2>5, <2>8 DEF list_seeded
  <2>10. SeedJob(r)'
    <3>1. \A x \in j.left \ {e} : j.ids[x] = entries'[x].id
      BY <1>10, <2>5, <2>6
    <3> HIDE DEF With, list_seeded
    <3>2. DOMAIN r.seeds = S /\ r.left \subseteq j.left /\ r.left \subseteq S
      BY <1>13, <2>4, <2>5
    <3>3. \A x \in r.left : r.ids[x] = entries'[x].id
      BY <1>13, <3>1
    <3>4. \A x \in DOMAIN r.seeds \ r.left : entries'[x].seed = r.seeds[x]
      BY <1>13, <2>7, <3>2
    <3>5. \A x, y \in DOMAIN r.seeds : r.seeds[x] = r.seeds[y] => x = y
      BY <1>13, <2>5, <3>2
    <3>6. /\ DOMAIN r.seeds \subseteq With("checked_in")' \cup With("approved")'
          /\ With("checked_in")' # {} => DOMAIN r.seeds \subseteq With("checked_in")'
          /\ \A x \in list_seeded' \ DOMAIN r.seeds : entries'[x].seed = 0
      BY <2>3, <2>5, <2>9, <3>2
    <3>7. r.pc \notin {"entry check in", "entry admit", "entry no show"}
      BY <1>13
    <3> QED
      BY <3>2, <3>3, <3>4, <3>5, <3>6, <3>7 DEF SeedJob
  <2>11. SeedJob(n)'
    BY <1>n, <1>16, <2>10
  <2>12. \A q \in Tasks : SeedJob(req[q])'
    BY <1>n, <2>1, <2>11 DEF SeedScope, Alone
  <2>13. (\A q \in Tasks : req'[q].pc # "entry seed") => \A x, y \in list_seeded :
             (x # y /\ entries'[x].seed = entries'[y].seed) => entries'[x].seed = 0
    <3> SUFFICES ASSUME \A q \in Tasks : req'[q].pc # "entry seed",
                        NEW x \in list_seeded, NEW y \in list_seeded, x # y,
                        entries'[x].seed = entries'[y].seed, entries'[x].seed # 0
                 PROVE  FALSE
      OBVIOUS
    <3>1. n # r
      BY <1>0, <1>13, <2>1
    <3>2. j.left = {e}
      BY <1>4, <1>16, <2>5, <3>1
    <3>3. x \in S /\ y \in S
      BY <2>9
    <3>4. entries'[x].seed = j.seeds[x]
      BY <2>7, <3>2, <3>3
    <3>5. entries'[y].seed = j.seeds[y]
      BY <2>7, <3>2, <3>3
    <3>6. j.seeds[x] = j.seeds[y]
      BY <3>4, <3>5
    <3>7. \A a, b \in S : j.seeds[a] = j.seeds[b] => a = b
      BY <2>5
    <3> QED
      BY <3>3, <3>6, <3>7
  <2>14. With("checked_in") # {} =>
             \A x \in list_seeded \ With("checked_in") : entries'[x].seed = 0
    BY <2>5, <2>9
  <2>15. \A x \in With("active") \cup With("pending") : entries'[x].seed = 0
    <3>1. \A x \in With("active") \cup With("pending") : entries[x].seed = 0
      BY DEF Agreement, SeedsAgree
    <3>2. \A x \in With("active") \cup With("pending") : x \in Entrants /\ x \notin S
      BY <2>5 DEF With
    <3> QED
      BY <2>8, <3>1, <3>2
  <2> QED
    BY <2>12, <2>13, <2>14, <2>15
<1> QED
  BY <1>17, <1>18, <1>19 DEF Agreement

\* A step of a start that writes brackets.
LEMMA BracketsTurn ==
    ASSUME EntryTypes, Agreement, NEW p \in Tasks, NEW r, Moves(p, r),
           UNCHANGED <<cup, entries, forfeits>>, Holding(req[p]),
           Guarded => \A i \in DOMAIN brackets' : brackets'[i].build = req[p].build,
           Alone => \A e \in Entrants, i \in DOMAIN brackets' : e \in brackets'[i].seated =>
                        e \in list_seeded \/ \E k \in DOMAIN brackets : e \in brackets[k].seated,
           Guarded => StartJob(r)', Alone => FreshJob(r)', SeedJob(r)'
    PROVE  Agreement'
<1>1. OneAtATime' /\ StartIsClaimed'
  BY MoveFacts, StartTurn DEF Agreement
<1>2. req[p].pc \notin {"entry matches", "entry seed"}
  BY DEF Holding, Claimed, Building, TournamentFormat
<1>3. ASSUME Alone PROVE LeaguesAgree' /\ SeatsAgree'
  <2>1. LeaguesAgree /\ SeatsAgree
    BY <1>3 DEF Agreement, EntriesAgree
  <2>2. LeaguesAgree'
    BY <2>1 DEF LeaguesAgree, Slots
  <2>3. crashes' = crashes /\ \A q \in Tasks : q # p => req[q] = NoRequest
    BY <1>3, MoveFacts DEF Alone, Agreement
  <2>4. NoRequest.pc = "idle"
    BY DEF NoRequest
  <2>5. \A x : ~Leaving(x)
    BY <1>2, <2>3, <2>4 DEF Leaving
  <2>6. ASSUME NEW e \in Entrants, NEW i \in DOMAIN brackets', e \in brackets'[i].seated
        PROVE  /\ entries'[e].status # "pending"
               /\ entries'[e].status = "withdrawn" /\ crashes' = 0 => e \in forfeits'
    <3>1. CASE e \in list_seeded
      BY <3>1 DEF list_seeded
    <3>2. CASE \E k \in DOMAIN brackets : e \in brackets[k].seated
      BY <2>1, <2>3, <2>5, <3>2 DEF SeatsAgree
    <3> QED
      BY <1>3, <2>6, <3>1, <3>2
  <2>7. SeatsAgree'
    BY <2>6 DEF SeatsAgree
  <2> QED
    BY <2>2, <2>7
<1>4. EntriesAgree'
  BY <1>3, EntriesTurn DEF Agreement
<1>5. SeedsAgree'
  BY <1>2, SeedsKept DEF Agreement
<1> QED
  BY <1>1, <1>4, <1>5 DEF Agreement

\* The steps of a start before its brackets are there.
LEMMA StartingAgrees ==
    ASSUME EntryTypes, Agreement, NEW p \in Users, req[p] # NoRequest, scenario.of = "entry",
           \/ try_claim_start(p) \/ RecoveryGuard(p) \/ StartStage(p) \/ StartGroupsAndPlayoffs(p)
    PROVE  Agreement'
<1>0. p \in Tasks /\ EntryTables /\ cup \in TournamentRow
  BY DEF Tasks, EntryTypes, EntryTables, EntryTypeOK
<1>j. PICK j : j = req[p]
  OBVIOUS
<1>k. EntryJob(j) /\ (Guarded => StartJob(j)) /\ (Alone => FreshJob(j))
  BY <1>0, <1>j DEF EntryTypes, Agreement, EntriesAgree, StartIsClaimed
<1>n. ~Holding(NoRequest) /\ StartJob(NoRequest)' /\ FreshJob(NoRequest)' /\ SeedJob(NoRequest)'
  <2>1. IsPlain(NoRequest)
    BY DEF IsPlain, Plain, NoRequest
  <2> QED
    BY <2>1, PlainJob
<1>1. /\ UNCHANGED <<entries, brackets, forfeits>>
      /\ list_seeded' = list_seeded
  BY DEF try_claim_start, RecoveryGuard, StartStage, StartGroupsAndPlayoffs, entryTables, list_seeded
<1>2. j.pc \in {"start claim", "start guard", "start stage", "groups_and_playoffs"}
  BY <1>j DEF try_claim_start, RecoveryGuard, StartStage, StartGroupsAndPlayoffs, At
<1>3. req[p].pc \notin {"entry matches", "entry seed"}
  BY <1>2, <1>j
<1>4. Alone => j.field \subseteq list_seeded
  BY <1>k, <1>2 DEF FreshJob, Claimed, TournamentFormat
<1>5. ASSUME UNCHANGED cup, j.pc # "start claim" PROVE Guarded => cup'.status \in Late /\ brackets' = <<>> /\ Holding(j)
  BY <1>k, <1>1, <1>2, <1>5 DEF StartJob, Holding, Claimed, TournamentFormat
<1>6. CASE UNCHANGED cup /\ Finish(p)
  <2>1. Moves(p, NoRequest)
    BY <1>6 DEF Moves, Finish
  <2> QED
    BY <1>0, <1>n, <1>1, <1>3, <1>6, <2>1, TablesTurn
<1>7. CASE try_claim_start(p) /\ ~(UNCHANGED cup /\ Finish(p))
  <2>1. /\ cup.status \in {"scheduled", "registration"}
        /\ cup' = [cup EXCEPT !.status = "in_progress", !.started = TRUE]
        /\ Continue(p, [j EXCEPT !.pc = "start guard"]) /\ j.pc = "start claim"
    BY <1>7, <1>j DEF try_claim_start, At
  <2>2. cup'.status = "in_progress" /\ cup'.league = cup.league /\ cup.status \notin Late /\ cup'.status \in Late
    BY <1>0, <2>1 DEF TournamentRow, Late
  <2>3. Guarded => brackets' = <<>>
    BY <1>1, <2>2 DEF Agreement, StartIsClaimed
  <2>4. PICK r : r = [j EXCEPT !.pc = "start guard"]
    OBVIOUS
  <2>5. j \in [pc : {"start claim"}, field : {j.field}, build : {j.build}]
    BY <1>k, <2>1 DEF EntryJob
  <2>6. r \in [pc : {"start guard"}, field : {j.field}, build : {j.build}]
    BY <2>4, <2>5
  <2>7. r.pc = "start guard" /\ r.field = j.field /\ Moves(p, r)
    BY <2>1, <2>4, <2>6 DEF Moves
  <2> HIDE DEF list_seeded, Late
  <2>8. Guarded => StartJob(r)'
    BY <2>2, <2>3, <2>7 DEF StartJob, Claimed, Building, TournamentFormat
  <2>9. Alone => FreshJob(r)'
    BY <1>1, <1>4, <2>7 DEF FreshJob, Claimed, Building, TournamentFormat
  <2>10. SeedJob(r)'
    BY <2>7 DEF SeedJob
  <2> QED
    BY <1>0, <1>1, <1>3, <2>2, <2>7, <2>8, <2>9, <2>10, TablesTurn
<1>8. CASE RecoveryGuard(p) /\ ~(UNCHANGED cup /\ Finish(p))
  <2>1. UNCHANGED cup /\ Continue(p, [j EXCEPT !.pc = "start stage"]) /\ j.pc = "start guard"
    BY <1>8, <1>j DEF RecoveryGuard, At, entryTables
  <2>4. PICK r : r = [j EXCEPT !.pc = "start stage"]
    OBVIOUS
  <2>5. j \in [pc : {"start guard"}, field : {j.field}, build : {j.build}]
    BY <1>k, <2>1 DEF EntryJob
  <2>6. r \in [pc : {"start stage"}, field : {j.field}, build : {j.build}]
    BY <2>4, <2>5
  <2>7. r.pc = "start stage" /\ r.field = j.field /\ Moves(p, r)
    BY <2>1, <2>4, <2>6 DEF Moves
  <2>11. Guarded => cup'.status \in Late /\ brackets' = <<>> /\ Holding(j)
    BY <1>5, <2>1
  <2> HIDE DEF list_seeded, Late
  <2>8. Guarded => StartJob(r)'
    BY <2>7, <2>11 DEF StartJob, Claimed, Building, TournamentFormat
  <2>9. Alone => FreshJob(r)'
    BY <1>1, <1>4, <2>7 DEF FreshJob, Claimed, Building, TournamentFormat
  <2>10. SeedJob(r)'
    BY <2>7 DEF SeedJob
  <2> QED
    BY <1>0, <1>j, <1>1, <1>3, <2>1, <2>7, <2>8, <2>9, <2>10, <2>11, TablesTurn
<1>9. CASE StartStage(p)
  <2>1. PICK f \in TournamentFormat : f = scenario.format
    BY TournamentEntryAssumption DEF EntryTypes, RequestsTypeOK
  <2>2. PICK r : r = [pc |-> f, field |-> j.field, build |-> j.build, stage |-> 1]
    OBVIOUS
  <2>3. UNCHANGED cup /\ j.pc = "start stage" /\ Moves(p, r)
    BY <1>9, <1>j, <2>1, <2>2 DEF StartStage, At, Moves
  <2>4. r.pc \in TournamentFormat /\ r.field = j.field
    BY <2>2
  <2>11. Guarded => cup'.status \in Late /\ brackets' = <<>> /\ Holding(j)
    BY <1>5, <2>3
  <2> HIDE DEF list_seeded, Late
  <2>8. Guarded => StartJob(r)'
    BY <2>4, <2>11 DEF StartJob, Claimed, Building, TournamentFormat
  <2>9. Alone => FreshJob(r)'
    BY <1>1, <1>4, <2>4 DEF FreshJob, Claimed, Building, TournamentFormat
  <2>10. SeedJob(r)'
    BY <2>4 DEF SeedJob, TournamentFormat
  <2> QED
    BY <1>0, <1>j, <1>1, <1>3, <2>3, <2>8, <2>9, <2>10, <2>11, TablesTurn
<1>10. CASE StartGroupsAndPlayoffs(p) /\ ~(UNCHANGED cup /\ Finish(p))
  <2>1. PICK n : n = Len(stages) + 1
    OBVIOUS
  <2>2. /\ UNCHANGED cup /\ j.pc = "groups_and_playoffs"
        /\ \E g \in distribute_into_groups(j.field) :
                  Continue(p, [pc |-> "start group", build |-> j.build, left |-> g, stage |-> n])
    BY <1>10, <1>j, <2>1 DEF StartGroupsAndPlayoffs, At
  <2>3. PICK g \in distribute_into_groups(j.field) :
           Continue(p, [pc |-> "start group", build |-> j.build, left |-> g, stage |-> n])
    BY <2>2
  <2>4. PICK r : r = [pc |-> "start group", build |-> j.build, left |-> g, stage |-> n]
    OBVIOUS
  <2>5. r.pc = "start group" /\ r.left = g /\ Moves(p, r)
    BY <2>3, <2>4 DEF Moves
  <2>6. \A i \in DOMAIN g : g[i] \subseteq j.field
    <3>1. PICK k : k = group_count(j.field)
      OBVIOUS
    <3>2. g \in [1 .. k -> SUBSET j.field]
      BY <3>1 DEF distribute_into_groups
    <3> QED
      BY <3>2
  <2>7. Alone => \A i \in DOMAIN r.left : r.left[i] \subseteq list_seeded
    BY <1>4, <2>5, <2>6
  <2>11. Guarded => cup'.status \in Late /\ brackets' = <<>> /\ Holding(j)
    BY <1>5, <2>2
  <2>12. <<>> = brackets' => DOMAIN brackets' = {}
    OBVIOUS
  <2> HIDE DEF list_seeded, Late
  <2>8. Guarded => StartJob(r)'
    BY <2>5, <2>11, <2>12 DEF StartJob, Claimed, Building, TournamentFormat
  <2>9. Alone => FreshJob(r)'
    BY <1>1, <2>5, <2>7 DEF FreshJob, Claimed, Building, TournamentFormat
  <2>10. SeedJob(r)'
    BY <2>5 DEF SeedJob
  <2> QED
    BY <1>0, <1>j, <1>1, <1>3, <2>2, <2>5, <2>8, <2>9, <2>10, <2>11, TablesTurn
<1> QED
  BY <1>6, <1>7, <1>8, <1>9, <1>10

\* The steps that create brackets ...
LEMMA CreatingAgrees ==
    ASSUME EntryTypes, Agreement, NEW p \in Tasks, req[p] # NoRequest, Holding(req[p]),
           NEW names, names \in Seq(BracketNames), NEW field, NEW left,
           Alone => field \subseteq list_seeded,
           Alone => \A i \in DOMAIN left : left[i] \subseteq list_seeded,
           req[p].build \in Nat, CreateBrackets(p, names, field, left)
    PROVE  Agreement'
<1>1. PICK j : j = req[p]
  OBVIOUS
<1>2. brackets' = brackets \o [i \in DOMAIN names |->
                           [build |-> j.build, name |-> names[i], seated |-> {}]]
  BY <1>1 DEF CreateBrackets
<1>3. EntryTables /\ j.build \in Nat
  BY <1>1 DEF EntryTypes
<1>4. \A i \in DOMAIN brackets' :
             \/ i \in DOMAIN brackets /\ brackets'[i] = brackets[i]
             \/ brackets'[i].build = j.build /\ brackets'[i].seated = {}
  BY <1>2, <1>3, RowsAdded
<1>5. Guarded => StartJob(j)
  BY <1>1 DEF Agreement, StartIsClaimed
<1>6. Guarded => cup.status \in Late /\ \A i \in DOMAIN brackets : brackets[i].build = j.build
  <2>1. j.pc \in Claimed \/ j.pc \in Building
    BY <1>1 DEF Holding
  <2>2. brackets = <<>> => DOMAIN brackets = {}
    OBVIOUS
  <2> HIDE DEF Claimed, Building, Late
  <2> QED
    BY <1>1, <1>5, <2>1, <2>2 DEF StartJob
<1>7. PICK r : r = [pc |-> "start seat", field |-> field, build |-> j.build, first |-> names[1],
                    left |-> left, stage |-> j.stage]
  OBVIOUS
<1>8. r.pc = "start seat" /\ r.field = field /\ r.left = left /\ r.build = j.build
  BY <1>7
<1>9. Moves(p, r) /\ UNCHANGED <<cup, entries, forfeits>>
  BY <1>1, <1>7 DEF CreateBrackets, Moves
<1>10. list_seeded' = list_seeded
  BY <1>9 DEF list_seeded
<1>11. Guarded => \A i \in DOMAIN brackets' : brackets'[i].build = j.build
  BY <1>4, <1>6
<1>12. Alone => \A e \in Entrants, i \in DOMAIN brackets' : e \in brackets'[i].seated =>
                        e \in list_seeded \/ \E k \in DOMAIN brackets : e \in brackets[k].seated
  BY <1>4
<1> HIDE DEF list_seeded, Late
<1>13. Guarded => StartJob(r)'
  BY <1>6, <1>8, <1>9, <1>11 DEF StartJob, Claimed, Building, TournamentFormat
<1>14. Alone => FreshJob(r)'
  BY <1>8, <1>10 DEF FreshJob, Claimed, Building, TournamentFormat
<1>15. SeedJob(r)'
  BY <1>8 DEF SeedJob
<1> QED
  BY <1>1, <1>9, <1>11, <1>12, <1>13, <1>14, <1>15, BracketsTurn

\* ... and the one that seats the field.
LEMMA BuildingAgrees ==
    ASSUME EntryTypes, Agreement, NEW p \in Users, req[p] # NoRequest,
           \/ StartSingleElimination(p) \/ StartDoubleElimination(p) \/ StartRoundRobin(p)
           \/ StartSwiss(p) \/ StartGroup(p) \/ SeatField(p)
    PROVE  Agreement'
<1>0. p \in Tasks /\ EntryTables
  BY DEF Tasks, EntryTypes
<1>j. PICK j : j = req[p]
  OBVIOUS
<1>k. EntryJob(j) /\ (Guarded => StartJob(j)) /\ (Alone => FreshJob(j))
  BY <1>0, <1>j DEF EntryTypes, Agreement, EntriesAgree, StartIsClaimed
<1>2. /\ <<"main">> \in Seq(BracketNames) /\ <<"winners", "losers", "grand">> \in Seq(BracketNames)
      /\ <<"round robin">> \in Seq(BracketNames) /\ <<"swiss">> \in Seq(BracketNames)
  BY DEF BracketNames
<1>3. CASE StartSingleElimination(p) \/ StartDoubleElimination(p) \/ StartRoundRobin(p) \/ StartSwiss(p)
  <2>1. j.pc \in {"single_elimination", "double_elimination", "round_robin", "swiss"}
    BY <1>3, <1>j DEF StartSingleElimination, StartDoubleElimination, StartRoundRobin, StartSwiss, At
  <2>2. Holding(j) /\ j.build \in Nat
    BY <1>k, <2>1 DEF EntryJob, Holding, Claimed, TournamentFormat
  <2>3. PICK names : names \in Seq(BracketNames) /\ CreateBrackets(p, names, j.field, <<>>)
    BY <1>2, <1>3, <1>j DEF StartSingleElimination, StartDoubleElimination, StartRoundRobin, StartSwiss
  <2>4. Alone => j.field \subseteq list_seeded
    BY <1>k, <2>1 DEF FreshJob, Claimed, TournamentFormat
  <2>5. PICK none : none = <<>>
    OBVIOUS
  <2>6. Alone => \A i \in DOMAIN none : none[i] \subseteq list_seeded
    BY <2>5
  <2> QED
    BY <1>0, <1>j, <2>2, <2>3, <2>4, <2>5, <2>6, CreatingAgrees
<1>4. CASE StartGroup(p)
  <2>0. j.pc = "start group"
    BY <1>4, <1>j DEF StartGroup, At
  <2>1. Holding(j) /\ j.build \in Nat /\ GroupsLeft(j.left) /\ j.left # <<>>
    BY <1>k, <2>0 DEF EntryJob, Holding, Building
  <2>2. PICK l : l = j.left
    OBVIOUS
  <2>3. l \in Seq(SUBSET Entrants) /\ l # <<>>
    BY <2>1, <2>2 DEF GroupsLeft
  <2>a. Alone => \A i \in DOMAIN l : l[i] \subseteq list_seeded
    BY <1>k, <2>0, <2>2 DEF FreshJob, Building
  <2>4. Len(l) \in Nat /\ Len(l) >= 1 /\ DOMAIN l = 1 .. Len(l)
    BY <2>3, LenProperties, EmptySeq
  <2>5. /\ Head(l) = l[1] /\ Tail(l) \in Seq(SUBSET Entrants) /\ Len(Tail(l)) = Len(l) - 1
        /\ \A i \in 1 .. Len(Tail(l)) : Tail(l)[i] = l[i + 1]
    BY <2>3, HeadTailProperties
  <2>6. DOMAIN Tail(l) = 1 .. Len(Tail(l))
    BY <2>5, LenProperties
  <2> HIDE DEF list_seeded
  <2>7. Alone => Head(l) \subseteq list_seeded
    BY <2>a, <2>4, <2>5
  <2>8. Alone => \A i \in DOMAIN Tail(l) : Tail(l)[i] \subseteq list_seeded
    <3>1. ASSUME NEW i \in 1 .. Len(Tail(l)) PROVE Tail(l)[i] = l[i + 1] /\ i + 1 \in DOMAIN l
      BY <2>4, <2>5, <3>1
    <3> QED
      BY <2>a, <2>6, <3>1
  <2>9. <<Len(l)>> \in Seq(BracketNames)
    <3>1. PICK n \in Nat : n = Len(l)
      BY <2>4
    <3>2. PICK name \in BracketNames : name = n
      BY DEF BracketNames
    <3>3. <<name>> \in Seq(BracketNames)
      OBVIOUS
    <3> QED
      BY <3>1, <3>2, <3>3
  <2>10. CreateBrackets(p, <<Len(l)>>, Head(l), Tail(l))
    BY <1>4, <1>j, <2>2 DEF StartGroup
  <2> QED
    BY <1>0, <1>j, <2>1, <2>7, <2>8, <2>9, <2>10, CreatingAgrees
<1>5. CASE SeatField(p)
  <2>0. j.pc = "start seat"
    BY <1>5, <1>j DEF SeatField, At
  <2>1. Holding(j)
    BY <2>0 DEF Holding, Building
  <2>2. Guarded => cup.status \in Late /\ \A i \in DOMAIN brackets : brackets[i].build = j.build
    BY <1>k, <2>0, <2>1 DEF StartJob, Building
  <2>3. Alone => /\ j.field \subseteq list_seeded
                 /\ \A i \in DOMAIN j.left : j.left[i] \subseteq list_seeded
    BY <1>k, <2>0 DEF FreshJob, Building
  <2>4. brackets' = [i \in DOMAIN brackets |->
                       IF brackets[i].build = j.build /\ brackets[i].name = j.first
                       THEN [brackets[i] EXCEPT !.seated = j.field] ELSE brackets[i]]
    BY <1>5, <1>j DEF SeatField
  <2>5. ASSUME NEW i \in DOMAIN brackets'
        PROVE  /\ i \in DOMAIN brackets /\ brackets'[i].build = brackets[i].build
               /\ brackets'[i].seated \in {j.field, brackets[i].seated}
    <3>1. brackets \in Seq(BracketRow) /\ i \in DOMAIN brackets
      BY <1>0, <2>4 DEF EntryTables
    <3>2. brackets[i] \in BracketRow
      BY <3>1, LenProperties, ElementOfSeq
    <3>3. /\ [brackets[i] EXCEPT !.seated = j.field].build = brackets[i].build
          /\ [brackets[i] EXCEPT !.seated = j.field].seated = j.field
      BY <3>2 DEF BracketRow
    <3>4. brackets'[i] = brackets[i] \/ brackets'[i] = [brackets[i] EXCEPT !.seated = j.field]
      BY <2>4
    <3> QED
      BY <3>1, <3>3, <3>4
  <2>6. Guarded => \A i \in DOMAIN brackets' : brackets'[i].build = j.build
    BY <2>2, <2>5
  <2>7. Alone => \A e \in Entrants, i \in DOMAIN brackets' : e \in brackets'[i].seated =>
                        e \in list_seeded \/ \E k \in DOMAIN brackets : e \in brackets[k].seated
    BY <2>3, <2>5
  <2>8. UNCHANGED <<cup, entries, forfeits>>
    BY <1>5 DEF SeatField
  <2>9. list_seeded' = list_seeded
    BY <2>8 DEF list_seeded
  <2>10. CASE Continue(p, [pc |-> "start active", stage |-> j.stage])
    <3>1. PICK r : r = [pc |-> "start active", stage |-> j.stage]
      OBVIOUS
    <3>2. IsPlain(r) /\ Moves(p, r)
      BY <2>10, <3>1 DEF IsPlain, Plain, Moves
    <3>3. StartJob(r)' /\ FreshJob(r)' /\ SeedJob(r)'
      BY <3>2, PlainJob
    <3> QED
      BY <1>0, <1>j, <2>1, <2>6, <2>7, <2>8, <3>2, <3>3, BracketsTurn
  <2>11. CASE Continue(p, [pc |-> "start group", build |-> j.build, left |-> j.left, stage |-> j.stage])
    <3>1. PICK r : r = [pc |-> "start group", build |-> j.build, left |-> j.left, stage |-> j.stage]
      OBVIOUS
    <3>2. r.pc = "start group" /\ r.build = j.build /\ r.left = j.left /\ Moves(p, r)
      BY <2>11, <3>1 DEF Moves
    <3> HIDE DEF list_seeded, Late
    <3>3. Guarded => StartJob(r)'
      BY <2>2, <2>6, <2>8, <3>2 DEF StartJob, Claimed, Building, TournamentFormat
    <3>4. Alone => FreshJob(r)'
      BY <2>3, <2>9, <3>2 DEF FreshJob, Claimed, Building, TournamentFormat
    <3>5. SeedJob(r)'
      BY <3>2 DEF SeedJob
    <3> QED
      BY <1>0, <1>j, <2>1, <2>6, <2>7, <2>8, <3>2, <3>3, <3>4, <3>5, BracketsTurn
  <2> QED
    BY <1>5, <1>j, <2>10, <2>11 DEF SeatField
<1> QED
  BY <1>3, <1>4, <1>5

-----------------------------------------------------------------------------
(* The theorem.                                                             *)

\* The first state ...
LEMMA AgreementInit == RequestsInit /\ EntryInit => Agreement
<1> SUFFICES ASSUME RequestsInit, EntryInit PROVE Agreement
  OBVIOUS
<1>1. IsPlain(NoRequest)
  BY DEF IsPlain, Plain, NoRequest
<1>2. ~Holding(NoRequest) /\ StartJob(NoRequest) /\ FreshJob(NoRequest) /\ SeedJob(NoRequest)
  BY <1>1, PlainJob
<1>3. \A p \in Tasks : req[p] = NoRequest
  BY DEF RequestsInit
<1>4. brackets = <<>>
  BY DEF EntryInit
<1>5. OneAtATime
  BY <1>3 DEF OneAtATime
<1>6. StartIsClaimed
  BY <1>2, <1>3, <1>4 DEF StartIsClaimed
<1>7. \A e \in Entrants : entries[e].seed = 0 /\ (e \in Slots(entries) => entries[e].league = cup.league)
  BY DEF EntryInit, Entry, NoEntry, Slots
<1>8. EntriesAgree
  <2>1. LeaguesAgree
    BY <1>7 DEF LeaguesAgree, Slots
  <2>2. SeatsAgree
    BY <1>4 DEF SeatsAgree
  <2> QED
    BY <1>2, <1>3, <2>1, <2>2 DEF EntriesAgree
<1>9. SeedsAgree
  <2>1. \A e \in list_seeded \cup With("active") \cup With("pending") : entries[e].seed = 0
    BY <1>7 DEF list_seeded, With
  <2> QED
    BY <1>2, <1>3, <2>1 DEF SeedsAgree
<1> QED
  BY <1>5, <1>6, <1>8, <1>9 DEF Agreement

\* ... a task that dies between two statements ...
LEMMA DyingAgrees ==
    ASSUME EntryTypes, Agreement, NEW p \in Users, EntryDie(p)
    PROVE  Agreement'
<1>1. IsPlain(NoRequest)
  BY DEF IsPlain, Plain, NoRequest
<1>2. ~Holding(NoRequest) /\ StartJob(NoRequest) /\ FreshJob(NoRequest) /\ SeedJob(NoRequest)
  BY <1>1, PlainJob
<1>3. /\ UNCHANGED <<cup, entries, stages, brackets, forfeits>> /\ scenario' = scenario
      /\ crashes' = crashes + 1 /\ crashes \in Nat
      /\ \A q \in Tasks : req'[q] = req[q] \/ req'[q] = NoRequest
  BY RequestsAssumption DEF EntryDie, Die, entryTables, EntryTypes, RequestsTypeOK
<1>4. crashes' # 0
  BY <1>3
<1>5. OneAtATime'
  BY <1>3 DEF Agreement, OneAtATime
<1>6. \A j : StartJob(j) = StartJob(j)'
  BY <1>3 DEF StartJob
<1>7. Guarded' = Guarded /\ Alone' = Alone /\ ~SeedScope'
  BY <1>3, <1>4 DEF Guarded, Alone, SeedScope
<1>8. StartIsClaimed'
  <2> SUFFICES ASSUME Guarded
               PROVE  /\ brackets # <<>> => cup.status \in Late
                      /\ \A i, k \in DOMAIN brackets : brackets[i].build = brackets[k].build
                      /\ \A q \in Tasks : StartJob(req[q])'
                      /\ \A q, o \in Tasks : Holding(req'[q]) /\ Holding(req'[o]) => q = o
    BY <1>3, <1>7 DEF StartIsClaimed
  <2>1. /\ brackets # <<>> => cup.status \in Late
        /\ \A i, k \in DOMAIN brackets : brackets[i].build = brackets[k].build
        /\ \A q \in Tasks : StartJob(req[q])
        /\ \A q, o \in Tasks : Holding(req[q]) /\ Holding(req[o]) => q = o
    BY DEF Agreement, StartIsClaimed
  <2>2. ASSUME NEW q \in Tasks PROVE StartJob(req[q])'
    <3>1. PICK k : k = req'[q]
      OBVIOUS
    <3>2. StartJob(k)
      BY <1>2, <1>3, <2>1, <3>1
    <3>3. StartJob(k)'
      BY <1>6, <3>2
    <3> QED
      BY <3>1, <3>3
  <2>3. \A q, o \in Tasks : Holding(req'[q]) /\ Holding(req'[o]) => q = o
    BY <1>2, <1>3, <2>1
  <2> QED
    BY <2>1, <2>2, <2>3
<1>9. ASSUME Alone PROVE LeaguesAgree' /\ SeatsAgree' /\ \A q \in Tasks : FreshJob(req[q])'
  <2>1. LeaguesAgree /\ SeatsAgree /\ \A q \in Tasks : FreshJob(req[q])
    BY <1>9 DEF Agreement, EntriesAgree
  <2>2. LeaguesAgree'
    BY <1>3, <2>1 DEF LeaguesAgree, Slots
  <2>3. SeatsAgree'
    BY <1>3, <1>4, <2>1 DEF SeatsAgree
  <2>4. With("pending")' = With("pending") /\ With("approved")' = With("approved")
        /\ list_seeded' = list_seeded /\ Slots(entries)' = Slots(entries)
    BY <1>3 DEF With, list_seeded, Slots
  <2>5. \A j : FreshJob(j) = FreshJob(j)'
    <3> HIDE DEF With, list_seeded, Slots
    <3> QED
      BY <1>3, <2>4 DEF FreshJob
  <2>6. ASSUME NEW q \in Tasks PROVE FreshJob(req[q])'
    <3>1. PICK k : k = req'[q]
      OBVIOUS
    <3>2. FreshJob(k)
      BY <1>2, <1>3, <2>1, <3>1
    <3>3. FreshJob(k)'
      BY <2>5, <3>2
    <3> QED
      BY <3>1, <3>3
  <2> QED
    BY <2>2, <2>3, <2>6
<1>10. EntriesAgree' /\ SeedsAgree'
  BY <1>7, <1>9 DEF EntriesAgree, SeedsAgree
<1> QED
  BY <1>5, <1>8, <1>10 DEF Agreement

\* ... one that archives the tournament ...
LEMMA ArchivingAgrees ==
    ASSUME EntryTypes, Agreement, NEW p \in Users, SetArchived(p)
    PROVE  Agreement'
<1>0. p \in Tasks /\ cup \in TournamentRow
  BY DEF Tasks, EntryTypes, EntryTables, EntryTypeOK
<1>1. IsPlain(NoRequest)
  BY DEF IsPlain, Plain, NoRequest
<1>2. ~Holding(NoRequest) /\ StartJob(NoRequest)' /\ FreshJob(NoRequest)' /\ SeedJob(NoRequest)'
  BY <1>1, PlainJob
<1>3. Request(p, NoRequest) /\ UNCHANGED <<entries, brackets, forfeits>>
  BY DEF SetArchived
<1>4. req[p].pc = "idle"
  BY <1>3 DEF Request, MayStart, NoRequest
<1>5. cup'.status = cup.status /\ cup'.league = cup.league
  BY <1>0 DEF SetArchived, TournamentRow
<1> QED
  BY <1>0, <1>2, <1>3, <1>4, <1>5, TablesTurn DEF Moves

\* ... and every other step.
LEMMA AgreementStep == EntryTypes /\ Agreement /\ [EntryNext]_entryVars => Agreement'
<1> SUFFICES ASSUME EntryTypes, Agreement, [EntryNext]_entryVars PROVE Agreement'
  OBVIOUS
<1>1. ASSUME NEW p \in Users, EntryRequest(p) PROVE Agreement'
  <2>1. ~ConsumeInvitation(p) \/ req[p] # NoRequest
    <3>1. NoRequest.pc = "idle"
      BY DEF NoRequest
    <3> QED
      BY <3>1 DEF ConsumeInvitation, At
  <2> QED
    BY <1>1, <2>1, AskingAgrees, ListingAgrees, InvitingAgrees, AskingCupAgrees, ArchivingAgrees DEF EntryRequest
<1>2. ASSUME NEW p \in Users, EntryStep(p) PROVE Agreement'
  BY <1>2, InvitingAgrees, OneEntryAgrees, EnteringAgrees, SeedingAgrees, CupAgrees, StartingAgrees,
     BuildingAgrees DEF EntryStep
<1>3. ASSUME NEW p \in Users, EntryDie(p) PROVE Agreement'
  BY <1>3, DyingAgrees
<1>4. CASE UNCHANGED entryVars
  <2>1. /\ scenario' = scenario /\ req' = req /\ crashes' = crashes /\ cup' = cup /\ entries' = entries
        /\ brackets' = brackets /\ forfeits' = forfeits
    BY <1>4 DEF entryVars, requestVars, entryTables
  <2>2. OneAtATime'
    BY <2>1 DEF Agreement, OneAtATime
  <2>3. StartIsClaimed'
    BY <2>1 DEF Agreement, StartIsClaimed, StartJob, Guarded, Holding
  <2>6. /\ With("pending")' = With("pending") /\ With("approved")' = With("approved")
        /\ With("checked_in")' = With("checked_in") /\ With("active")' = With("active")
        /\ list_seeded' = list_seeded /\ Slots(entries)' = Slots(entries)
        /\ Alone' = Alone /\ SeedScope' = SeedScope
    BY <2>1 DEF With, list_seeded, Slots, Alone, SeedScope
  <2>4. EntriesAgree'
    <3>1. LeaguesAgree => LeaguesAgree'
      BY <2>1 DEF LeaguesAgree, Slots
    <3>2. SeatsAgree => SeatsAgree'
      BY <2>1 DEF SeatsAgree, Leaving
    <3>3. ASSUME NEW q \in Tasks, FreshJob(req[q]) PROVE FreshJob(req[q])'
      <4> HIDE DEF With, list_seeded, Slots
      <4>1. PICK k : k = req[q]
        OBVIOUS
      <4>2. FreshJob(k)'
        BY <2>1, <2>6, <3>3, <4>1 DEF FreshJob
      <4> QED
        BY <2>1, <4>1, <4>2
    <3> QED
      BY <2>6, <3>1, <3>2, <3>3 DEF Agreement, EntriesAgree
  <2>5. SeedsAgree'
    <3>1. ASSUME NEW q \in Tasks, SeedJob(req[q]) PROVE SeedJob(req[q])'
      <4> HIDE DEF With, list_seeded
      <4>1. PICK k : k = req[q]
        OBVIOUS
      <4>2. SeedJob(k)'
        BY <2>1, <2>6, <3>1, <4>1 DEF SeedJob
      <4> QED
        BY <2>1, <4>1, <4>2
    <3> HIDE DEF With, list_seeded
    <3> QED
      BY <2>1, <2>6, <3>1 DEF Agreement, SeedsAgree
  <2> QED
    BY <2>2, <2>3, <2>4, <2>5 DEF Agreement
<1> QED
  BY <1>1, <1>2, <1>3, <1>4 DEF EntryNext

\* What the invariant says of the property.
LEMMA AgreementIsSound == EntryTypes /\ Agreement => EntryIsSound
<1> SUFFICES ASSUME EntryTypes, Agreement PROVE EntryIsSound
  OBVIOUS
<1>1. EntryTypeOK
  BY DEF EntryTypes, EntryTables
<1>2. OneBracketSet
  BY DEF Agreement, StartIsClaimed, Guarded, OneBracketSet
<1>3. NobodyStranded
  BY DEF Agreement, EntriesAgree, LeaguesAgree, Alone, NobodyStranded
<1>4. WithdrawnIsForfeited
  <2> SUFFICES ASSUME Alone, crashes = 0, Quiescent, NEW e \in Entrants, NEW i \in DOMAIN brackets,
                      entries[e].status = "withdrawn", e \in brackets[i].seated
               PROVE  e \in forfeits
    BY DEF WithdrawnIsForfeited, Alone
  <2>1. NoRequest.pc = "idle"
    BY DEF NoRequest
  <2>2. ~Leaving(e)
    BY <2>1 DEF Leaving, Quiescent
  <2> QED
    BY <2>2 DEF Agreement, EntriesAgree, SeatsAgree
<1>5. SeedsDistinct
  <2> SUFFICES ASSUME SeedScope, Quiescent
               PROVE  \A x, y \in list_seeded :
                          (x # y /\ entries[x].seed = entries[y].seed) => entries[x].seed = 0
    BY DEF SeedsDistinct, SeedScope, Alone
  <2>1. NoRequest.pc = "idle"
    BY DEF NoRequest
  <2>2. \A p \in Tasks : req[p].pc # "entry seed"
    BY <2>1 DEF Quiescent
  <2> QED
    BY <2>2 DEF Agreement, SeedsAgree
<1> QED
  BY <1>1, <1>2, <1>3, <1>4, <1>5 DEF EntryIsSound

\* Whatever entrants register, withdraw, are approved, checked in and seeded, and
\* whoever starts, cancels or moves the tournament meanwhile: at most one start builds
\* brackets, who withdrew from a bracket has forfeited, nobody is left in another
\* league, and no two participants are given one seed (EntryIsSound).
THEOREM EntryStaysSound == EntrySpec => []EntryIsSound
<1>1. RequestsInit /\ EntryInit => EntryTypes /\ Agreement
  BY EntryTypesInit, AgreementInit
<1>2. EntryTypes /\ Agreement /\ [EntryNext]_entryVars => (EntryTypes /\ Agreement)'
  BY EntryTypesStep, AgreementStep
<1>3. EntryTypes /\ Agreement => EntryIsSound
  BY AgreementIsSound
<1> QED
  BY <1>1, <1>2, <1>3, PTL DEF EntrySpec

=============================================================================
