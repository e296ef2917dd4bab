---------------------------- MODULE ResultClaims ----------------------------
(***************************************************************************)
(* The result of one match: claims of a result, their confirmation by the  *)
(* opponent or by the auto-confirm sweep, disputes and their resolution,   *)
(* and admin corrections.  ResultService, DisputeService, their endpoints  *)
(* and the transactions of the claim and dispute repositories.             *)
(*                                                                         *)
(* As in MatchLifecycle a request reads, decides, and writes later; each   *)
(* database statement or transaction is one action.  Claim confirmation    *)
(* and cancellation are guarded by `status = 'pending'` in the statement   *)
(* itself; every other write goes by id alone.                             *)
(*                                                                         *)
(* A score is abstracted to the side it makes the winner.  The completion  *)
(* saga that a confirmation starts is one step here.                       *)
(***************************************************************************)
EXTENDS MatchStatus, Naturals

CONSTANTS
    Users,       \* HTTP request handlers and server events that may overlap
    Sweeper,     \* the background lifecycle task
    ClaimIds,    \* bound: the ids result_claims rows may get
    DisputeIds,  \* bound: the ids disputes rows may get
    None,        \* NULL, for an id
    Features,    \* which optional operations are used
    Serial,      \* TRUE: requests never overlap
    MaxRequests, \* bound on the number of user requests
    MaxFaults    \* bound on the number of requests that die half-way

AllFeatures == {"server", "dispute", "override", "forfeit", "admin", "cancel"}

ASSUME ClaimsAssumption ==
    /\ Sweeper \notin Users
    /\ None \notin ClaimIds /\ None \notin DisputeIds
    /\ Features \subseteq AllFeatures
    /\ Serial \in BOOLEAN
    /\ MaxRequests \in Nat
    /\ MaxFaults \in Nat

Procs == Users \cup {Sweeper}

\* The two participants; 0 stands for NULL (no winner, no submitter).
Slots == {1, 2}

Opponent(s) == 3 - s

VARIABLES
    status,    \* tournament_matches.status
    winner,    \* tournament_matches.winner_registration_id, as a slot
    claims,    \* result_claims, by id; a row not yet inserted is "absent"
    disputes,  \* disputes, by id
    req,       \* the state of each request in flight
    requests,  \* number of user requests accepted so far
    faults,    \* number of requests that died
    forced     \* history: the statuses that an admin has moved the match to by hand

vars == <<status, winner, claims, disputes, req, requests, faults, forced>>

ClaimStatus == {"absent", "pending", "confirmed", "disputed", "superseded", "cancelled"}

\* sagas counts how often a confirmation of the claim started its saga.
Claims == [status : ClaimStatus, by : 0..2, winner : 0..2, due : BOOLEAN,
           confirmer : 0..2, sagas : Nat]

DisputeStatus == {"absent", "pending", "under_review", "resolved", "cancelled"}

Disputes == [status : DisputeStatus, original : 0..2]

Outcomes == {"uphold", "overturn", "rematch", "double_dq"}

Ops == {"none", "submit", "server_submit", "confirm", "auto_confirm", "cancel_claim",
        "dispute", "assign", "cancel_dispute", "override", "forfeit", "admin"} \cup Outcomes

PCs == {"idle", "current_read", "supersede", "create", "transition_read",
        "transition_write", "commit", "run_saga", "cancel_write", "dispute_match",
        "dispute_exists", "dispute_raise", "assign_write", "resolve_write",
        "dispute_cancel_write", "override_write", "forfeit_write"}

\* A request: the operation and its next statement, the side it acts for, the
\* winner it names, the claim and the dispute it is about, the match status it
\* read and the one it may move the match to, the claims it still has to treat
\* and those whose saga it owes.
Requests == [op : Ops, pc : PCs, slot : 0..2, win : 0..2,
             claim : ClaimIds \cup {None}, dispute : DisputeIds \cup {None},
             from : TournamentMatchStatus, to : TournamentMatchStatus,
             ids : SUBSET ClaimIds, owed : SUBSET ClaimIds]

Request(o, l, s, w, c, d, ids) ==
    [op |-> o, pc |-> l, slot |-> s, win |-> w, claim |-> c, dispute |-> d,
     from |-> status, to |-> "awaiting_result", ids |-> ids, owed |-> {}]

NoRequest == [op |-> "none", pc |-> "idle", slot |-> 0, win |-> 0, claim |-> None,
              dispute |-> None, from |-> "pending", to |-> "pending", ids |-> {}, owed |-> {}]

NoClaim == [status |-> "absent", by |-> 0, winner |-> 0, due |-> FALSE,
            confirmer |-> 0, sagas |-> 0]

NoDispute == [status |-> "absent", original |-> 0]

Idle(p) == req[p].pc = "idle"
Quiescent == \A p \in Procs : Idle(p)

is_pending(c) == claims[c].status = "pending"
PendingClaims == {c \in ClaimIds : is_pending(c)}

\* Dispute::can_resolve
can_resolve(d) == disputes[d].status \in {"pending", "under_review"}

\* exists_pending_for_match
OpenDispute == \E d \in DisputeIds : can_resolve(d)

Init ==
    /\ status = "ready" /\ winner = 0
    /\ claims = [c \in ClaimIds |-> NoClaim]
    /\ disputes = [d \in DisputeIds |-> NoDispute]
    /\ req = [p \in Procs |-> NoRequest]
    /\ requests = 0 /\ faults = 0 /\ forced = {}

-----------------------------------------------------------------------------
(* Bookkeeping of requests *)

At(p, l) == req[p].pc = l
Continue(p, l) == req' = [req EXCEPT ![p].pc = l]
Finish(p) == req' = [req EXCEPT ![p] = NoRequest]

\* Process p takes up request r.
Enter(p, r) ==
    /\ Idle(p)
    /\ Serial => Quiescent
    /\ req' = [req EXCEPT ![p] = r]
    /\ UNCHANGED <<status, winner, claims, disputes, faults, forced>>

Arrive(p, r) ==
    /\ p \in Users
    /\ requests < MaxRequests
    /\ requests' = requests + 1
    /\ Enter(p, r)

-----------------------------------------------------------------------------
(* Submitting a claim *)

\* submit_claim by side s: the match must take results; scores, maps and demo
\* links are validated before anything is written.
SubmitClaim(p, s, w) ==
    /\ can_submit_result(status)
    /\ Arrive(p, Request("submit", "supersede", s, w, None, None, {}))

\* submit_server_claim, on the game server's series_end event.
SubmitServerClaim(p, w) ==
    /\ "server" \in Features
    /\ can_submit_result(status)
    /\ Arrive(p, Request("server_submit", "current_read", 0, w, None, None, {}))

\* find_current_by_match prefers a pending claim; the server yields to one.
CurrentRead(p) ==
    /\ At(p, "current_read")
    /\ IF PendingClaims # {} THEN Finish(p) ELSE Continue(p, "supersede")
    /\ UNCHANGED <<status, winner, claims, disputes, requests, faults, forced>>

\* create_and_supersede_pending, the UPDATE: the pending rows its snapshot shows.
SupersedePending(p) ==
    /\ At(p, "supersede")
    /\ req' = [req EXCEPT ![p].pc = "create", ![p].ids = PendingClaims]
    /\ UNCHANGED <<status, winner, claims, disputes, requests, faults, forced>>

\* The first claim of a match in progress also moves it to awaiting_result.
AfterCreate(p) ==
    IF req[p].op = "submit" /\ req[p].from = "in_progress"
      THEN Continue(p, "transition_read")
      ELSE Finish(p)

\* What submit_result takes from the request: the winner it names; the side is
\* that of the account.
NewClaim(p) == [status |-> "pending", by |-> req[p].slot, winner |-> req[p].win,
                due |-> FALSE, confirmer |-> 0, sagas |-> 0]

\* Mutant: the insert without the superseding update.
CreateClaimOnly(p) ==
    /\ At(p, "create")
    /\ \/ \E c \in ClaimIds :
            /\ claims[c].status = "absent"
            /\ claims' = [claims EXCEPT ![c] = NewClaim(p)]
            /\ AfterCreate(p)
       \/ /\ \A c \in ClaimIds : claims[c].status # "absent"
          /\ Finish(p)
          /\ UNCHANGED claims
    /\ UNCHANGED <<status, winner, disputes, requests, faults, forced>>

\* ... and the INSERT and COMMIT.  A row that a transaction committed in between
\* took out of pending is left alone: the update waits for its lock and tests
\* the row again; one inserted in between is not seen.  Out of ids (the bound)
\* the insert fails and the transaction rolls back.
CreateClaim(p) ==
    /\ At(p, "create")
    /\ \/ \E c \in ClaimIds :
            /\ claims[c].status = "absent"
            /\ claims' = [d \in ClaimIds |->
                 CASE d = c -> NewClaim(p)
                   [] d # c /\ d \in req[p].ids /\ is_pending(d)
                        -> [claims[d] EXCEPT !.status = "superseded"]
                   [] OTHER -> claims[d]]
            /\ AfterCreate(p)
       \/ /\ \A c \in ClaimIds : claims[c].status # "absent"
          /\ Finish(p)
          /\ UNCHANGED claims
    /\ UNCHANGED <<status, winner, disputes, requests, faults, forced>>

\* MatchLifecycleService::transition, to awaiting_result for a claim
\* (transition_status) or where an admin wants the match.
TransitionRead(p) ==
    /\ At(p, "transition_read")
    /\ IF can_transition_to(status, req[p].to)
         THEN Continue(p, "transition_write")
         ELSE Finish(p)
    /\ UNCHANGED <<status, winner, claims, disputes, requests, faults, forced>>

TransitionWrite(p) ==
    /\ At(p, "transition_write")
    /\ status' = req[p].to
    /\ forced' = IF req[p].op = "admin" THEN forced \cup {req[p].to} ELSE forced
    /\ Finish(p)
    /\ UNCHANGED <<winner, claims, disputes, requests, faults>>

\* cancel_claim, by its submitter; the update is guarded by status = 'pending'.
CancelClaim(p, c) ==
    /\ "cancel" \in Features
    /\ is_pending(c)
    /\ claims[c].by # 0
    /\ Arrive(p, Request("cancel_claim", "cancel_write", claims[c].by, 0, c, None, {}))

CancelWrite(p) ==
    /\ At(p, "cancel_write")
    /\ claims' = IF is_pending(req[p].claim)
                   THEN [claims EXCEPT ![req[p].claim].status = "cancelled"]
                   ELSE claims
    /\ Finish(p)
    /\ UNCHANGED <<status, winner, disputes, requests, faults, forced>>

-----------------------------------------------------------------------------
(* Confirming a claim *)

\* Mutant: the submitter may confirm its own claim.
ConfirmClaimAnyone(p, c, s) ==
    /\ is_pending(c)
    /\ Arrive(p, Request("confirm", "commit", s, 0, c, None, {c}))

\* confirm_claim by side s, which must not be the submitting side.
ConfirmClaim(p, c, s) ==
    /\ is_pending(c)
    /\ s # claims[c].by
    /\ Arrive(p, Request("confirm", "commit", s, 0, c, None, {c}))

\* find_ready_for_auto_confirm
ReadyForAutoConfirm == {c \in PendingClaims : claims[c].due}

\* Mutant: only claims that a participant submitted are swept.
AutoConfirmationsOfParticipants ==
    LET overdue == {c \in ReadyForAutoConfirm : claims[c].by # 0} IN
    /\ overdue # {}
    /\ Enter(Sweeper, Request("auto_confirm", "commit", 0, 0, None, None, overdue))
    /\ UNCHANGED requests

\* process_auto_confirmations: the pass lists the overdue claims.
AutoConfirmations ==
    /\ ReadyForAutoConfirm # {}
    /\ Enter(Sweeper, Request("auto_confirm", "commit", 0, 0, None, None,
                              ReadyForAutoConfirm))
    /\ UNCHANGED requests

\* Who is recorded as confirmer: the confirming side; for an auto-confirmation
\* the submitter's opponent, or the losing side of a claim of the server.
Confirmer(p, c) ==
    CASE req[p].op = "confirm" -> req[p].slot
      [] req[p].op # "confirm" /\ claims[c].by # 0 -> Opponent(claims[c].by)
      [] OTHER -> Opponent(claims[c].winner)

\* What a request does after it treated claim c: the next claim of the batch,
\* then the sagas of those it confirmed.
AfterCommit(p, c, confirmed) ==
    LET rest == req[p].ids \ {c}
        owed == IF confirmed THEN req[p].owed \cup {c} ELSE req[p].owed
    IN  IF rest = {} /\ owed = {}
          THEN Finish(p)
          ELSE req' = [req EXCEPT ![p].ids = rest, ![p].owed = owed,
                                  ![p].pc = IF rest = {} THEN "run_saga" ELSE "commit"]

ApplyClaim(p, c) ==
    /\ claims' = [claims EXCEPT ![c].status = "confirmed", ![c].confirmer = Confirmer(p, c)]
    /\ status' = "completed"
    /\ winner' = claims[c].winner

\* Mutant: the update of the claim is not guarded by status = 'pending'.
ConfirmUnguarded(p) ==
    /\ At(p, "commit")
    /\ \E c \in req[p].ids :
         /\ ApplyClaim(p, c)
         /\ AfterCommit(p, c, TRUE)
    /\ UNCHANGED <<disputes, requests, faults, forced>>

\* confirm_and_apply_to_match: one transaction, guarded by the claim's status
\* and by nothing of the match.
ConfirmAndApplyToMatch(p) ==
    /\ At(p, "commit")
    /\ \E c \in req[p].ids :
         \/ /\ is_pending(c)
            /\ ApplyClaim(p, c)
            /\ AfterCommit(p, c, TRUE)
         \/ /\ ~is_pending(c)
            /\ AfterCommit(p, c, FALSE)
            /\ UNCHANGED <<claims, status, winner>>
    /\ UNCHANGED <<disputes, requests, faults, forced>>

\* execute_completion, for each claim the request confirmed.
RunSaga(p) ==
    /\ At(p, "run_saga")
    /\ \E c \in req[p].owed :
         /\ claims' = [claims EXCEPT ![c].sagas = @ + 1]
         /\ IF req[p].owed = {c}
              THEN Finish(p)
              ELSE req' = [req EXCEPT ![p].owed = @ \ {c}]
    /\ UNCHANGED <<status, winner, disputes, requests, faults, forced>>

-----------------------------------------------------------------------------
(* Disputes *)

\* validate_can_dispute: a live match only when a claim is named.
CanDispute(c) ==
    \/ c # None /\ can_submit_result(status)
    \/ status \in {"completed", "disputed"}

\* POST /matches/{id}/result/{claim}/dispute: authorize_claim_dispute, then
\* raise_dispute.
DisputeClaim(p, c, s) ==
    /\ "dispute" \in Features
    /\ is_pending(c)
    /\ s # claims[c].by
    /\ Arrive(p, Request("dispute", "dispute_match", s, 0, c, None, {}))

\* The match's own dispute endpoint: any claim of the match may be named, or
\* none.  The request reads the match first.
RaiseDispute(p, c, s) ==
    /\ "dispute" \in Features
    /\ c # None => claims[c].status # "absent"
    /\ CanDispute(c)
    /\ Arrive(p, Request("dispute", "dispute_exists", s, winner, c, None, {}))

DisputeMatchRead(p) ==
    /\ At(p, "dispute_match")
    /\ IF CanDispute(req[p].claim)
         THEN req' = [req EXCEPT ![p].pc = "dispute_exists", ![p].win = winner]
         ELSE Finish(p)
    /\ UNCHANGED <<status, winner, claims, disputes, requests, faults, forced>>

\* One open dispute per match, and nobody disputes its own claim.
DisputeExistsRead(p) ==
    /\ At(p, "dispute_exists")
    /\ IF \/ OpenDispute
          \/ req[p].claim # None /\ claims[req[p].claim].by = req[p].slot
         THEN Finish(p)
         ELSE Continue(p, "dispute_raise")
    /\ UNCHANGED <<status, winner, claims, disputes, requests, faults, forced>>

\* Mutant: the original result is always the one of the match row.
OriginalOfMatch(p) == req[p].win

\* What is disputed: the claim's winner, or the one the match read showed.
Original(p) ==
    IF req[p].claim = None THEN req[p].win ELSE claims[req[p].claim].winner

\* Mutant: the named claim is disputed whatever it has become.
RetireAnyClaim(c) ==
    IF c # None THEN [claims EXCEPT ![c].status = "disputed"] ELSE claims

\* The named claim, when it is still pending, is disputed with the match.
RetireClaim(c) ==
    IF c # None /\ is_pending(c) THEN [claims EXCEPT ![c].status = "disputed"] ELSE claims

\* raise_atomic: the dispute, the match status and the claim in one transaction.
\* Out of ids (the bound) the insert fails and nothing changes.
RaiseAtomic(p) ==
    /\ At(p, "dispute_raise")
    /\ \/ \E d \in DisputeIds :
            /\ disputes[d].status = "absent"
            /\ disputes' = [disputes EXCEPT ![d] =
                              [status |-> "pending", original |-> Original(p)]]
            /\ status' = "disputed"
            /\ claims' = RetireClaim(req[p].claim)
       \/ /\ \A d \in DisputeIds : disputes[d].status # "absent"
          /\ UNCHANGED <<disputes, status, claims>>
    /\ Finish(p)
    /\ UNCHANGED <<winner, requests, faults, forced>>

\* assign_for_review, by an admin.
AssignForReview(p, d) ==
    /\ disputes[d].status = "pending"
    /\ Arrive(p, Request("assign", "assign_write", 0, 0, None, d, {}))

AssignWrite(p) ==
    /\ At(p, "assign_write")
    /\ disputes' = [disputes EXCEPT ![req[p].dispute].status = "under_review"]
    /\ Finish(p)
    /\ UNCHANGED <<status, winner, claims, requests, faults, forced>>

\* resolve_uphold, resolve_overturn and resolve_adjusted (both name a winner),
\* resolve_rematch and resolve_double_dq: read the dispute, then write.
Resolve(p, d, o, w) ==
    /\ can_resolve(d)
    /\ o = "overturn" <=> w # 0
    /\ Arrive(p, Request(o, "resolve_write", 0, w, None, d, {}))

\* Mutant: the dispute is resolved and the match left as it is.
EndDisputeOnly(p, l, to, newStatus, newWinner) ==
    /\ At(p, l)
    /\ disputes' = [disputes EXCEPT ![req[p].dispute].status = to]
    /\ Finish(p)
    /\ UNCHANGED <<status, winner, claims, requests, faults, forced>>

\* The transaction that ends a dispute: by id, whatever the dispute and the
\* match have become.
EndDispute(p, l, to, newStatus, newWinner) ==
    /\ At(p, l)
    /\ disputes' = [disputes EXCEPT ![req[p].dispute].status = to]
    /\ status' = newStatus
    /\ winner' = newWinner
    /\ Finish(p)
    /\ UNCHANGED <<claims, requests, faults, forced>>

\* resolve_with_overturn to the original result, or, when there was none,
\* resolve_with_status_change.
UpholdWrite(p) ==
    LET original == disputes[req[p].dispute].original IN
    /\ req[p].op = "uphold"
    /\ EndDispute(p, "resolve_write", "resolved", "completed",
                  IF original # 0 THEN original ELSE winner)

OverturnWrite(p) ==
    /\ req[p].op = "overturn"
    /\ EndDispute(p, "resolve_write", "resolved", "completed", req[p].win)

RematchWrite(p) ==
    /\ req[p].op = "rematch"
    /\ EndDispute(p, "resolve_write", "resolved", "ready", 0)

DoubleDqWrite(p) ==
    /\ req[p].op = "double_dq"
    /\ EndDispute(p, "resolve_write", "resolved", "cancelled", 0)

\* cancel_dispute and cancel_with_match_restore.
CancelDispute(p, d) ==
    /\ "cancel" \in Features
    /\ can_resolve(d)
    /\ Arrive(p, Request("cancel_dispute", "dispute_cancel_write", 0, 0, None, d, {}))

CancelDisputeWrite(p) ==
    EndDispute(p, "dispute_cancel_write", "cancelled", "completed", winner)

-----------------------------------------------------------------------------
(* Other writers of the match row *)

\* override_result: only a recorded result is corrected.
OverrideResult(p, w) ==
    /\ "override" \in Features
    /\ winner # 0
    /\ Arrive(p, Request("override", "override_write", 0, w, None, None, {}))

OverrideWrite(p) ==
    /\ At(p, "override_write")
    /\ status' = "completed"
    /\ winner' = req[p].win
    /\ Finish(p)
    /\ UNCHANGED <<claims, disputes, requests, faults, forced>>

\* A forfeit by side s (MatchLifecycle has its statements in full).
Forfeit(p, s) ==
    /\ "forfeit" \in Features
    /\ can_forfeit(status)
    /\ Arrive(p, Request("forfeit", "forfeit_write", s, 0, None, None, {}))

ForfeitWrite(p) ==
    /\ At(p, "forfeit_write")
    /\ status' = "forfeit"
    /\ winner' = Opponent(req[p].slot)
    /\ Finish(p)
    /\ UNCHANGED <<claims, disputes, requests, faults, forced>>

\* admin_transition: any edge of the state machine, with no dispute raised and
\* no winner recorded; it checks on its own read, then calls transition.
AdminTransition(p, t) ==
    /\ "admin" \in Features
    /\ can_transition_to(status, t)
    /\ Arrive(p, [op |-> "admin", pc |-> "transition_read", slot |-> 0, win |-> 0,
                  claim |-> None, dispute |-> None, from |-> status, to |-> t,
                  ids |-> {}, owed |-> {}])

\* The match is scheduled, checked in and played (MatchLifecycle).
PlayMatch ==
    /\ Serial => Quiescent
    /\ status \in {"ready", "scheduled", "checking_in", "pick_ban"}
    /\ status' = "in_progress"
    /\ UNCHANGED <<winner, claims, disputes, req, requests, faults, forced>>

\* auto_confirm_at passes.
ClaimFallsDue(c) ==
    /\ is_pending(c) /\ ~claims[c].due
    /\ claims' = [claims EXCEPT ![c].due = TRUE]
    /\ UNCHANGED <<status, winner, disputes, req, requests, faults, forced>>

\* A crash or a database error ends a request between two of its statements.
Die(p) ==
    /\ ~Idle(p)
    /\ faults < MaxFaults
    /\ faults' = faults + 1
    /\ Finish(p)
    /\ UNCHANGED <<status, winner, claims, disputes, requests, forced>>

UserRequest(p) ==
    \/ \E s \in Slots, w \in Slots : SubmitClaim(p, s, w)
    \/ \E w \in Slots : SubmitServerClaim(p, w)
    \/ \E c \in ClaimIds, s \in Slots : ConfirmClaim(p, c, s)
    \/ \E c \in ClaimIds : CancelClaim(p, c)
    \/ \E c \in ClaimIds, s \in Slots : DisputeClaim(p, c, s)
    \/ \E c \in ClaimIds \cup {None}, s \in Slots : RaiseDispute(p, c, s)
    \/ \E d \in DisputeIds : AssignForReview(p, d)
    \/ \E d \in DisputeIds, o \in Outcomes, w \in 0..2 : Resolve(p, d, o, w)
    \/ \E d \in DisputeIds : CancelDispute(p, d)
    \/ \E w \in Slots : OverrideResult(p, w)
    \/ \E s \in Slots : Forfeit(p, s)
    \/ \E t \in TournamentMatchStatus : AdminTransition(p, t)

\* The statement a request in flight runs next.
Statement(p) ==
    \/ CurrentRead(p)
    \/ SupersedePending(p)
    \/ CreateClaim(p)
    \/ TransitionRead(p)
    \/ TransitionWrite(p)
    \/ CancelWrite(p)
    \/ ConfirmAndApplyToMatch(p)
    \/ RunSaga(p)
    \/ DisputeMatchRead(p)
    \/ DisputeExistsRead(p)
    \/ RaiseAtomic(p)
    \/ AssignWrite(p)
    \/ UpholdWrite(p)
    \/ OverturnWrite(p)
    \/ RematchWrite(p)
    \/ DoubleDqWrite(p)
    \/ CancelDisputeWrite(p)
    \/ OverrideWrite(p)
    \/ ForfeitWrite(p)

Next ==
    \/ \E p \in Users : UserRequest(p)
    \/ \E p \in Procs : Statement(p)
    \/ AutoConfirmations
    \/ PlayMatch
    \/ \E c \in ClaimIds : ClaimFallsDue(c)
    \/ \E p \in Procs : Die(p)

Spec == Init /\ [][Next]_vars

\* A request taken up runs on, the pass ticks for ever, deadlines pass.
Fairness ==
    /\ \A p \in Procs : WF_vars(Statement(p))
    /\ WF_vars(AutoConfirmations)
    /\ \A c \in ClaimIds : WF_vars(ClaimFallsDue(c))

FairSpec == Spec /\ Fairness

-----------------------------------------------------------------------------
(* Properties *)

\* The rows and the requests in flight have their types.
TypeOK ==
    /\ status \in TournamentMatchStatus
    /\ winner \in 0..2
    /\ claims \in [ClaimIds -> Claims]
    /\ disputes \in [DisputeIds -> Disputes]
    /\ req \in [Procs -> Requests]
    /\ requests \in 0..MaxRequests
    /\ faults \in 0..MaxFaults
    /\ forced \subseteq TournamentMatchStatus

\* A claim that left pending is settled: whatever confirm, auto-confirm,
\* dispute, cancel and resubmission race for it, one wins and the others find
\* it gone (the guard `status = 'pending'` of every claim update).
ClaimSettledOnce ==
    [][ \A c \in ClaimIds :
          claims[c].status \notin {"absent", "pending"}
            => claims'[c].status = claims[c].status ]_vars

\* The completion saga of one confirmed claim is started at most once, and only
\* for a claim that was confirmed: the loser of two racing confirmations rolls
\* back and never reaches it.
SagaOncePerClaim ==
    \A c \in ClaimIds :
        claims[c].sagas <= 1 /\ (claims[c].sagas = 1 => claims[c].status = "confirmed")

\* A disputed match has a dispute an admin can resolve, unless an admin moved
\* the match there by hand (admin_transition raises none): the three writes of
\* raise_dispute and of every resolution commit together.  (Without it the match
\* would be invisible to the admin queue and blocked until it is moved by hand.)
DisputedHasOpenDispute ==
    status = "disputed" /\ "disputed" \notin forced => OpenDispute

\* A claim is never confirmed by the side that submitted it; one that nobody
\* submitted (the server's) and nobody confirmed is charged to the losing side.
ConfirmedByOpponent ==
    \A c \in ClaimIds :
        claims[c].status = "confirmed" =>
            claims[c].confirmer # claims[c].by /\ claims[c].confirmer # 0

\* When requests do not overlap, at most one claim of a match is pending: a
\* new one supersedes the last in the same transaction.
OnePendingClaim ==
    \A c, d \in PendingClaims : c = d

\* When requests do not overlap, at most one dispute of a match is open.
OneOpenDispute ==
    \A c, d \in DisputeIds : can_resolve(c) /\ can_resolve(d) => c = d

\* When requests do not overlap (and disputes are resolved, not cancelled), a
\* completed match has a winner: upholding a claim restores the claim's result,
\* not the empty one of the match row.  An admin may complete a match, or make it
\* disputed, without a winner (admin_transition).
CompletedHasWinner ==
    status = "completed" /\ forced \cap {"completed", "disputed"} = {} => winner # 0

\* No claim waits for ever: the opponent, a resubmission, a dispute or, when
\* its deadline has passed, the sweep settles it.
PendingClaimSettles ==
    \A c \in ClaimIds : is_pending(c) ~> ~is_pending(c)

\* Requests that do not overlap never leave two claims to answer or two
\* disputes to decide (create_and_supersede_pending, exists_pending_for_match).
NothingIsOpenTwice == TypeOK /\ OnePendingClaim /\ OneOpenDispute

=============================================================================
