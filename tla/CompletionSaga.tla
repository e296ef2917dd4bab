--------------------------- MODULE CompletionSaga ---------------------------
(***************************************************************************)
(* From a confirmed result to the bracket: the match_completion saga, its  *)
(* table saga_executions with the index that admits one live row of a      *)
(* match, the reviews that pause and resume it, and the background pass    *)
(* that re-drives what failed or was left behind by a crash.               *)
(*                                                                         *)
(* One match.  Its result moves the winner to the next match and, in a     *)
(* double elimination bracket, the loser to another; in a group it enters  *)
(* the standings and opens the next stage.  Every step ends by saving its  *)
(* name in the history of the saga row; the history is abstracted to the   *)
(* one entry that is ever read (`standings_updated`), so a step and its    *)
(* saving are one action except for that one.  The owner of a running row  *)
(* is its only writer until the row is ten minutes old; a run takes less   *)
(* than that, so only rows whose owner died grow stale.                    *)
(***************************************************************************)
EXTENDS MatchStatus, Naturals

CONSTANTS
    Users,       \* HTTP request handlers that may overlap
    Sweeper,     \* the background lifecycle task
    Formats,     \* the bracket formats to start from
    MaxRetries,  \* SagaDefinition.max_retries
    MaxSagas,    \* bound: rows of saga_executions
    MaxReviews,  \* bound: rows of result_reviews
    MaxResults,  \* bound: how often a result of the match is confirmed
    Serial,      \* TRUE: requests never overlap
    AllowReject, \* whether admins reject reviews
    MaxRequests, \* bound on the number of review requests
    MaxErrors,   \* bound on the number of statements of a step that fail
    MaxCrashes   \* bound on the number of requests that die half-way

ASSUME SagaAssumption ==
    /\ Sweeper \notin Users
    /\ Formats \subseteq {"single", "double", "group"}
    /\ MaxRetries \in Nat \ {0}
    /\ MaxSagas \in Nat /\ MaxReviews \in Nat /\ MaxResults \in Nat
    /\ Serial \in BOOLEAN /\ AllowReject \in BOOLEAN
    /\ MaxRequests \in Nat /\ MaxErrors \in Nat /\ MaxCrashes \in Nat

Procs == Users \cup {Sweeper}

Slots == {1, 2}

\* The matches a result feeds: winner_progresses_to and loser_progresses_to.
TargetsOf(f) == CASE f = "single" -> {"winner"}
                  [] f = "double" -> {"winner", "loser"}
                  [] OTHER        -> {}

Targets == {"winner", "loser"}

VARIABLES
    format,    \* the bracket of the match; never changes
    status,    \* tournament_matches.status of the match
    winner,    \* its winner_registration_id, as a slot; 0 is NULL
    results,   \* number of results confirmed so far
    target,    \* the matches it feeds: the slot it fills, whether the other
               \*   side is in, and whether the match is pending or ready
    sibling,   \* the other match that feeds the winner's next match
    counted,   \* the winner of the match in the standings
    seeded,    \* the winner the next stage was seeded from
    stats,     \* how often the match was added to the players' statistics
    sagas,     \* saga_executions, in order of creation
    reviews,   \* result_reviews, in order of creation
    req,       \* the state of each request in flight
    requests,  \* number of review requests so far
    errors,    \* number of failed statements so far
    crashes    \* number of dead requests so far

faults == <<errors, crashes>>

bracket == <<target, sibling, counted, seeded, stats>>

vars == <<format, status, winner, results, target, sibling, counted, seeded, stats,
          sagas, reviews, req, requests, errors, crashes>>

SagaIds == 1..MaxSagas
ReviewIds == 1..MaxReviews

SagaStatus == {"absent", "running", "completed", "failed", "paused"}

\* win and claim are the input of the saga: the winner, and whether it carries
\* the id of the claim.  stale: the row is older than ten minutes.
Sagas == [status : SagaStatus, win : 0..2, claim : BOOLEAN, retry : 0..MaxRetries,
          standings : BOOLEAN, stale : BOOLEAN]

ReviewStatus == {"absent", "pending_acknowledgment", "pending_admin_review",
                 "acknowledged", "approved", "rejected"}

Reviews == [status : ReviewStatus, kind : {"none", "roster", "score", "stall"},
            acks : SUBSET Slots]

\* What the pass remembers of a row it fetched.
Snapshots == [id : 0..MaxSagas, status : SagaStatus, retry : 0..MaxRetries,
              standings : BOOLEAN]

NoSnapshot == [id |-> 0, status |-> "absent", retry |-> 0, standings |-> FALSE]

Ops == {"none", "confirm", "redrive", "acknowledge", "approve", "reject"}

PCs == {"idle", "start", "retire", "restart", "validate", "demos", "pause",
        "complete_read", "submit", "advance", "route", "ready_read", "ready_write",
        "standings", "standings_save", "stage", "stats", "complete", "fail",
        "batch", "record", "stall", "stall_insert", "ack_write", "ack_status",
        "ack_check", "approve_write", "reject_write", "revert", "resume_read",
        "resume_check"}

\* A request: the input and the row of the saga it runs; the targets it still
\* has to mark ready; the review, the acknowledging side and whether the other
\* side had acknowledged; of the pass, the rows fetched and not yet treated,
\* the one being treated and whether its re-drive succeeded.
Requests == [op : Ops, pc : PCs, win : 0..2, claim : BOOLEAN, saga : 0..MaxSagas,
             todo : SUBSET Targets, review : 0..MaxReviews, side : 0..2,
             other : BOOLEAN, batch : SUBSET Snapshots, old : Snapshots, ok : BOOLEAN]

NoRequest == [op |-> "none", pc |-> "idle", win |-> 0, claim |-> FALSE, saga |-> 0,
              todo |-> {}, review |-> 0, side |-> 0, other |-> FALSE,
              batch |-> {}, old |-> NoSnapshot, ok |-> FALSE]

NoSaga == [status |-> "absent", win |-> 0, claim |-> FALSE, retry |-> 0,
           standings |-> FALSE, stale |-> FALSE]

NoReview == [status |-> "absent", kind |-> "none", acks |-> {}]

Idle(p) == req[p].pc = "idle"
Quiescent == \A p \in Procs : Idle(p)

Live == {s \in SagaIds : sagas[s].status = "running"}
Exists(s) == sagas[s].status # "absent"
Raised(r) == reviews[r].status # "absent"

is_pending(st) == st \in {"pending_acknowledgment", "pending_admin_review"}
review_is_terminal(st) == st \in {"approved", "rejected"}

\* find_by_match_id: r is the newest review of the match.
IsLatestReview(r) == Raised(r) /\ \A x \in ReviewIds : Raised(x) => x <= r

\* The participant a result with winner w sends to target t.
Placed(t, w) == IF t = "winner" THEN w ELSE 3 - w

HasBoth(t) == target[t].slot # 0 /\ target[t].other

Init ==
    /\ format \in Formats
    /\ status = "in_progress" /\ winner = 0 /\ results = 0
    /\ target = [t \in Targets |-> [slot |-> 0, other |-> t = "loser", status |-> "pending"]]
    /\ sibling = "playing"
    /\ counted = 0 /\ seeded = 0 /\ stats = 0
    /\ sagas = [s \in SagaIds |-> NoSaga]
    /\ reviews = [r \in ReviewIds |-> NoReview]
    /\ req = [p \in Procs |-> NoRequest]
    /\ requests = 0 /\ errors = 0 /\ crashes = 0

-----------------------------------------------------------------------------
(* Bookkeeping of requests *)

At(p, l) == req[p].pc = l
Continue(p, l) == req' = [req EXCEPT ![p].pc = l]
Finish(p) == req' = [req EXCEPT ![p] = NoRequest]

Enter(p, r) ==
    /\ Idle(p)
    /\ Serial => Quiescent
    /\ req' = [req EXCEPT ![p] = r]

\* A review request of a captain or an admin.
Arrive(p, o, l, r, s) ==
    /\ p \in Users
    /\ requests < MaxRequests
    /\ requests' = requests + 1
    /\ Enter(p, [NoRequest EXCEPT !.op = o, !.pc = l, !.review = r, !.side = s,
                                  !.other = (3 - s) \in reviews[r].acks])
    /\ UNCHANGED <<format, status, winner, results, bracket, sagas, reviews, faults>>

\* execute_completion or continue_after_review returns to its caller.  The
\* handlers answer and are done; the pass goes on to record the re-drive.
Return(p, ok) ==
    req' = [req EXCEPT ![p] = IF @.op = "redrive"
                              THEN [@ EXCEPT !.pc = "record", !.saga = 0, !.ok = ok]
                              ELSE NoRequest]

-----------------------------------------------------------------------------
(* Results: the claims component, seen from here *)

\* A captain or the game server claims a result.
SubmitClaim ==
    /\ status = "in_progress" /\ results < MaxResults
    /\ status' = "awaiting_result"
    /\ UNCHANGED <<format, winner, results, bracket, sagas, reviews, req, requests, faults>>

\* The claim is confirmed: the transaction completes the match, and the caller
\* (confirm_result or the auto-confirm phase of the pass) builds the input of
\* the saga.
ConfirmClaim(p, w) ==
    /\ status = "awaiting_result" /\ results < MaxResults
    /\ Enter(p, [NoRequest EXCEPT !.op = "confirm", !.pc = "start", !.win = w, !.claim = TRUE])
    /\ status' = "completed" /\ winner' = w
    /\ results' = results + 1
    /\ UNCHANGED <<format, bracket, sagas, reviews, requests, faults>>

-----------------------------------------------------------------------------
(* saga_executions *)

\* Mutant: a resumed saga starts after the steps that move anybody.
FirstStepTooFar(p) ==
    IF req[p].op \in {"acknowledge", "approve"} THEN "standings" ELSE "validate"

\* A resumed saga skips the two validation steps.
FirstStep(p) ==
    IF req[p].op \in {"acknowledge", "approve"} THEN "complete_read" ELSE "validate"

\* insert_running, for the next free id.
InsertRunning(p) ==
    \E s \in SagaIds :
        /\ ~Exists(s) /\ \A x \in SagaIds : x < s => Exists(x)
        /\ sagas' = [sagas EXCEPT ![s] = [NoSaga EXCEPT !.status = "running",
                                                        !.win = req[p].win,
                                                        !.claim = req[p].claim]]
        /\ req' = [req EXCEPT ![p].saga = s,
                              ![p].pc = FirstStep(p)]

\* create: the insert fails on uq_saga_executions_live_per_match if the match
\* has a live row.
StartSaga(p) ==
    /\ At(p, "start")
    /\ \/ Live = {} /\ InsertRunning(p)
       \/ Live # {} /\ Continue(p, "retire") /\ UNCHANGED sagas
    /\ UNCHANGED <<format, status, winner, results, bracket, reviews, requests, faults>>

\* Mutant: the age of the row is not asked for.
AnyLive == Live

StaleLive == {s \in Live : sagas[s].stale}

\* retire_stale_live_saga: none retired is a Conflict.
RetireStaleLiveSaga(p) ==
    /\ At(p, "retire")
    /\ sagas' = [s \in SagaIds |-> IF s \in StaleLive
                    THEN [sagas[s] EXCEPT !.status = "failed", !.retry = MaxRetries]
                    ELSE sagas[s]]
    /\ IF StaleLive = {} THEN Return(p, FALSE) ELSE Continue(p, "restart")
    /\ UNCHANGED <<format, status, winner, results, bracket, reviews, requests, faults>>

\* The second and last attempt to insert.
RestartSaga(p) ==
    /\ At(p, "restart")
    /\ \/ Live = {} /\ InsertRunning(p)
       \/ Live # {} /\ Return(p, FALSE) /\ UNCHANGED sagas
    /\ UNCHANGED <<format, status, winner, results, bracket, reviews, requests, faults>>

\* complete_saga, fail_saga, pause_saga: the row goes to status st.  A paused
\* saga is a success to the caller.
EndSaga(p, l, st) ==
    /\ At(p, l)
    /\ sagas' = [sagas EXCEPT ![req[p].saga].status = st]
    /\ Return(p, st # "failed")
    /\ UNCHANGED <<format, status, winner, results, bracket, reviews, requests, faults>>

CompleteSaga(p) == EndSaga(p, "complete", "completed")
FailSaga(p) == EndSaga(p, "fail", "failed")
PauseSaga(p) == EndSaga(p, "pause", "paused")

-----------------------------------------------------------------------------
(* The steps of the saga *)

\* Step 1.  A failed step raises retry_count before fail_saga saves the row.
StepValidateMatch(p) ==
    LET valid == status = "completed" \/ can_transition_to(status, "completed")
    IN  /\ At(p, "validate")
        /\ sagas' = [sagas EXCEPT ![req[p].saga].retry = IF valid THEN @ ELSE @ + 1]
        /\ Continue(p, IF valid THEN "demos" ELSE "fail")
        /\ UNCHANGED <<format, status, winner, results, bracket, reviews, requests, faults>>

\* INSERT INTO result_reviews
InsertReview(kind, st) ==
    \E r \in ReviewIds :
        /\ ~Raised(r) /\ \A x \in ReviewIds : x < r => Raised(x)
        /\ reviews' = [reviews EXCEPT ![r] = [status |-> st, kind |-> kind, acks |-> {}]]

\* Step 2.  Without a claim there is nothing to validate.  Otherwise the demos
\* agree, or a review is created, which is pending, and the saga pauses.
StepValidateDemos(p) ==
    /\ At(p, "demos")
    /\ \/ Continue(p, "complete_read") /\ UNCHANGED reviews
       \/ /\ req[p].claim
          /\ \/ InsertReview("roster", "pending_acknowledgment")
             \/ InsertReview("score", "pending_admin_review")
          /\ Continue(p, "pause")
    /\ UNCHANGED <<format, status, winner, results, bracket, sagas, requests, faults>>

\* Steps 3 and 4: the bracket is read; a completed match is left alone ...
StepCompleteMatch(p) ==
    /\ At(p, "complete_read")
    /\ Continue(p, IF status = "completed" THEN "advance" ELSE "submit")
    /\ UNCHANGED <<format, status, winner, results, bracket, sagas, reviews, requests, faults>>

\* ... and any other one is completed with the saga's input, by id.
SubmitResult(p) ==
    /\ At(p, "submit")
    /\ status' = "completed" /\ winner' = req[p].win
    /\ Continue(p, "advance")
    /\ UNCHANGED <<format, results, bracket, sagas, reviews, requests, faults>>

\* assign_participant, and the target is remembered for mark_ready_matches.
AssignParticipant(p, t, l) ==
    /\ IF t \in TargetsOf(format)
       THEN /\ target' = [target EXCEPT ![t].slot = Placed(t, req[p].win)]
            /\ req' = [req EXCEPT ![p].pc = l, ![p].todo = @ \cup {t}]
       ELSE Continue(p, l) /\ UNCHANGED target
    /\ UNCHANGED <<format, status, winner, results, sibling, counted, seeded, stats,
                   sagas, reviews, requests, faults>>

\* Mutant: the match the winner went to is not passed on.
AdvanceWinnerOnly(p) ==
    /\ At(p, "advance")
    /\ target' = IF "winner" \in TargetsOf(format)
                 THEN [target EXCEPT !["winner"].slot = req[p].win] ELSE target
    /\ Continue(p, "route")
    /\ UNCHANGED <<format, status, winner, results, sibling, counted, seeded, stats,
                   sagas, reviews, requests, faults>>

\* Step 5
StepAdvanceWinner(p) == At(p, "advance") /\ AssignParticipant(p, "winner", "route")

\* Step 6
StepRouteLoser(p) == At(p, "route") /\ AssignParticipant(p, "loser", "ready_read")

\* Step 6.5: for the winner's match and then the loser's, read it ...
StepMarkReadyMatches(p) ==
    /\ At(p, "ready_read")
    /\ IF req[p].todo = {}
       THEN Continue(p, "standings")
       ELSE LET t == IF "winner" \in req[p].todo THEN "winner" ELSE "loser"
            IN  IF target[t].status = "pending" /\ HasBoth(t)
                THEN Continue(p, "ready_write")
                ELSE req' = [req EXCEPT ![p].todo = @ \ {t}]
    /\ UNCHANGED <<format, status, winner, results, bracket, sagas, reviews, requests, faults>>

\* ... and write its status by id.
MarkReadyWrite(p) ==
    LET t == IF "winner" \in req[p].todo THEN "winner" ELSE "loser"
    IN  /\ At(p, "ready_write")
        /\ target' = [target EXCEPT ![t].status = "ready"]
        /\ req' = [req EXCEPT ![p].todo = @ \ {t}, ![p].pc = "ready_read"]
        /\ UNCHANGED <<format, status, winner, results, sibling, counted, seeded, stats,
                       sagas, reviews, requests, faults>>

\* Step 7: recompute_bracket derives the standings from the completed matches.
StepUpdateStandings(p) ==
    /\ At(p, "standings")
    /\ IF format = "group"
       THEN /\ counted' = IF status = "completed" THEN winner ELSE 0
            /\ Continue(p, "standings_save")
       ELSE Continue(p, "stage") /\ UNCHANGED counted
    /\ UNCHANGED <<format, status, winner, results, target, sibling, seeded, stats,
                   sagas, reviews, requests, faults>>

\* complete_step with standings_updated: true.
SaveStandingsStep(p) ==
    /\ At(p, "standings_save")
    /\ sagas' = [sagas EXCEPT ![req[p].saga].standings = TRUE]
    /\ Continue(p, "stage")
    /\ UNCHANGED <<format, status, winner, results, bracket, reviews, requests, faults>>

\* Step 7.5: the last result of a group seeds the next stage, once.
StepAdvanceStage(p) ==
    /\ At(p, "stage")
    /\ seeded' = IF format = "group" /\ status = "completed" /\ seeded = 0
                 THEN counted ELSE seeded
    /\ Continue(p, "stats")
    /\ UNCHANGED <<format, status, winner, results, target, sibling, counted, stats,
                   sagas, reviews, requests, faults>>

\* Step 8: best effort, an error is logged and the saga goes on.
StepUpdatePlayerStats(p) ==
    /\ At(p, "stats")
    /\ \/ stats' = stats + 1 /\ UNCHANGED faults
       \/ errors < MaxErrors /\ errors' = errors + 1 /\ UNCHANGED <<stats, crashes>>
    /\ Continue(p, "complete")
    /\ UNCHANGED <<format, status, winner, results, target, sibling, counted, seeded,
                   sagas, reviews, requests>>

-----------------------------------------------------------------------------
(* The re-drive phase of the pass *)

\* Mutant: rows left running by a crash are not looked for.
RetryableFailed(s) == sagas[s].retry < MaxRetries /\ sagas[s].status = "failed"

\* find_retryable: failed rows and rows whose owner is gone, with retries left.
is_retryable(s) ==
    /\ sagas[s].retry < MaxRetries
    /\ \/ sagas[s].status = "failed"
       \/ sagas[s].status = "running" /\ sagas[s].stale

Snapshot(s) == [id |-> s, status |-> sagas[s].status, retry |-> sagas[s].retry,
                standings |-> sagas[s].standings]

\* The pass fetches its candidates.
RedriveStuckCompletionSagas ==
    LET candidates == {s \in SagaIds : is_retryable(s)}
    IN  /\ candidates # {}
        /\ Enter(Sweeper, [NoRequest EXCEPT !.op = "redrive", !.pc = "batch",
                                            !.batch = {Snapshot(s) : s \in candidates}])
        /\ UNCHANGED <<format, status, winner, results, bracket, sagas, reviews,
                       requests, faults>>

\* A candidate that recorded its standings is given up, any other is executed
\* afresh from its own input.
Redriven(r, o) ==
    [r EXCEPT !.batch = r.batch \ {o}, !.old = o, !.todo = {}, !.win = sagas[o.id].win,
              !.claim = sagas[o.id].claim, !.ok = o.standings,
              !.pc = IF o.standings THEN "stall" ELSE "start"]

\* The loop over the candidates.
RedriveNext(p) ==
    /\ At(p, "batch")
    /\ \/ req[p].batch = {} /\ Finish(p)
       \/ \E o \in req[p].batch : req' = [req EXCEPT ![p] = Redriven(req[p], o)]
    /\ UNCHANGED <<format, status, winner, results, bracket, sagas, reviews, requests, faults>>

\* record_retry: the remembered row is written back whole.  One that would make
\* a second live row is refused by the index.  The last retry is made visible.
RecordRetry(p) ==
    LET o == req[p].old
        retry == IF req[p].ok THEN MaxRetries ELSE o.retry + 1
        st == IF req[p].ok /\ o.status = "running" THEN "failed" ELSE o.status
        refused == st = "running" /\ Live \ {o.id} # {}
    IN  /\ At(p, "record")
        /\ sagas' = IF refused THEN sagas
                    ELSE [sagas EXCEPT ![o.id].status = st, ![o.id].retry = retry,
                                       ![o.id].standings = o.standings]
        /\ Continue(p, IF ~req[p].ok /\ retry >= MaxRetries THEN "stall" ELSE "batch")
        /\ UNCHANGED <<format, status, winner, results, bracket, reviews, requests, faults>>

\* After the stall review: a row given up for its standings is still to be
\* retired, one that ran out of retries is done with.
AfterStall(p) == Continue(p, IF req[p].old.standings THEN "record" ELSE "batch")

\* raise_progression_stall: not without a claim, and not if the match has any
\* review.
RaiseProgressionStall(p) ==
    /\ At(p, "stall")
    /\ IF req[p].claim /\ ~ \E r \in ReviewIds : Raised(r) THEN Continue(p, "stall_insert") ELSE AfterStall(p)
    /\ UNCHANGED <<format, status, winner, results, bracket, sagas, reviews, requests, faults>>

InsertStallReview(p) ==
    /\ At(p, "stall_insert")
    /\ InsertReview("stall", "pending_admin_review")
    /\ AfterStall(p)
    /\ UNCHANGED <<format, status, winner, results, bracket, sagas, requests, faults>>

-----------------------------------------------------------------------------
(* Result reviews *)

\* acknowledge: the newest review of the match, which must await
\* acknowledgement, and not from this side's captain a second time.
Acknowledge(p, side) ==
    \E r \in ReviewIds :
        /\ IsLatestReview(r)
        /\ reviews[r].status = "pending_acknowledgment"
        /\ side \notin reviews[r].acks
        /\ Arrive(p, "acknowledge", "ack_write", r, side)

\* update_captain_acknowledgment; whether the other captain had acknowledged
\* was read before.
UpdateCaptainAcknowledgment(p) ==
    /\ At(p, "ack_write")
    /\ reviews' = [reviews EXCEPT ![req[p].review].acks = @ \cup {req[p].side}]
    /\ Continue(p, IF req[p].other THEN "ack_status" ELSE "ack_check")
    /\ UNCHANGED <<format, status, winner, results, bracket, sagas, requests, faults>>

\* UPDATE result_reviews SET status, by id.
SetReviewStatus(p, l, st, next) ==
    /\ At(p, l)
    /\ reviews' = [reviews EXCEPT ![req[p].review].status = st]
    /\ Continue(p, next)
    /\ UNCHANGED <<format, status, winner, results, bracket, sagas, requests, faults>>

SetAcknowledged(p) == SetReviewStatus(p, "ack_status", "acknowledged", "ack_check")
ApproveWrite(p) == SetReviewStatus(p, "approve_write", "approved", "resume_read")
RejectWrite(p) == SetReviewStatus(p, "reject_write", "rejected", "revert")

\* The handler resumes the saga when the review it fetched back has both
\* acknowledgements and is about the roster only.
AcknowledgedCheck(p) ==
    LET r == reviews[req[p].review]
    IN  /\ At(p, "ack_check")
        /\ IF r.acks = Slots /\ r.kind = "roster" THEN Continue(p, "resume_read") ELSE Finish(p)
        /\ UNCHANGED <<format, status, winner, results, bracket, sagas, reviews,
                       requests, faults>>

\* approve and reject: any review that is not approved or rejected yet.
Approve(p, r) ==
    /\ Raised(r) /\ ~review_is_terminal(reviews[r].status)
    /\ Arrive(p, "approve", "approve_write", r, 0)

Reject(p, r) ==
    /\ AllowReject
    /\ Raised(r) /\ ~review_is_terminal(reviews[r].status)
    /\ Arrive(p, "reject", "reject_write", r, 0)

\* A rejected result: the status goes back by id, the winner stays.
RevertMatch(p) ==
    /\ At(p, "revert")
    /\ status' = "in_progress"
    /\ Finish(p)
    /\ UNCHANGED <<format, winner, results, bracket, sagas, reviews, requests, faults>>

\* resume_saga_after_review takes the input from the match row; then
\* continue_after_review tests the newest review of the match.
ResumeRead(p) ==
    LET blocked == \E r \in ReviewIds :
                      /\ IsLatestReview(r)
                      /\ is_pending(reviews[r].status) \/ reviews[r].status = "rejected"
    IN  /\ At(p, "resume_read")
        /\ IF winner = 0 \/ blocked
           THEN Finish(p)
           ELSE req' = [req EXCEPT ![p].pc = "resume_check", ![p].win = winner]
        /\ UNCHANGED <<format, status, winner, results, bracket, sagas, reviews,
                       requests, faults>>

\* Mutant: the guard asks for a live saga.
AlreadyRunning == Live # {}

AlreadyApplied == \E s \in SagaIds : sagas[s].status = "completed"

\* The guard against a double resume: a completed saga of the match.
ResumeCheck(p) ==
    /\ At(p, "resume_check")
    /\ IF AlreadyApplied THEN Finish(p) ELSE Continue(p, "start")
    /\ UNCHANGED <<format, status, winner, results, bracket, sagas, reviews, requests, faults>>

-----------------------------------------------------------------------------
(* The other match that feeds the winner's next match runs the same steps: *)
(* it assigns its winner, reads the match and marks it ready.              *)

SiblingStep(from, to, t) ==
    /\ sibling = from /\ sibling' = to
    /\ target' = [target EXCEPT !["winner"] = t]
    /\ UNCHANGED <<format, status, winner, results, counted, seeded, stats, sagas,
                   reviews, req, requests, faults>>

SiblingAssign ==
    /\ "winner" \in TargetsOf(format)
    /\ SiblingStep("playing", "assigned", [target["winner"] EXCEPT !.other = TRUE])

SiblingReadReady ==
    SiblingStep("assigned",
                IF target["winner"].status = "pending" /\ HasBoth("winner") THEN "read" ELSE "done",
                target["winner"])

SiblingMarkReady == SiblingStep("read", "done", [target["winner"] EXCEPT !.status = "ready"])

-----------------------------------------------------------------------------
(* Time and failures *)

\* Ten minutes after it started a row is taken for a leftover.
SagaGrowsStale(s) ==
    /\ sagas[s].status = "running" /\ ~sagas[s].stale
    /\ \A p \in Procs : req[p].saga # s
    /\ sagas' = [sagas EXCEPT ![s].stale = TRUE]
    /\ UNCHANGED <<format, status, winner, results, bracket, reviews, req, requests, faults>>

\* A statement of a step fails: the error reaches fail_saga.
StepError(p) ==
    /\ req[p].pc \in {"validate", "demos", "complete_read", "submit", "advance", "route",
                      "ready_read", "ready_write", "standings", "standings_save", "stage"}
    /\ errors < MaxErrors /\ errors' = errors + 1
    /\ Continue(p, "fail")
    /\ UNCHANGED <<format, status, winner, results, bracket, sagas, reviews, requests, crashes>>

\* The process dies, or the request is dropped.
Die(p) ==
    /\ ~Idle(p)
    /\ crashes < MaxCrashes /\ crashes' = crashes + 1
    /\ Finish(p)
    /\ UNCHANGED <<format, status, winner, results, bracket, sagas, reviews, requests, errors>>

-----------------------------------------------------------------------------
(* The specification *)

Step(p) ==
    \/ StepValidateMatch(p) \/ StepValidateDemos(p) \/ StepCompleteMatch(p)
    \/ SubmitResult(p) \/ StepAdvanceWinner(p) \/ StepRouteLoser(p)
    \/ StepMarkReadyMatches(p) \/ MarkReadyWrite(p) \/ StepUpdateStandings(p)
    \/ SaveStandingsStep(p) \/ StepAdvanceStage(p) \/ StepUpdatePlayerStats(p)

Statement(p) ==
    \/ StartSaga(p) \/ RetireStaleLiveSaga(p) \/ RestartSaga(p)
    \/ CompleteSaga(p) \/ FailSaga(p) \/ PauseSaga(p)
    \/ Step(p)
    \/ RedriveNext(p) \/ RecordRetry(p) \/ RaiseProgressionStall(p) \/ InsertStallReview(p)
    \/ UpdateCaptainAcknowledgment(p) \/ SetAcknowledged(p) \/ AcknowledgedCheck(p)
    \/ ApproveWrite(p) \/ RejectWrite(p) \/ RevertMatch(p)
    \/ ResumeRead(p) \/ ResumeCheck(p)

ReviewRequest(p) ==
    \/ \E side \in Slots : Acknowledge(p, side)
    \/ \E r \in ReviewIds : Approve(p, r) \/ Reject(p, r)

Sibling == SiblingAssign \/ SiblingReadReady \/ SiblingMarkReady

Next ==
    \/ SubmitClaim
    \/ \E p \in Procs, w \in Slots : ConfirmClaim(p, w)
    \/ \E p \in Users : ReviewRequest(p)
    \/ \E p \in Procs : Statement(p) \/ StepError(p) \/ Die(p)
    \/ RedriveStuckCompletionSagas
    \/ Sibling
    \/ \E s \in SagaIds : SagaGrowsStale(s)

Spec == Init /\ [][Next]_vars

\* A request that was taken up is polled until it ends; the pass ticks for
\* ever; time passes.
Fairness ==
    /\ \A p \in Procs : WF_vars(Statement(p))
    /\ WF_vars(RedriveStuckCompletionSagas)
    /\ \A s \in SagaIds : WF_vars(SagaGrowsStale(s))

LiveSpec == Spec /\ Fairness

-----------------------------------------------------------------------------
(* Properties *)

\* Every variable has its type.
TypeOK ==
    /\ format \in {"single", "double", "group"}
    /\ status \in TournamentMatchStatus /\ winner \in 0..2 /\ results \in 0..MaxResults
    /\ target \in [Targets -> [slot : 0..2, other : BOOLEAN, status : {"pending", "ready"}]]
    /\ sibling \in {"playing", "assigned", "read", "done"}
    /\ counted \in 0..2 /\ seeded \in 0..2 /\ stats \in Nat
    /\ sagas \in [SagaIds -> Sagas]
    /\ reviews \in [ReviewIds -> Reviews]
    /\ req \in [Procs -> Requests]
    /\ requests \in 0..MaxRequests
    /\ errors \in 0..MaxErrors /\ crashes \in 0..MaxCrashes

\* The completion of a match is never run twice at the same time: whatever
\* confirmations, resumed reviews and re-drives overlap, the live-row index and
\* the ten minutes of retire_stale_live_saga let one through.
OneRunner == \A p, q \in Procs : req[p].saga # 0 /\ req[q].saga # 0 => p = q

\* A saga that reports completion has done its work: both sides sit where its
\* input sends them, or the standings were recomputed, whatever failed, died,
\* was resumed or overwritten before.
SagaAppliesItsResult ==
    [][ \A s \in SagaIds :
          sagas[s].status # "completed" /\ sagas'[s].status = "completed" =>
            /\ \A t \in TargetsOf(format) : target[t].slot = Placed(t, sagas[s].win)
            /\ format = "group" => sagas[s].standings ]_vars

\* Two matches feed the next one at the same time, and each looks whether the
\* other side is in: once both are finished, a match with both sides is not
\* left pending (step_mark_ready_matches after assign_participant).
FullMatchIsReady ==
    Quiescent /\ sibling \in {"playing", "done"}
      /\ (\E s \in SagaIds : sagas[s].status = "completed")
    => \A t \in TargetsOf(format) : HasBoth(t) => target[t].status = "ready"

\* The guard of continue_after_review: when requests neither overlap nor fail,
\* acknowledgement and approval of one review do not count a result twice in
\* the players' statistics.
StatsOncePerResult == errors + crashes = 0 => stats <= results

\* A result is applied: who it sends on is there, the standings have it.
Applied ==
    /\ \A t \in TargetsOf(format) : target[t].slot = Placed(t, winner)
    /\ format = "group" => counted = winner

\* The promise of the re-drive: once a completion has a saga row, the result is
\* eventually applied or somebody is told (a review exists), whichever step
\* fails and whichever process dies.
SagaSettles ==
    (\E s \in SagaIds : Exists(s)) ~> (Applied \/ \E r \in ReviewIds : Raised(r))

=============================================================================
