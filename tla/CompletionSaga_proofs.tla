----------------------- MODULE CompletionSaga_proofs -----------------------
(***************************************************************************)
(* Proofs about CompletionSaga, for any number of concurrent handlers,     *)
(* rows, results, failures and crashes.                                    *)
(***************************************************************************)
EXTENDS CompletionSaga, TLAPS

USE DEF Procs, Slots

-----------------------------------------------------------------------------
(* The inductive invariant *)

\* Where a request runs a saga of its own ...
OwnerPCs == {"validate", "demos", "pause", "complete_read", "submit", "advance",
             "route", "ready_read", "ready_write", "standings", "standings_save",
             "stage", "stats", "complete", "fail"}

\* ... and where it is about to.
WinnerPCs == OwnerPCs \cup {"start", "retire", "restart", "resume_check"}

\* A row the pass remembers exists in the table t, was failed or left behind
\* when it was fetched, and no process runs it now.
SnapshotOK(o, t) ==
    /\ o.retry < MaxRetries
    /\ o.id # 0 =>
         /\ t[o.id].status # "absent"
         /\ o.status \in {"failed", "running"}
         /\ o.status = "running" \/ t[o.id].status = "running" => t[o.id].stale

\* What a request carries where it needs it.
RequestOK(r, t) ==
    /\ r.pc \in WinnerPCs => r.win \in Slots
    /\ r.pc = "ack_write" => r.side \in Slots
    /\ SnapshotOK(r.old, t)
    /\ \A o \in r.batch : o.id # 0 /\ SnapshotOK(o, t)

\* The row of a process that runs a saga is live and not taken for a leftover.
OwnerOK(r, t) ==
    /\ r.saga # 0 <=> r.pc \in OwnerPCs
    /\ r.saga # 0 => t[r.saga].status = "running" /\ ~t[r.saga].stale
    /\ r.pc = "validate" => t[r.saga].retry = 0

RequestsOK == \A p \in Procs : RequestOK(req[p], sagas) /\ OwnerOK(req[p], sagas)

\* A saga names a winner.
WinsOK(t) == \A s \in SagaIds : t[s].status # "absent" => t[s].win \in Slots

RowsOK == WinsOK(sagas)

Inv == TypeOK /\ RequestsOK /\ RowsOK /\ OneRunner

\* What the invariant says of requests and rows, which most steps preserve for
\* the same reason.
ReqInv == req \in [Procs -> Requests] /\ RequestsOK /\ RowsOK /\ OneRunner

\* How the table may change under requests that remember rows: rows stay, stay
\* stale, and go back to running only if they are stale.
RowsGrow(t, u) ==
    \A s \in SagaIds :
        /\ t[s].status # "absent" => u[s].status # "absent"
        /\ t[s].status # "absent" /\ t[s].stale => u[s].stale
        /\ t[s].status # "absent" /\ u[s].status = "running"
             => t[s].status = "running" \/ u[s].stale

\* A request stays in order while the table only grows.
LEMMA RequestSurvives ==
    ASSUME NEW t, NEW u, RowsGrow(t, u), NEW r \in Requests, RequestOK(r, t)
    PROVE  RequestOK(r, u)
<1>1. ASSUME NEW o \in Snapshots, SnapshotOK(o, t) PROVE SnapshotOK(o, u)
  <2>1. o.id # 0 => o.id \in SagaIds
    BY SagaAssumption DEF Snapshots, SagaIds, SagaAssumption
  <2> QED BY <1>1, <2>1 DEF RowsGrow, SnapshotOK
<1>2. r.old \in Snapshots /\ r.batch \subseteq Snapshots
  BY DEF Requests
<1> QED BY <1>1, <1>2 DEF RequestOK

\* An idle process is in order, whatever the table.
LEMMA NoRequestOK ==
    ASSUME NEW t
    PROVE  /\ NoRequest \in Requests
           /\ NoRequest.saga = 0
           /\ RequestOK(NoRequest, t)
           /\ OwnerOK(NoRequest, t)
BY SagaAssumption DEF SagaAssumption, NoRequest, NoSnapshot, Requests, Snapshots, Ops, PCs,
   SagaStatus, RequestOK, OwnerOK, SnapshotOK, WinnerPCs, OwnerPCs

\* A step of one request.
LEMMA RequestAndRowsMove ==
    ASSUME Inv, NEW p \in Procs, NEW r \in Requests, NEW t,
           req' = [req EXCEPT ![p] = r], sagas' = t,
           RequestOK(r, t), OwnerOK(r, t), RowsGrow(sagas, t), WinsOK(t),
           \A q \in Procs \ {p} : OwnerOK(req[q], t),
           r.saga \in {0, req[p].saga} \/ \A q \in Procs : req[q].saga = 0
    PROVE  ReqInv'
<1>1. req \in [Procs -> Requests] /\ RequestsOK /\ OneRunner
  BY DEF Inv, TypeOK
<1>2. req' \in [Procs -> Requests] /\ \A q \in Procs : req'[q] = IF q = p THEN r ELSE req[q]
  BY <1>1
<1>3. RequestsOK'
  <2> SUFFICES ASSUME NEW q \in Procs
               PROVE  RequestOK(req'[q], sagas') /\ OwnerOK(req'[q], sagas')
    BY DEF RequestsOK
  <2>1. CASE q = p
    BY <1>2, <2>1
  <2>2. CASE q # p
    <3>1. req'[q] = req[q] /\ req[q] \in Requests /\ RequestOK(req[q], sagas)
      BY <1>1, <1>2, <2>2 DEF RequestsOK
    <3>2. RequestOK(req[q], t)
      BY <3>1, RequestSurvives
    <3> QED BY <3>1, <3>2, <2>2
  <2> QED BY <2>1, <2>2
<1>4. RowsOK'
  BY DEF RowsOK, WinsOK, SagaIds
<1>5. OneRunner'
  BY <1>1, <1>2 DEF OneRunner
<1> QED BY <1>2, <1>3, <1>4, <1>5 DEF ReqInv

\* A step of one request that leaves saga_executions alone.
LEMMA RequestMoves ==
    ASSUME Inv, NEW p \in Procs, NEW r \in Requests,
           req' = [req EXCEPT ![p] = r],
           RequestOK(r, sagas), OwnerOK(r, sagas), r.saga \in {0, req[p].saga},
           UNCHANGED sagas
    PROVE  ReqInv'
<1>1. RowsGrow(sagas, sagas)
  BY DEF RowsGrow
<1>2. WinsOK(sagas) /\ \A q \in Procs : OwnerOK(req[q], sagas)
  BY DEF Inv, RowsOK, RequestsOK
<1> QED BY <1>1, <1>2, RequestAndRowsMove

\* A request goes on to a statement of the same kind.
LEMMA ContinueKeeps ==
    ASSUME Inv, NEW p \in Procs, NEW l \in PCs, Continue(p, l), UNCHANGED sagas,
           l \in OwnerPCs <=> req[p].pc \in OwnerPCs,
           l \in WinnerPCs => req[p].pc \in WinnerPCs,
           l # "validate", l # "ack_write"
    PROVE  ReqInv'
<1> DEFINE r == [req[p] EXCEPT !.pc = l]
<1>1. /\ req[p] \in Requests /\ RequestOK(req[p], sagas) /\ OwnerOK(req[p], sagas)
      /\ req \in [Procs -> Requests]
  BY DEF Inv, TypeOK, RequestsOK
<1>2. r \in Requests /\ r.saga = req[p].saga
  BY <1>1 DEF Requests
<1>3. RequestOK(r, sagas)
  BY <1>1 DEF RequestOK, Requests
<1>4. OwnerOK(r, sagas)
  BY <1>1 DEF OwnerOK, Requests
<1>5. req' = [req EXCEPT ![p] = r]
  BY <1>1 DEF Continue
<1> QED BY <1>2, <1>3, <1>4, <1>5, RequestMoves

\* A request ends.
LEMMA FinishKeeps ==
    ASSUME Inv, NEW p \in Procs, Finish(p), UNCHANGED sagas
    PROVE  ReqInv'
BY NoRequestOK, RequestMoves DEF Finish

\* The two matches the result feeds.
TargetRows == [Targets -> [slot : 0..2, other : BOOLEAN, status : {"pending", "ready"}]]

\* TypeOK has two parts: the requests, which the lemmas above deal with, and the
\* tables.
TablesOK ==
    /\ format \in {"single", "double", "group"}
    /\ status \in TournamentMatchStatus /\ winner \in 0..2 /\ results \in 0..MaxResults
    /\ target \in TargetRows
    /\ sibling \in {"playing", "assigned", "read", "done"}
    /\ counted \in 0..2 /\ seeded \in 0..2 /\ stats \in Nat
    /\ sagas \in [SagaIds -> Sagas]
    /\ reviews \in [ReviewIds -> Reviews]
    /\ requests \in 0..MaxRequests
    /\ errors \in 0..MaxErrors /\ crashes \in 0..MaxCrashes

\* The invariant is the tables and the requests.
LEMMA TwoParts == Inv <=> TablesOK /\ ReqInv
BY DEF Inv, TablesOK, ReqInv, TypeOK, TargetRows

\* The same, for the state after a step.
LEMMA TwoPartsNext == TablesOK' /\ ReqInv' => Inv'
BY DEF Inv, TablesOK, ReqInv, TypeOK, TargetRows

-----------------------------------------------------------------------------
(* The steps of the saga *)

\* Slots of the match the result feeds.
LEMMA TargetUpdates ==
    ASSUME target \in TargetRows,
           NEW t \in Targets, NEW k \in 0..2
    PROVE  /\ [target EXCEPT ![t].slot = k] \in TargetRows
           /\ [target EXCEPT ![t].status = "ready"] \in TargetRows
BY DEF TargetRows

\* INSERT INTO result_reviews keeps the table.
LEMMA InsertReviewType ==
    ASSUME reviews \in [ReviewIds -> Reviews],
           NEW k \in {"none", "roster", "score", "stall"}, NEW st \in ReviewStatus,
           InsertReview(k, st)
    PROVE  reviews' \in [ReviewIds -> Reviews]
BY DEF InsertReview, Reviews

\* Updates of one row of saga_executions keep the table.
LEMMA SagaUpdates ==
    ASSUME sagas \in [SagaIds -> Sagas], NEW s
    PROVE  /\ \A st \in SagaStatus : [sagas EXCEPT ![s].status = st] \in [SagaIds -> Sagas]
           /\ \A k \in 0..MaxRetries : [sagas EXCEPT ![s].retry = k] \in [SagaIds -> Sagas]
           /\ [sagas EXCEPT ![s].standings = TRUE] \in [SagaIds -> Sagas]
           /\ [sagas EXCEPT ![s].stale = TRUE] \in [SagaIds -> Sagas]
<1>1. ASSUME NEW x \in Sagas, NEW st \in SagaStatus PROVE [x EXCEPT !.status = st] \in Sagas
  BY DEF Sagas
<1>2. ASSUME NEW x \in Sagas, NEW k \in 0..MaxRetries PROVE [x EXCEPT !.retry = k] \in Sagas
  BY DEF Sagas
<1>3. ASSUME NEW x \in Sagas PROVE [x EXCEPT !.standings = TRUE] \in Sagas
  BY DEF Sagas
<1>4. ASSUME NEW x \in Sagas PROVE [x EXCEPT !.stale = TRUE] \in Sagas
  BY DEF Sagas
<1> QED BY <1>1, <1>2, <1>3, <1>4

\* While one process runs a saga, the others depend on no row.
LEMMA OthersRunNone ==
    ASSUME Inv, NEW p \in Procs, req[p].saga # 0, NEW t
    PROVE  \A q \in Procs \ {p} : OwnerOK(req[q], t)
<1> SUFFICES ASSUME NEW q \in Procs \ {p} PROVE OwnerOK(req[q], t)
  OBVIOUS
<1>1. req[q].saga = 0 /\ OwnerOK(req[q], sagas)
  BY DEF Inv, OneRunner, RequestsOK
<1> QED BY <1>1 DEF OwnerOK, OwnerPCs

\* The owner of a row changes it.
LEMMA OwnRowMoves ==
    ASSUME Inv, NEW p \in Procs, req[p].saga # 0, NEW r \in Requests,
           NEW t \in [SagaIds -> Sagas],
           req' = [req EXCEPT ![p] = r], sagas' = t,
           \A s \in SagaIds : s # req[p].saga => t[s] = sagas[s],
           t[req[p].saga].status # "absent",
           t[req[p].saga].win = sagas[req[p].saga].win,
           RequestOK(r, sagas), OwnerOK(r, t), r.saga \in {0, req[p].saga}
    PROVE  ReqInv'
<1>1. /\ sagas[req[p].saga].status = "running" /\ ~sagas[req[p].saga].stale
      /\ WinsOK(sagas)
  BY DEF Inv, RequestsOK, OwnerOK, RowsOK
<1>2. RowsGrow(sagas, t)
  BY <1>1 DEF RowsGrow
<1>3. WinsOK(t)
  BY <1>1 DEF WinsOK
<1>4. RequestOK(r, t)
  BY <1>2, RequestSurvives
<1> QED BY <1>2, <1>3, <1>4, OthersRunNone, RequestAndRowsMove

\* The fields of a request that goes on with another list of targets.
LEMMA TodoKeeps ==
    ASSUME Inv, NEW p \in Procs, NEW l \in PCs, NEW T \in SUBSET Targets,
           req' = [req EXCEPT ![p].pc = l, ![p].todo = T], UNCHANGED sagas,
           l \in OwnerPCs, req[p].pc \in OwnerPCs, l # "validate"
    PROVE  ReqInv'
<1> DEFINE r == [req[p] EXCEPT !.pc = l, !.todo = T]
<1>1. /\ req[p] \in Requests /\ RequestOK(req[p], sagas) /\ OwnerOK(req[p], sagas)
      /\ req \in [Procs -> Requests]
  BY DEF Inv, TypeOK, RequestsOK
<1>2. r \in Requests
  BY <1>1 DEF Requests
<1>3. /\ r.pc = l /\ r.saga = req[p].saga /\ r.win = req[p].win
      /\ r.old = req[p].old /\ r.batch = req[p].batch
  BY <1>1 DEF Requests
<1>4. RequestOK(r, sagas) /\ OwnerOK(r, sagas)
  BY <1>1, <1>3 DEF RequestOK, OwnerOK, WinnerPCs, OwnerPCs
<1>5. req' = [req EXCEPT ![p] = r]
  BY <1>1
<1> QED BY <1>2, <1>3, <1>4, <1>5, RequestMoves

\* What a process that runs a saga may rely on.
LEMMA OwnerSaga ==
    ASSUME Inv, NEW p \in Procs, req[p].pc \in OwnerPCs
    PROVE  /\ req[p].saga \in SagaIds /\ req[p].win \in Slots
           /\ sagas[req[p].saga] \in Sagas
           /\ sagas[req[p].saga].status = "running" /\ ~sagas[req[p].saga].stale
<1>1. req[p] \in Requests /\ RequestOK(req[p], sagas) /\ OwnerOK(req[p], sagas)
  BY DEF Inv, TypeOK, RequestsOK
<1>2. req[p].saga \in SagaIds
  BY <1>1, SagaAssumption DEF Requests, OwnerOK, SagaIds, SagaAssumption
<1> QED BY <1>1, <1>2 DEF RequestOK, OwnerOK, WinnerPCs, Inv, TypeOK

\* Step 1 counts its failure in the row, once.
LEMMA ValidateKeeps ==
    ASSUME Inv, NEW p \in Procs, StepValidateMatch(p)
    PROVE  Inv'
<1> DEFINE own == req[p].saga
           l == IF status = "completed" \/ can_transition_to(status, "completed")
                THEN "demos" ELSE "fail"
           k == IF status = "completed" \/ can_transition_to(status, "completed")
                THEN sagas[own].retry ELSE sagas[own].retry + 1
           r == [req[p] EXCEPT !.pc = l]
           t == [sagas EXCEPT ![own].retry = k]
<1>1. req[p].pc = "validate" /\ req[p].pc \in OwnerPCs /\ l \in {"demos", "fail"}
  BY DEF StepValidateMatch, At, OwnerPCs
<1>2. /\ req[p] \in Requests /\ RequestOK(req[p], sagas) /\ OwnerOK(req[p], sagas)
      /\ req \in [Procs -> Requests] /\ sagas \in [SagaIds -> Sagas]
  BY DEF Inv, TypeOK, RequestsOK
<1>3. own \in SagaIds /\ own # 0 /\ sagas[own].status = "running" /\ ~sagas[own].stale
  BY <1>1, OwnerSaga, SagaAssumption DEF SagaIds, SagaAssumption
<1>4. k \in 0..MaxRetries
  BY <1>1, <1>2, SagaAssumption DEF OwnerOK, SagaAssumption
<1>5. t \in [SagaIds -> Sagas]
  BY <1>2, <1>4, SagaUpdates
<1>6. req' = [req EXCEPT ![p] = r] /\ sagas' = t
  BY <1>2, <1>3 DEF StepValidateMatch, Continue
<1>7. r \in Requests /\ r.pc = l /\ r.saga = own /\ r.win = req[p].win
      /\ r.old = req[p].old /\ r.batch = req[p].batch
  BY <1>1, <1>2 DEF Requests, PCs
<1>8. /\ t[own].status = "running" /\ ~t[own].stale /\ t[own].win = sagas[own].win
      /\ \A s \in SagaIds : s # own => t[s] = sagas[s]
  BY <1>2, <1>3 DEF Sagas
<1>9. RequestOK(r, sagas) /\ OwnerOK(r, t)
  BY <1>1, <1>2, <1>3, <1>7, <1>8 DEF RequestOK, OwnerOK, WinnerPCs, OwnerPCs
<1> HIDE DEF l, k, r, t
<1>10. ReqInv'
  BY <1>3, <1>5, <1>6, <1>7, <1>8, <1>9, OwnRowMoves
<1>11. TablesOK'
  BY <1>5, <1>6 DEF StepValidateMatch, TablesOK, Inv, TypeOK, TargetRows, bracket, faults
<1> QED BY <1>10, <1>11, TwoPartsNext

\* complete_step of the standings step.
LEMMA SaveStandingsKeeps ==
    ASSUME Inv, NEW p \in Procs, SaveStandingsStep(p)
    PROVE  Inv'
<1> DEFINE own == req[p].saga
           r == [req[p] EXCEPT !.pc = "stage"]
           t == [sagas EXCEPT ![own].standings = TRUE]
<1>1. req[p].pc = "standings_save" /\ req[p].pc \in OwnerPCs
  BY DEF SaveStandingsStep, At, OwnerPCs
<1>2. /\ req[p] \in Requests /\ RequestOK(req[p], sagas) /\ OwnerOK(req[p], sagas)
      /\ req \in [Procs -> Requests] /\ sagas \in [SagaIds -> Sagas]
  BY DEF Inv, TypeOK, RequestsOK
<1>3. own \in SagaIds /\ own # 0 /\ sagas[own].status = "running" /\ ~sagas[own].stale
  BY <1>1, OwnerSaga, SagaAssumption DEF SagaIds, SagaAssumption
<1>5. t \in [SagaIds -> Sagas]
  BY <1>2, SagaUpdates
<1>6. req' = [req EXCEPT ![p] = r] /\ sagas' = t
  BY <1>2, <1>3 DEF SaveStandingsStep, Continue
<1>7. r \in Requests /\ r.pc = "stage" /\ r.saga = own /\ r.win = req[p].win
      /\ r.old = req[p].old /\ r.batch = req[p].batch
  BY <1>1, <1>2 DEF Requests, PCs
<1>8. /\ t[own].status = "running" /\ ~t[own].stale /\ t[own].win = sagas[own].win
      /\ \A s \in SagaIds : s # own => t[s] = sagas[s]
  BY <1>2, <1>3 DEF Sagas
<1>9. RequestOK(r, sagas) /\ OwnerOK(r, t)
  BY <1>1, <1>2, <1>3, <1>7, <1>8 DEF RequestOK, OwnerOK, WinnerPCs, OwnerPCs
<1>10. ReqInv'
  BY <1>3, <1>5, <1>6, <1>7, <1>8, <1>9, OwnRowMoves
<1>11. TablesOK'
  BY <1>5, <1>6 DEF SaveStandingsStep, TablesOK, Inv, TypeOK, TargetRows, bracket, faults
<1> QED BY <1>10, <1>11, TwoPartsNext

\* Assigning a participant.
LEMMA AssignKeeps ==
    ASSUME Inv, NEW p \in Procs, NEW t \in Targets, NEW l \in {"route", "ready_read"},
           req[p].pc \in {"advance", "route"}, AssignParticipant(p, t, l)
    PROVE  Inv'
<1>1. req[p].pc \in OwnerPCs /\ l \in OwnerPCs /\ l \in PCs /\ l # "validate"
  BY DEF OwnerPCs, PCs
<1>2. req[p] \in Requests /\ req[p].todo \cup {t} \in SUBSET Targets
      /\ req \in [Procs -> Requests] /\ req[p].win \in Slots /\ TablesOK
  BY <1>1, OwnerSaga DEF Inv, TypeOK, Requests, TablesOK, TargetRows
<1>3. CASE t \in TargetsOf(format)
  <2>1. req' = [req EXCEPT ![p].pc = l, ![p].todo = req[p].todo \cup {t}]
    BY <1>2, <1>3 DEF AssignParticipant
  <2>2. ReqInv'
    BY <1>1, <1>2, <2>1, TodoKeeps DEF AssignParticipant
  <2>3. Placed(t, req[p].win) \in 0..2
    BY <1>2 DEF Placed
  <2>4. target' \in TargetRows
    <3>1. target' = [target EXCEPT ![t].slot = Placed(t, req[p].win)]
      BY <1>3 DEF AssignParticipant
    <3>2. target \in TargetRows
      BY <1>2 DEF TablesOK
    <3> QED BY <3>1, <3>2, <2>3, TargetUpdates
  <2>5. TablesOK'
    BY <1>2, <2>4 DEF AssignParticipant, TablesOK, faults
  <2> QED BY <2>2, <2>5, TwoPartsNext
<1>4. CASE t \notin TargetsOf(format)
  <2>1. ReqInv'
    <3>1. Continue(p, l) /\ UNCHANGED sagas
      BY <1>4 DEF AssignParticipant
    <3>2. l \in WinnerPCs => req[p].pc \in WinnerPCs
      BY <1>1 DEF WinnerPCs
    <3>3. l # "ack_write"
      OBVIOUS
    <3> QED BY <1>1, <3>1, <3>2, <3>3, ContinueKeeps
  <2>2. TablesOK'
    BY <1>2, <1>4 DEF AssignParticipant, TablesOK, faults
  <2> QED BY <2>1, <2>2, TwoPartsNext
<1> QED BY <1>3, <1>4

\* The other steps of the saga.
LEMMA StepKeeps ==
    ASSUME Inv, NEW p \in Procs, Step(p)
    PROVE  Inv'
<1>a. TablesOK /\ req[p] \in Requests /\ req \in [Procs -> Requests]
  BY DEF Inv, TypeOK, TablesOK, TargetRows
<1>1. CASE StepValidateDemos(p)
  <2>1. ReqInv'
    BY <1>1, ContinueKeeps DEF StepValidateDemos, At, PCs, OwnerPCs, WinnerPCs
  <2>2. reviews' \in [ReviewIds -> Reviews]
    BY <1>1, <1>a, InsertReviewType DEF StepValidateDemos, TablesOK, ReviewStatus
  <2>3. TablesOK'
    BY <1>1, <1>a, <2>2 DEF StepValidateDemos, TablesOK, bracket, faults
  <2> QED BY <2>1, <2>3, TwoPartsNext
<1>2. CASE StepCompleteMatch(p)
  <2>1. ReqInv'
    BY <1>2, ContinueKeeps DEF StepCompleteMatch, At, PCs, OwnerPCs, WinnerPCs
  <2>2. TablesOK'
    BY <1>2, <1>a DEF StepCompleteMatch, TablesOK, bracket, faults
  <2> QED BY <2>1, <2>2, TwoPartsNext
<1>3. CASE SubmitResult(p)
  <2>1. ReqInv'
    BY <1>3, ContinueKeeps DEF SubmitResult, At, PCs, OwnerPCs, WinnerPCs
  <2>2. TablesOK'
    BY <1>3, <1>a DEF SubmitResult, TablesOK, Requests, TournamentMatchStatus, bracket, faults
  <2> QED BY <2>1, <2>2, TwoPartsNext
<1>4. CASE StepAdvanceWinner(p)
  BY <1>4, AssignKeeps DEF StepAdvanceWinner, At, Targets
<1>5. CASE StepRouteLoser(p)
  BY <1>5, AssignKeeps DEF StepRouteLoser, At, Targets
<1>6. CASE StepMarkReadyMatches(p)
  <2>1. TablesOK'
    BY <1>6, <1>a DEF StepMarkReadyMatches, TablesOK, bracket, faults
  <2>2. CASE Continue(p, "standings") \/ Continue(p, "ready_write")
    <3>1. ReqInv'
      BY <1>6, <2>2, ContinueKeeps DEF StepMarkReadyMatches, At, PCs, OwnerPCs, WinnerPCs
    <3> QED BY <2>1, <3>1, TwoPartsNext
  <2>3. CASE \E t \in Targets : req' = [req EXCEPT ![p].todo = @ \ {t}]
    <3>1. PICK t \in Targets : req' = [req EXCEPT ![p].todo = @ \ {t}]
      BY <2>3
    <3>2. req[p].pc = "ready_read" /\ req[p].todo \ {t} \in SUBSET Targets
      BY <1>6, <1>a DEF StepMarkReadyMatches, At, Requests
    <3>3. req' = [req EXCEPT ![p].pc = "ready_read", ![p].todo = req[p].todo \ {t}]
      BY <1>a, <3>1, <3>2 DEF Requests
    <3>4. ReqInv'
      <4>1. "ready_read" \in PCs /\ "ready_read" \in OwnerPCs /\ UNCHANGED sagas
        BY <1>6 DEF StepMarkReadyMatches, OwnerPCs, PCs
      <4> QED BY <3>2, <3>3, <4>1, TodoKeeps
    <3> QED BY <2>1, <3>4, TwoPartsNext
  <2> QED BY <1>6, <2>2, <2>3 DEF StepMarkReadyMatches, Targets
<1>7. CASE MarkReadyWrite(p)
  <2>1. PICK t \in Targets : /\ target' = [target EXCEPT ![t].status = "ready"]
                             /\ req' = [req EXCEPT ![p].todo = @ \ {t}, ![p].pc = "ready_read"]
    BY <1>7 DEF MarkReadyWrite, Targets
  <2>2. req[p].pc = "ready_write" /\ req[p].todo \ {t} \in SUBSET Targets
    BY <1>7, <1>a DEF MarkReadyWrite, At, Requests
  <2>3. req' = [req EXCEPT ![p].pc = "ready_read", ![p].todo = req[p].todo \ {t}]
    BY <1>a, <2>1, <2>2 DEF Requests
  <2>4. ReqInv'
    <3>1. /\ "ready_read" \in PCs /\ "ready_read" \in OwnerPCs
          /\ "ready_write" \in OwnerPCs /\ UNCHANGED sagas
      BY <1>7 DEF MarkReadyWrite, OwnerPCs, PCs
    <3> QED BY <2>2, <2>3, <3>1, TodoKeeps
  <2>5. target' \in TargetRows
    BY <1>a, <2>1, TargetUpdates DEF TablesOK
  <2>6. TablesOK'
    BY <1>7, <1>a, <2>5 DEF MarkReadyWrite, TablesOK, faults
  <2> QED BY <2>4, <2>6, TwoPartsNext
<1>8. CASE StepUpdateStandings(p)
  <2>1. ReqInv'
    BY <1>8, ContinueKeeps DEF StepUpdateStandings, At, PCs, OwnerPCs, WinnerPCs
  <2>2. TablesOK'
    BY <1>8, <1>a DEF StepUpdateStandings, TablesOK, faults
  <2> QED BY <2>1, <2>2, TwoPartsNext
<1>9. CASE StepAdvanceStage(p)
  <2>1. ReqInv'
    BY <1>9, ContinueKeeps DEF StepAdvanceStage, At, PCs, OwnerPCs, WinnerPCs
  <2>2. TablesOK'
    BY <1>9, <1>a DEF StepAdvanceStage, TablesOK, faults
  <2> QED BY <2>1, <2>2, TwoPartsNext
<1>10. CASE StepUpdatePlayerStats(p)
  <2>1. ReqInv'
    BY <1>10, ContinueKeeps DEF StepUpdatePlayerStats, At, PCs, OwnerPCs, WinnerPCs
  <2>2. TablesOK'
    BY <1>10, <1>a, SagaAssumption DEF StepUpdatePlayerStats, TablesOK, faults, SagaAssumption
  <2> QED BY <2>1, <2>2, TwoPartsNext
<1> QED
  BY <1>1, <1>2, <1>3, <1>4, <1>5, <1>6, <1>7, <1>8, <1>9, <1>10, ValidateKeeps,
     SaveStandingsKeeps DEF Step

-----------------------------------------------------------------------------
(* saga_executions *)

\* Where no row is live, nobody runs a saga.
LEMMA NoLiveNoRunner ==
    ASSUME Inv, Live = {}
    PROVE  \A q \in Procs : req[q].saga = 0
<1> SUFFICES ASSUME NEW q \in Procs, req[q].saga # 0 PROVE FALSE
  OBVIOUS
<1>1. req[q].pc \in OwnerPCs
  BY DEF Inv, RequestsOK, OwnerOK
<1> QED BY <1>1, OwnerSaga DEF Live

\* The index admits the insert only where nobody runs a saga.
LEMMA InsertKeeps ==
    ASSUME Inv, NEW p \in Procs, req[p].pc \in {"start", "restart"}, Live = {}, InsertRunning(p)
    PROVE  ReqInv' /\ sagas' \in [SagaIds -> Sagas]
<1>1. PICK s \in SagaIds :
        /\ ~Exists(s)
        /\ sagas' = [sagas EXCEPT ![s] = [NoSaga EXCEPT !.status = "running",
                                                        !.win = req[p].win,
                                                        !.claim = req[p].claim]]
        /\ req' = [req EXCEPT ![p].saga = s, ![p].pc = FirstStep(p)]
  BY DEF InsertRunning
<1> DEFINE l == FirstStep(p)
           r == [req[p] EXCEPT !.saga = s, !.pc = l]
           x == [NoSaga EXCEPT !.status = "running", !.win = req[p].win,
                               !.claim = req[p].claim]
           t == [sagas EXCEPT ![s] = x]
<1>2. /\ req[p] \in Requests /\ RequestOK(req[p], sagas)
      /\ req \in [Procs -> Requests] /\ sagas \in [SagaIds -> Sagas] /\ WinsOK(sagas)
  BY DEF Inv, TypeOK, RequestsOK, RowsOK
<1>3. req[p].win \in Slots /\ req[p].claim \in BOOLEAN
  BY <1>2 DEF RequestOK, WinnerPCs, Requests
<1>4. x \in Sagas /\ x.status = "running" /\ x.win = req[p].win /\ x.stale = FALSE /\ x.retry = 0
  <2> DEFINE y == [NoSaga EXCEPT !.status = "running", !.win = req[p].win]
  <2>1. 0 \in 0..MaxRetries /\ "running" \in SagaStatus /\ req[p].win \in 0..2
    BY <1>3, SagaAssumption DEF SagaAssumption, SagaStatus
  <2>2. y \in Sagas /\ y.status = "running" /\ y.win = req[p].win
        /\ y.stale = FALSE /\ y.retry = 0
    BY <2>1 DEF Sagas, NoSaga
  <2>3. x = [y EXCEPT !.claim = req[p].claim]
    BY DEF NoSaga
  <2> HIDE DEF x, y
  <2>4. ASSUME NEW z \in Sagas, NEW c \in BOOLEAN PROVE [z EXCEPT !.claim = c] \in Sagas
    BY Zenon DEF Sagas
  <2>5. x \in Sagas
    BY <1>3, <2>2, <2>3, <2>4
  <2> QED BY <2>2, <2>3, <2>5 DEF Sagas
<1>5. l \in OwnerPCs /\ l \in PCs /\ l \in WinnerPCs /\ l # "ack_write"
  BY DEF FirstStep, OwnerPCs, PCs, WinnerPCs
<1>6. s \in 0..MaxSagas /\ s # 0
  BY SagaAssumption DEF SagaIds, SagaAssumption
<1> HIDE DEF l, x
<1>7. r \in Requests
  BY <1>2, <1>5, <1>6 DEF Requests
<1>8. r.pc = l /\ r.saga = s /\ r.win = req[p].win /\ r.old = req[p].old
      /\ r.batch = req[p].batch
  BY <1>2 DEF Requests
<1>9. t \in [SagaIds -> Sagas] /\ t[s] = x /\ \A y \in SagaIds : y # s => t[y] = sagas[y]
  BY <1>2, <1>4
<1>10. req' = [req EXCEPT ![p] = r] /\ sagas' = t
  BY <1>1, <1>2 DEF l, x
<1> HIDE DEF r, t
<1>11. RowsGrow(sagas, t)
  BY <1>1, <1>4, <1>9 DEF RowsGrow, Exists
<1>12. WinsOK(t)
  BY <1>2, <1>3, <1>4, <1>9 DEF WinsOK
<1>13. RequestOK(r, sagas)
  BY <1>2, <1>3, <1>5, <1>8 DEF RequestOK
<1>14. RequestOK(r, t)
  BY <1>7, <1>11, <1>13, RequestSurvives
<1>15. OwnerOK(r, t)
  BY <1>4, <1>5, <1>6, <1>8, <1>9 DEF OwnerOK
<1>16. \A q \in Procs \ {p} : OwnerOK(req[q], t)
  BY NoLiveNoRunner DEF Inv, RequestsOK, OwnerOK, OwnerPCs
<1>17. ReqInv'
  BY <1>7, <1>10, <1>11, <1>12, <1>14, <1>15, <1>16, NoLiveNoRunner, RequestAndRowsMove
<1> QED BY <1>9, <1>10, <1>17

\* The outcomes of a return, for a table u that the step leaves behind.
LEMMA ReturnOK ==
    ASSUME Inv, NEW p \in Procs, NEW ok \in BOOLEAN, Return(p, ok), NEW u
    PROVE  \E r \in Requests :
             /\ req' = [req EXCEPT ![p] = r] /\ r.saga = 0
             /\ RequestOK(r, sagas) /\ OwnerOK(r, u)
<1> DEFINE r == [req[p] EXCEPT !.pc = "record", !.saga = 0, !.ok = ok]
<1>1. /\ req[p] \in Requests /\ RequestOK(req[p], sagas) /\ req \in [Procs -> Requests]
  BY DEF Inv, TypeOK, RequestsOK
<1>2. r \in Requests
  <2>1. 0 \in 0..MaxSagas
    BY SagaAssumption DEF SagaAssumption
  <2>2. "record" \in PCs
    BY DEF PCs
  <2>3. [req[p] EXCEPT !.pc = "record", !.saga = 0] \in Requests
    BY <1>1, <2>1, <2>2 DEF Requests
  <2>4. ASSUME NEW x \in Requests PROVE [x EXCEPT !.ok = ok] \in Requests
    BY Zenon DEF Requests
  <2>5. r = [[req[p] EXCEPT !.pc = "record", !.saga = 0] EXCEPT !.ok = ok]
    BY <1>1 DEF Requests
  <2> QED BY <2>3, <2>4, <2>5
<1>3. /\ r.saga = 0 /\ r.pc = "record"
      /\ r.old = req[p].old /\ r.batch = req[p].batch
  BY <1>1 DEF Requests
<1>4. "record" \notin WinnerPCs /\ "record" \notin OwnerPCs
  BY DEF WinnerPCs, OwnerPCs
<1>5. req' = [req EXCEPT ![p] = r] \/ req' = [req EXCEPT ![p] = NoRequest]
  BY <1>1 DEF Return
<1> HIDE DEF r
<1>6. RequestOK(r, sagas) /\ OwnerOK(r, u)
  BY <1>1, <1>3, <1>4 DEF RequestOK, OwnerOK
<1> QED BY <1>2, <1>3, <1>5, <1>6, NoRequestOK

\* execute_completion returns without touching a row.
LEMMA ReturnKeeps ==
    ASSUME Inv, NEW p \in Procs, NEW ok \in BOOLEAN, Return(p, ok), UNCHANGED sagas
    PROVE  ReqInv'
<1>1. PICK r \in Requests : /\ req' = [req EXCEPT ![p] = r] /\ r.saga = 0
                            /\ RequestOK(r, sagas) /\ OwnerOK(r, sagas)
  BY ReturnOK
<1> QED BY <1>1, RequestMoves

\* create and its Conflict.
LEMMA StartKeeps ==
    ASSUME Inv, NEW p \in Procs, StartSaga(p)
    PROVE  Inv'
<1>1. req[p].pc = "start"
  BY DEF StartSaga, At
<1>2. CASE Live = {} /\ InsertRunning(p)
  <2>1. TablesOK'
    BY <1>1, <1>2, InsertKeeps DEF StartSaga, TablesOK, Inv, TypeOK, TargetRows, bracket, faults
  <2> QED BY <1>1, <1>2, <2>1, InsertKeeps, TwoPartsNext
<1>3. CASE Continue(p, "retire") /\ UNCHANGED sagas
  <2>1. ReqInv'
    BY <1>1, <1>3, ContinueKeeps DEF PCs, OwnerPCs, WinnerPCs
  <2>2. TablesOK'
    BY <1>3 DEF StartSaga, TablesOK, Inv, TypeOK, TargetRows, bracket, faults
  <2> QED BY <2>1, <2>2, TwoPartsNext
<1> QED BY <1>2, <1>3 DEF StartSaga

\* The second insert.
LEMMA RestartKeeps ==
    ASSUME Inv, NEW p \in Procs, RestartSaga(p)
    PROVE  Inv'
<1>1. req[p].pc = "restart"
  BY DEF RestartSaga, At
<1>2. CASE Live = {} /\ InsertRunning(p)
  <2>1. TablesOK'
    BY <1>1, <1>2, InsertKeeps DEF RestartSaga, TablesOK, Inv, TypeOK, TargetRows, bracket, faults
  <2> QED BY <1>1, <1>2, <2>1, InsertKeeps, TwoPartsNext
<1>3. CASE Return(p, FALSE) /\ UNCHANGED sagas
  <2>1. ReqInv'
    BY <1>3, ReturnKeeps
  <2>2. TablesOK'
    BY <1>3 DEF RestartSaga, TablesOK, Inv, TypeOK, TargetRows, bracket, faults
  <2> QED BY <2>1, <2>2, TwoPartsNext
<1> QED BY <1>2, <1>3 DEF RestartSaga

\* Only rows that nobody runs are retired.
LEMMA RetireKeeps ==
    ASSUME Inv, NEW p \in Procs, RetireStaleLiveSaga(p)
    PROVE  Inv'
<1> DEFINE t == [s \in SagaIds |-> IF s \in StaleLive
                    THEN [sagas[s] EXCEPT !.status = "failed", !.retry = MaxRetries]
                    ELSE sagas[s]]
<1>1. req[p].pc = "retire" /\ sagas' = t
  BY DEF RetireStaleLiveSaga, At
<1>2. sagas \in [SagaIds -> Sagas] /\ WinsOK(sagas) /\ req \in [Procs -> Requests]
      /\ req[p] \in Requests /\ RequestOK(req[p], sagas) /\ OwnerOK(req[p], sagas)
  BY DEF Inv, TypeOK, RowsOK, RequestsOK
<1>3. \A s \in SagaIds :
        IF s \in StaleLive
        THEN /\ t[s] \in Sagas /\ t[s].status = "failed"
             /\ t[s].win = sagas[s].win /\ t[s].stale = sagas[s].stale
        ELSE t[s] = sagas[s] /\ t[s] \in Sagas
  <2>1. ASSUME NEW x \in Sagas
        PROVE  LET y == [x EXCEPT !.status = "failed", !.retry = MaxRetries]
               IN  y \in Sagas /\ y.status = "failed" /\ y.win = x.win /\ y.stale = x.stale
    <3> DEFINE y == [x EXCEPT !.status = "failed", !.retry = MaxRetries]
    <3>1. MaxRetries \in 0..MaxRetries /\ "failed" \in SagaStatus
      BY SagaAssumption DEF SagaAssumption, SagaStatus
    <3>2. y \in Sagas /\ y.status = "failed" /\ y.win = x.win
      BY <3>1 DEF Sagas
    <3>3. y.stale = x.stale
      BY Zenon DEF Sagas
    <3> QED BY <3>2, <3>3
  <2>2. \A s \in SagaIds : sagas[s] \in Sagas
    BY <1>2
  <2> QED BY <2>1, <2>2
<1>4. t \in [SagaIds -> Sagas]
  BY <1>3
<1> HIDE DEF t
<1>5. RowsGrow(sagas, t)
  BY <1>3 DEF RowsGrow
<1>6. WinsOK(t)
  BY <1>2, <1>3 DEF WinsOK, StaleLive, Live
<1>7. \A q \in Procs : OwnerOK(req[q], t)
  <2> SUFFICES ASSUME NEW q \in Procs PROVE OwnerOK(req[q], t)
    OBVIOUS
  <2>1. OwnerOK(req[q], sagas)
    BY DEF Inv, RequestsOK
  <2>2. CASE req[q].pc \in OwnerPCs
    <3>1. req[q].saga \in SagaIds /\ req[q].saga \notin StaleLive
      BY <2>2, OwnerSaga DEF StaleLive
    <3> QED BY <1>3, <2>1, <3>1 DEF OwnerOK
  <2>3. CASE req[q].pc \notin OwnerPCs
    BY <2>1, <2>3 DEF OwnerOK, OwnerPCs
  <2> QED BY <2>2, <2>3
<1>8. ASSUME Return(p, FALSE) PROVE ReqInv'
  <2>1. PICK r \in Requests : /\ req' = [req EXCEPT ![p] = r] /\ r.saga = 0
                              /\ RequestOK(r, sagas) /\ OwnerOK(r, t)
    BY <1>8, ReturnOK
  <2>2. RequestOK(r, t)
    BY <1>5, <2>1, RequestSurvives
  <2> QED BY <1>1, <1>5, <1>6, <1>7, <2>1, <2>2, RequestAndRowsMove
<1>9. ASSUME Continue(p, "restart") PROVE ReqInv'
  <2> DEFINE r == [req[p] EXCEPT !.pc = "restart"]
  <2>1. req' = [req EXCEPT ![p] = r]
    BY <1>2, <1>9 DEF Continue
  <2>2. r \in Requests
    BY <1>2 DEF Requests, PCs
  <2>3. r.pc = "restart" /\ r.saga = req[p].saga /\ r.win = req[p].win
        /\ r.old = req[p].old /\ r.batch = req[p].batch
    BY <1>2 DEF Requests
  <2>4. RequestOK(r, sagas) /\ OwnerOK(r, t)
    BY <1>1, <1>2, <1>7, <2>3 DEF RequestOK, OwnerOK, WinnerPCs, OwnerPCs
  <2>5. RequestOK(r, t)
    BY <1>5, <2>2, <2>4, RequestSurvives
  <2> HIDE DEF r
  <2> QED BY <1>1, <1>5, <1>6, <1>7, <2>1, <2>2, <2>3, <2>4, <2>5, RequestAndRowsMove
<1>10. ReqInv'
  BY <1>8, <1>9 DEF RetireStaleLiveSaga
<1>11. TablesOK'
  BY <1>1, <1>4 DEF RetireStaleLiveSaga, TablesOK, Inv, TypeOK, TargetRows, bracket, faults
<1> QED BY <1>10, <1>11, TwoPartsNext

\* The owner ends its run.
LEMMA EndKeeps ==
    ASSUME Inv, NEW p \in Procs, NEW l \in OwnerPCs, NEW st \in SagaStatus \ {"absent"},
           EndSaga(p, l, st)
    PROVE  Inv'
<1> DEFINE own == req[p].saga
           t == [sagas EXCEPT ![own].status = st]
<1>1. req[p].pc \in OwnerPCs /\ sagas' = t
  BY DEF EndSaga, At
<1>2. own \in SagaIds /\ own # 0 /\ sagas \in [SagaIds -> Sagas]
  BY <1>1, OwnerSaga, SagaAssumption DEF SagaIds, SagaAssumption, Inv, TypeOK
<1>3. t \in [SagaIds -> Sagas]
  BY <1>2, SagaUpdates
<1>4. /\ t[own].status = st /\ t[own].win = sagas[own].win
      /\ \A s \in SagaIds : s # own => t[s] = sagas[s]
  BY <1>2 DEF Sagas
<1> HIDE DEF t
<1>5. PICK r \in Requests : /\ req' = [req EXCEPT ![p] = r] /\ r.saga = 0
                            /\ RequestOK(r, sagas) /\ OwnerOK(r, t)
  <2>1. (st # "failed") \in BOOLEAN
    OBVIOUS
  <2> QED BY <2>1, ReturnOK DEF EndSaga
<1>6. ReqInv'
  BY <1>1, <1>2, <1>3, <1>4, <1>5, OwnRowMoves
<1>7. TablesOK'
  BY <1>1, <1>3 DEF EndSaga, TablesOK, Inv, TypeOK, TargetRows, bracket, faults
<1> QED BY <1>6, <1>7, TwoPartsNext

-----------------------------------------------------------------------------
(* The re-drive *)

\* A request is taken up.
LEMMA EnterKeeps ==
    ASSUME Inv, NEW p \in Procs, NEW r \in Requests, Enter(p, r), UNCHANGED sagas,
           RequestOK(r, sagas), OwnerOK(r, sagas), r.saga = 0
    PROVE  ReqInv'
BY RequestMoves DEF Enter

\* What the pass fetches is what it may write back.
LEMMA FetchKeeps ==
    ASSUME Inv, RedriveStuckCompletionSagas
    PROVE  Inv'
<1> DEFINE B == {Snapshot(s) : s \in {x \in SagaIds : is_retryable(x)}}
           r == [NoRequest EXCEPT !.op = "redrive", !.pc = "batch", !.batch = B]
<1>1. Sweeper \in Procs /\ Enter(Sweeper, r)
  BY DEF RedriveStuckCompletionSagas
<1>2. \A s \in SagaIds : is_retryable(s) =>
        /\ Snapshot(s) \in Snapshots /\ Snapshot(s).id # 0 /\ SnapshotOK(Snapshot(s), sagas)
  <2> SUFFICES ASSUME NEW s \in SagaIds, is_retryable(s)
               PROVE  /\ Snapshot(s) \in Snapshots /\ Snapshot(s).id # 0
                      /\ SnapshotOK(Snapshot(s), sagas)
    OBVIOUS
  <2>1. sagas[s] \in Sagas /\ s \in 0..MaxSagas /\ s # 0
    BY SagaAssumption DEF Inv, TypeOK, SagaIds, SagaAssumption
  <2>2. Snapshot(s) \in Snapshots
    <3>1. /\ sagas[s].status \in SagaStatus /\ sagas[s].retry \in 0..MaxRetries
          /\ sagas[s].standings \in BOOLEAN
      BY <2>1, Zenon DEF Sagas
    <3> QED BY <2>1, <3>1, Zenon DEF Snapshot, Snapshots
  <2>3. /\ Snapshot(s).id = s /\ Snapshot(s).status = sagas[s].status
        /\ Snapshot(s).retry = sagas[s].retry
    BY DEF Snapshot
  <2>4. SnapshotOK(Snapshot(s), sagas)
    BY <2>1, <2>3 DEF SnapshotOK, is_retryable
  <2> QED BY <2>1, <2>2, <2>3, <2>4
<1>3. B \subseteq Snapshots /\ \A o \in B : o.id # 0 /\ SnapshotOK(o, sagas)
  BY <1>2
<1> HIDE DEF B
<1>4. r \in Requests
  BY <1>3, NoRequestOK DEF Requests, Ops, PCs
<1>5. r.pc = "batch" /\ r.saga = 0 /\ r.batch = B /\ r.old = NoRequest.old
  BY DEF NoRequest
<1>6. SnapshotOK(NoRequest.old, sagas)
  BY NoRequestOK DEF RequestOK
<1>7. RequestOK(r, sagas) /\ OwnerOK(r, sagas)
  BY <1>3, <1>5, <1>6 DEF RequestOK, OwnerOK, WinnerPCs, OwnerPCs
<1>8. ReqInv'
  BY <1>1, <1>4, <1>5, <1>7, EnterKeeps DEF RedriveStuckCompletionSagas
<1>9. TablesOK'
  BY DEF RedriveStuckCompletionSagas, TablesOK, Inv, TypeOK, TargetRows, bracket, faults
<1> QED BY <1>8, <1>9, TwoPartsNext

\* The pass takes the next row it remembers.
LEMMA RedriveNextKeeps ==
    ASSUME Inv, NEW p \in Procs, RedriveNext(p)
    PROVE  Inv'
<1>1. TablesOK'
  BY DEF RedriveNext, TablesOK, Inv, TypeOK, TargetRows, bracket, faults
<1>2. CASE Finish(p)
  BY <1>1, <1>2, FinishKeeps, TwoPartsNext DEF RedriveNext
<1>3. CASE ~Finish(p)
  <2>1. /\ req[p] \in Requests /\ RequestOK(req[p], sagas) /\ OwnerOK(req[p], sagas)
        /\ req \in [Procs -> Requests] /\ sagas \in [SagaIds -> Sagas] /\ WinsOK(sagas)
    BY DEF Inv, TypeOK, RequestsOK, RowsOK
  <2>2. PICK o \in req[p].batch : req' = [req EXCEPT ![p] = Redriven(req[p], o)]
    BY <1>3 DEF RedriveNext
  <2>3. o \in Snapshots /\ o.id # 0 /\ SnapshotOK(o, sagas)
    BY <2>1 DEF RequestOK, Requests
  <2>4. o.id \in SagaIds /\ sagas[o.id] \in Sagas /\ o.standings \in BOOLEAN
    <3>1. o.id \in 0..MaxSagas
      BY <2>3, Zenon DEF Snapshots
    <3>2. o.id \in SagaIds
      BY <2>3, <3>1, SagaAssumption DEF SagaIds, SagaAssumption
    <3>3. o.standings \in BOOLEAN
      BY <2>3, Zenon DEF Snapshots
    <3> QED BY <2>1, <3>2, <3>3
  <2>5. sagas[o.id].win \in Slots
    BY <2>1, <2>3, <2>4 DEF SnapshotOK, WinsOK
  <2>6. sagas[o.id].claim \in BOOLEAN
    BY <2>4, Zenon DEF Sagas
  <2> DEFINE l == IF o.standings THEN "stall" ELSE "start"
             w == sagas[o.id].win
             x == [req[p] EXCEPT !.batch = req[p].batch \ {o}, !.old = o, !.todo = {},
                                !.win = w, !.pc = l]
             y == [x EXCEPT !.claim = sagas[o.id].claim]
             r == [y EXCEPT !.ok = o.standings]
  <2>7. l \in PCs /\ l \in {"stall", "start"} /\ w \in 0..2 /\ w \in Slots
    BY <2>5 DEF PCs
  <2>8. Redriven(req[p], o) = r
    BY <2>1, Zenon DEF Requests, Redriven
  <2> HIDE DEF l, w
  <2>9. x \in Requests
    BY <2>1, <2>3, <2>7 DEF Requests
  <2>10. /\ x.pc = l /\ x.saga = req[p].saga /\ x.win = w
         /\ x.old = o /\ x.batch = req[p].batch \ {o}
    BY <2>1 DEF Requests
  <2> HIDE DEF x
  <2>11. y \in Requests
    BY <2>6, <2>9, Zenon DEF Requests
  <2>12. y.pc = x.pc /\ y.saga = x.saga /\ y.win = x.win /\ y.old = x.old /\ y.batch = x.batch
    BY <2>9 DEF Requests
  <2> HIDE DEF y
  <2>13. r \in Requests
    BY <2>4, <2>11, Zenon DEF Requests
  <2>14. r.pc = y.pc /\ r.saga = y.saga /\ r.win = y.win /\ r.old = y.old /\ r.batch = y.batch
    BY <2>11 DEF Requests
  <2>15. req[p].pc = "batch" /\ req[p].saga = 0
    BY <2>1 DEF RedriveNext, At, OwnerOK, OwnerPCs
  <2> HIDE DEF r
  <2>16. RequestOK(r, sagas)
    BY <2>1, <2>3, <2>7, <2>10, <2>12, <2>14 DEF RequestOK
  <2>17. OwnerOK(r, sagas)
    BY <2>7, <2>10, <2>12, <2>14, <2>15 DEF OwnerOK, OwnerPCs
  <2>18. req' = [req EXCEPT ![p] = r] /\ r.saga = req[p].saga
    BY <2>2, <2>8, <2>10, <2>12, <2>14
  <2>19. ReqInv'
    BY <2>13, <2>16, <2>17, <2>18, RequestMoves DEF RedriveNext
  <2> QED BY <1>1, <2>19, TwoPartsNext
<1> QED BY <1>2, <1>3

\* A row is written back from memory: never one that somebody runs.
LEMMA RecordKeeps ==
    ASSUME Inv, NEW p \in Procs, RecordRetry(p)
    PROVE  Inv'
<1> DEFINE o == req[p].old
           retry == IF req[p].ok THEN MaxRetries ELSE o.retry + 1
           st == IF req[p].ok /\ o.status = "running" THEN "failed" ELSE o.status
           u == [sagas EXCEPT ![o.id].status = st, ![o.id].retry = retry,
                              ![o.id].standings = o.standings]
           l == IF ~req[p].ok /\ retry >= MaxRetries THEN "stall" ELSE "batch"
           r == [req[p] EXCEPT !.pc = l]
<1>1. /\ req[p] \in Requests /\ RequestOK(req[p], sagas) /\ OwnerOK(req[p], sagas)
      /\ req \in [Procs -> Requests] /\ sagas \in [SagaIds -> Sagas] /\ WinsOK(sagas)
  BY DEF Inv, TypeOK, RequestsOK, RowsOK
<1>2. /\ o \in Snapshots /\ SnapshotOK(o, sagas) /\ o.standings \in BOOLEAN
      /\ req[p].saga = 0 /\ req[p].pc = "record"
  <2>1. o \in Snapshots
    BY <1>1, Zenon DEF Requests
  <2>2. o.standings \in BOOLEAN
    BY <2>1, Zenon DEF Snapshots
  <2> QED BY <1>1, <2>1, <2>2 DEF RequestOK, OwnerOK, RecordRetry, At, OwnerPCs
<1>3. req' = [req EXCEPT ![p] = r] /\ (sagas' = sagas \/ sagas' = u)
  BY <1>1 DEF RecordRetry, Continue
<1>4. l \in {"stall", "batch"} /\ l \in PCs /\ l \notin OwnerPCs /\ l \notin WinnerPCs
      /\ l # "ack_write" /\ l # "validate"
  BY DEF PCs, OwnerPCs, WinnerPCs
<1>5. retry \in 0..MaxRetries
  <2>1. o.retry \in 0..MaxRetries /\ o.retry < MaxRetries
    BY <1>2, SagaAssumption DEF Snapshots, SnapshotOK, SagaAssumption
  <2> QED BY <2>1, SagaAssumption DEF SagaAssumption
<1> HIDE DEF l
<1>6. r \in Requests
  BY <1>1, <1>4 DEF Requests
<1>7. r.pc = l /\ r.saga = 0 /\ r.win = req[p].win /\ r.old = req[p].old
      /\ r.batch = req[p].batch
  BY <1>1, <1>2 DEF Requests
<1> HIDE DEF r
<1>8. RequestOK(r, sagas) /\ \A x : OwnerOK(r, x)
  BY <1>1, <1>4, <1>7 DEF RequestOK, OwnerOK
<1>9. ASSUME UNCHANGED sagas PROVE Inv'
  <2>1. ReqInv'
    BY <1>3, <1>6, <1>7, <1>8, <1>9, RequestMoves
  <2>2. TablesOK'
    BY <1>9 DEF RecordRetry, TablesOK, Inv, TypeOK, TargetRows, bracket, faults
  <2> QED BY <2>1, <2>2, TwoPartsNext
<1>10. CASE o.id = 0
  <2>1. o.id \notin SagaIds
    BY <1>10, SagaAssumption DEF SagaIds, SagaAssumption
  <2>2. u = sagas
    BY <1>1, <2>1
  <2> QED BY <1>3, <1>9, <2>2
<1>11. ASSUME o.id # 0, sagas' = u PROVE Inv'
  <2>1. o.id \in SagaIds
    BY <1>2, <1>11, SagaAssumption DEF Snapshots, SagaIds, SagaAssumption
  <2>2. /\ sagas[o.id] \in Sagas /\ sagas[o.id].status # "absent"
        /\ sagas[o.id].status = "running" => sagas[o.id].stale
        /\ st \in {"failed", "running"} /\ (st = "running" => sagas[o.id].stale)
    BY <1>1, <1>2, <1>11, <2>1 DEF SnapshotOK
  <2> DEFINE x == [sagas[o.id] EXCEPT !.status = st, !.retry = retry]
             y == [x EXCEPT !.standings = o.standings]
  <2>3. u = [sagas EXCEPT ![o.id] = y]
    BY <1>1, <2>1, Zenon
  <2> HIDE DEF st, retry
  <2>4. x \in Sagas
    BY <1>5, <2>2 DEF Sagas, SagaStatus
  <2>5. x.status = st /\ x.win = sagas[o.id].win
    BY <2>2 DEF Sagas
  <2>6. x.stale = sagas[o.id].stale
    BY <2>2, Zenon DEF Sagas
  <2> HIDE DEF x
  <2>7. y \in Sagas
    BY <1>2, <2>4, Zenon DEF Sagas
  <2>8. y.status = x.status /\ y.win = x.win
    BY <2>4 DEF Sagas
  <2>9. y.stale = x.stale
    BY <2>4, Zenon DEF Sagas
  <2> HIDE DEF y
  <2>10. /\ u \in [SagaIds -> Sagas] /\ u[o.id] = y
         /\ \A s \in SagaIds : s # o.id => u[s] = sagas[s]
    BY <1>1, <2>1, <2>3, <2>7
  <2> HIDE DEF u
  <2>11. RowsGrow(sagas, u)
    BY <2>1, <2>2, <2>5, <2>6, <2>8, <2>9, <2>10 DEF RowsGrow
  <2>12. WinsOK(u)
    BY <1>1, <2>1, <2>2, <2>5, <2>8, <2>10 DEF WinsOK
  <2>13. \A q \in Procs : OwnerOK(req[q], u)
    <3> SUFFICES ASSUME NEW q \in Procs PROVE OwnerOK(req[q], u)
      OBVIOUS
    <3>1. OwnerOK(req[q], sagas)
      BY DEF Inv, RequestsOK
    <3>2. CASE req[q].pc \in OwnerPCs
      <4>1. req[q].saga \in SagaIds /\ req[q].saga # o.id
        BY <2>2, <3>2, OwnerSaga
      <4>2. u[req[q].saga] = sagas[req[q].saga]
        BY <2>10, <4>1
      <4> QED BY <3>1, <4>2 DEF OwnerOK
    <3>3. CASE req[q].pc \notin OwnerPCs
      BY <3>1, <3>3 DEF OwnerOK, OwnerPCs
    <3> QED BY <3>2, <3>3
  <2>14. RequestOK(r, u)
    BY <1>6, <1>8, <2>11, RequestSurvives
  <2>15. ReqInv'
    BY <1>3, <1>6, <1>7, <1>8, <1>11, <2>11, <2>12, <2>13, <2>14, RequestAndRowsMove
  <2>16. TablesOK'
    BY <1>11, <2>10 DEF RecordRetry, TablesOK, Inv, TypeOK, TargetRows, bracket, faults
  <2> QED BY <2>15, <2>16, TwoPartsNext
<1> QED BY <1>3, <1>9, <1>10, <1>11

\* The stall review.
LEMMA StallKeeps ==
    ASSUME Inv, NEW p \in Procs, RaiseProgressionStall(p) \/ InsertStallReview(p)
    PROVE  Inv'
<1>1. req[p].pc \in {"stall", "stall_insert"} /\ UNCHANGED sagas
      /\ (Continue(p, "stall_insert") \/ Continue(p, "record") \/ Continue(p, "batch"))
  BY DEF RaiseProgressionStall, InsertStallReview, At, AfterStall
<1>2. ReqInv'
  BY <1>1, ContinueKeeps DEF PCs, OwnerPCs, WinnerPCs
<1>3. reviews' \in [ReviewIds -> Reviews]
  BY InsertReviewType DEF RaiseProgressionStall, InsertStallReview, Inv, TypeOK, ReviewStatus
<1>4. TablesOK'
  BY <1>3 DEF RaiseProgressionStall, InsertStallReview, TablesOK, Inv, TypeOK, TargetRows,
              bracket, faults
<1> QED BY <1>2, <1>4, TwoPartsNext

-----------------------------------------------------------------------------
(* Results and reviews *)

\* Claims and their confirmation.
LEMMA ClaimKeeps ==
    ASSUME Inv, SubmitClaim \/ \E p \in Procs, w \in Slots : ConfirmClaim(p, w)
    PROVE  Inv'
<1>1. CASE SubmitClaim
  <2>1. ReqInv'
    BY <1>1 DEF SubmitClaim, Inv, TypeOK, ReqInv, RequestsOK, RowsOK, OneRunner, WinsOK
  <2>2. TablesOK'
    BY <1>1 DEF SubmitClaim, TablesOK, Inv, TypeOK, TargetRows, bracket, faults,
                TournamentMatchStatus
  <2> QED BY <2>1, <2>2, TwoPartsNext
<1>2. ASSUME NEW p \in Procs, NEW w \in Slots, ConfirmClaim(p, w) PROVE Inv'
  <2> DEFINE r == [NoRequest EXCEPT !.op = "confirm", !.pc = "start", !.win = w, !.claim = TRUE]
  <2>1. r \in Requests
    <3> DEFINE x == [NoRequest EXCEPT !.op = "confirm", !.pc = "start", !.win = w]
    <3>0. NoRequest \in Requests /\ w \in 0..2 /\ "confirm" \in Ops /\ "start" \in PCs
      BY NoRequestOK DEF Ops, PCs
    <3>1. x \in Requests
      BY <3>0 DEF Requests
    <3>2. r = [x EXCEPT !.claim = TRUE]
      BY DEF NoRequest
    <3> HIDE DEF x, r
    <3>3. [x EXCEPT !.claim = TRUE] \in Requests
      BY <3>1, Zenon DEF Requests
    <3> QED BY <3>2, <3>3
  <2>2. r.pc = "start" /\ r.saga = 0 /\ r.win = w /\ r.old = NoRequest.old /\ r.batch = {}
    BY DEF NoRequest
  <2>3. RequestOK(r, sagas) /\ OwnerOK(r, sagas)
    BY <2>2, NoRequestOK DEF RequestOK, OwnerOK, OwnerPCs
  <2>4. ReqInv'
    BY <1>2, <2>1, <2>2, <2>3, EnterKeeps DEF ConfirmClaim
  <2>5. TablesOK'
    BY <1>2, SagaAssumption DEF ConfirmClaim, TablesOK, Inv, TypeOK, TargetRows, bracket, faults,
       TournamentMatchStatus, SagaAssumption
  <2> QED BY <2>4, <2>5, TwoPartsNext
<1> QED BY <1>1, <1>2

\* A captain or an admin takes up a review.
LEMMA ReviewRequestKeeps ==
    ASSUME Inv, NEW p \in Users, ReviewRequest(p)
    PROVE  Inv'
<1> DEFINE R(o, l, v, s) == [NoRequest EXCEPT !.op = o, !.pc = l, !.review = v, !.side = s,
                                              !.other = (3 - s) \in reviews[v].acks]
<1>1. PICK o \in {"acknowledge", "approve", "reject"},
           l \in {"ack_write", "approve_write", "reject_write"},
           v \in ReviewIds, s \in 0..2 :
        Arrive(p, o, l, v, s) /\ (l = "ack_write" => s \in Slots)
  BY DEF ReviewRequest, Acknowledge, Approve, Reject
<1> DEFINE x == [NoRequest EXCEPT !.op = o, !.pc = l, !.review = v, !.side = s]
           b == (3 - s) \in reviews[v].acks
           r == [x EXCEPT !.other = b]
<1>2. v \in 0..MaxReviews
  BY SagaAssumption DEF ReviewIds, SagaAssumption
<1>3. x \in Requests
  BY <1>2, NoRequestOK DEF Requests, Ops, PCs
<1>4. x.pc = l /\ x.saga = 0 /\ x.side = s /\ x.old = NoRequest.old /\ x.batch = {}
  BY DEF NoRequest
<1>5. R(o, l, v, s) = r
  BY Zenon DEF NoRequest
<1>6. b \in BOOLEAN
  OBVIOUS
<1> HIDE DEF x, b
<1>7. r \in Requests
  BY <1>3, <1>6, Zenon DEF Requests
<1>8. r.pc = x.pc /\ r.saga = x.saga /\ r.side = x.side /\ r.old = x.old /\ r.batch = x.batch
  BY <1>3 DEF Requests
<1>9. Enter(p, r) /\ UNCHANGED sagas
  BY <1>1, <1>5 DEF Arrive
<1> HIDE DEF r
<1>10. RequestOK(r, sagas) /\ OwnerOK(r, sagas)
  BY <1>1, <1>4, <1>8, NoRequestOK DEF RequestOK, OwnerOK, OwnerPCs, WinnerPCs
<1>11. ReqInv'
  BY <1>4, <1>7, <1>8, <1>9, <1>10, EnterKeeps
<1>12. TablesOK'
  BY <1>1, SagaAssumption DEF Arrive, TablesOK, Inv, TypeOK, TargetRows, bracket, faults,
     SagaAssumption
<1> QED BY <1>11, <1>12, TwoPartsNext

\* The statements of the review service.
LEMMA ReviewStatementKeeps ==
    ASSUME Inv, NEW p \in Procs,
           \/ UpdateCaptainAcknowledgment(p) \/ SetAcknowledged(p) \/ AcknowledgedCheck(p)
           \/ ApproveWrite(p) \/ RejectWrite(p) \/ RevertMatch(p) \/ ResumeCheck(p)
    PROVE  Inv'
<1>a. TablesOK /\ req[p] \in Requests /\ RequestOK(req[p], sagas)
  BY DEF Inv, TypeOK, TablesOK, TargetRows, RequestsOK
<1>1. CASE UpdateCaptainAcknowledgment(p)
  <2>1. ReqInv'
    BY <1>1, ContinueKeeps DEF UpdateCaptainAcknowledgment, At, PCs, OwnerPCs, WinnerPCs
  <2>2. req[p].side \in Slots
    BY <1>1, <1>a DEF UpdateCaptainAcknowledgment, At, RequestOK
  <2>3. reviews' \in [ReviewIds -> Reviews]
    <3>1. ASSUME NEW x \in Reviews PROVE [x EXCEPT !.acks = @ \cup {req[p].side}] \in Reviews
      BY <2>2 DEF Reviews
    <3>2. reviews \in [ReviewIds -> Reviews]
      BY <1>a DEF TablesOK
    <3>3. reviews' = [reviews EXCEPT ![req[p].review].acks = @ \cup {req[p].side}]
      BY <1>1 DEF UpdateCaptainAcknowledgment
    <3> QED BY <3>1, <3>2, <3>3
  <2>4. TablesOK'
    BY <1>1, <1>a, <2>3 DEF UpdateCaptainAcknowledgment, TablesOK, bracket, faults
  <2> QED BY <2>1, <2>4, TwoPartsNext
<1>2. ASSUME NEW l \in {"ack_status", "approve_write", "reject_write"},
             NEW st \in {"acknowledged", "approved", "rejected"},
             NEW n \in {"ack_check", "resume_read", "revert"},
             SetReviewStatus(p, l, st, n)
      PROVE  Inv'
  <2>1. ReqInv'
    BY <1>2, ContinueKeeps DEF SetReviewStatus, At, PCs, OwnerPCs, WinnerPCs
  <2>2. reviews' \in [ReviewIds -> Reviews]
    BY <1>2, <1>a DEF SetReviewStatus, TablesOK, Reviews, ReviewStatus
  <2>3. TablesOK'
    BY <1>2, <1>a, <2>2 DEF SetReviewStatus, TablesOK, bracket, faults
  <2> QED BY <2>1, <2>3, TwoPartsNext
<1>3. CASE AcknowledgedCheck(p)
  <2>1. ReqInv'
    BY <1>3, ContinueKeeps, FinishKeeps DEF AcknowledgedCheck, At, PCs, OwnerPCs, WinnerPCs
  <2>2. TablesOK'
    BY <1>3, <1>a DEF AcknowledgedCheck, TablesOK, bracket, faults
  <2> QED BY <2>1, <2>2, TwoPartsNext
<1>4. CASE RevertMatch(p)
  <2>1. ReqInv'
    BY <1>4, FinishKeeps DEF RevertMatch
  <2>2. TablesOK'
    BY <1>4, <1>a DEF RevertMatch, TablesOK, TournamentMatchStatus, bracket, faults
  <2> QED BY <2>1, <2>2, TwoPartsNext
<1>5. CASE ResumeCheck(p)
  <2>1. ReqInv'
    BY <1>5, ContinueKeeps, FinishKeeps DEF ResumeCheck, At, PCs, OwnerPCs, WinnerPCs
  <2>2. TablesOK'
    BY <1>5, <1>a DEF ResumeCheck, TablesOK, bracket, faults
  <2> QED BY <2>1, <2>2, TwoPartsNext
<1> QED BY <1>1, <1>2, <1>3, <1>4, <1>5 DEF SetAcknowledged, ApproveWrite, RejectWrite

\* A resumed saga has a winner to run with.
LEMMA ResumeReadKeeps ==
    ASSUME Inv, NEW p \in Procs, ResumeRead(p)
    PROVE  Inv'
<1>1. TablesOK'
  BY DEF ResumeRead, TablesOK, Inv, TypeOK, TargetRows, bracket, faults
<1>2. CASE Finish(p)
  BY <1>1, <1>2, FinishKeeps, TwoPartsNext DEF ResumeRead
<1>3. CASE ~Finish(p)
  <2> DEFINE r == [req[p] EXCEPT !.pc = "resume_check", !.win = winner]
  <2>1. /\ req[p] \in Requests /\ RequestOK(req[p], sagas) /\ OwnerOK(req[p], sagas)
        /\ req \in [Procs -> Requests] /\ winner \in 0..2
    BY DEF Inv, TypeOK, RequestsOK
  <2>2. req' = [req EXCEPT ![p] = r] /\ winner \in Slots /\ req[p].pc = "resume_read"
        /\ UNCHANGED sagas
    <3>1. req' = [req EXCEPT ![p].pc = "resume_check", ![p].win = winner] /\ winner # 0
      BY <1>3 DEF ResumeRead
    <3>2. req[p].pc = "resume_read" /\ UNCHANGED sagas
      BY DEF ResumeRead, At
    <3>3. req' = [req EXCEPT ![p] = r]
      BY <2>1, <3>1
    <3>4. winner \in Slots
      BY <2>1, <3>1
    <3> QED BY <3>2, <3>3, <3>4
  <2>3. r \in Requests
    BY <2>1 DEF Requests, PCs
  <2>4. r.pc = "resume_check" /\ r.saga = req[p].saga /\ r.win = winner
        /\ r.old = req[p].old /\ r.batch = req[p].batch
    BY <2>1 DEF Requests
  <2> HIDE DEF r
  <2>5. RequestOK(r, sagas) /\ OwnerOK(r, sagas)
    BY <2>1, <2>2, <2>4 DEF RequestOK, OwnerOK, OwnerPCs
  <2>6. ReqInv'
    BY <2>2, <2>3, <2>4, <2>5, RequestMoves
  <2> QED BY <1>1, <2>6, TwoPartsNext
<1> QED BY <1>2, <1>3

-----------------------------------------------------------------------------
(* The sibling match, time and failures *)

\* The other match only fills its own side.
LEMMA SiblingKeeps ==
    ASSUME Inv, Sibling
    PROVE  Inv'
<1>1. ReqInv'
  <2>1. UNCHANGED <<req, sagas>>
    BY DEF Sibling, SiblingAssign, SiblingReadReady, SiblingMarkReady, SiblingStep
  <2> QED BY <2>1 DEF Inv, TypeOK, ReqInv, RequestsOK, RowsOK, OneRunner, WinsOK
<1>2. target \in TargetRows /\ "winner" \in Targets
  BY DEF Inv, TypeOK, TargetRows, Targets
<1>3. target' \in TargetRows /\ sibling' \in {"playing", "assigned", "read", "done"}
  <2>1. ASSUME NEW x \in [slot : 0..2, other : BOOLEAN, status : {"pending", "ready"}]
        PROVE  /\ [x EXCEPT !.other = TRUE]
                    \in [slot : 0..2, other : BOOLEAN, status : {"pending", "ready"}]
               /\ [x EXCEPT !.status = "ready"]
                    \in [slot : 0..2, other : BOOLEAN, status : {"pending", "ready"}]
    OBVIOUS
  <2>2. target["winner"] \in [slot : 0..2, other : BOOLEAN, status : {"pending", "ready"}]
    BY <1>2 DEF TargetRows
  <2>3. PICK x \in [slot : 0..2, other : BOOLEAN, status : {"pending", "ready"}] :
          target' = [target EXCEPT !["winner"] = x]
    BY <2>1, <2>2 DEF Sibling, SiblingAssign, SiblingReadReady, SiblingMarkReady, SiblingStep
  <2>4. target' \in TargetRows
    BY <1>2, <2>3 DEF TargetRows
  <2>5. sibling' \in {"playing", "assigned", "read", "done"}
    BY DEF Sibling, SiblingAssign, SiblingReadReady, SiblingMarkReady, SiblingStep
  <2> QED BY <2>4, <2>5
<1>4. TablesOK'
  BY <1>3 DEF Sibling, SiblingAssign, SiblingReadReady, SiblingMarkReady, SiblingStep,
     TablesOK, Inv, TypeOK, TargetRows, faults
<1> QED BY <1>1, <1>4, TwoPartsNext

\* Only a row that nobody runs grows stale.
LEMMA StaleKeeps ==
    ASSUME Inv, NEW s \in SagaIds, SagaGrowsStale(s)
    PROVE  Inv'
<1> DEFINE t == [sagas EXCEPT ![s].stale = TRUE]
<1>1. sagas' = t /\ UNCHANGED req /\ \A p \in Procs : req[p].saga # s
  BY DEF SagaGrowsStale
<1>2. sagas \in [SagaIds -> Sagas] /\ WinsOK(sagas) /\ req \in [Procs -> Requests]
  BY DEF Inv, TypeOK, RowsOK
<1>3. t \in [SagaIds -> Sagas]
  BY <1>2, SagaUpdates
<1>4. /\ t[s].status = sagas[s].status /\ t[s].win = sagas[s].win /\ t[s].stale
      /\ \A x \in SagaIds : x # s => t[x] = sagas[x]
  BY <1>2 DEF Sagas
<1> HIDE DEF t
<1>5. RowsGrow(sagas, t)
  BY <1>4 DEF RowsGrow
<1>6. WinsOK(t)
  BY <1>2, <1>4 DEF WinsOK
<1>7. ASSUME NEW q \in Procs PROVE RequestOK(req[q], t) /\ OwnerOK(req[q], t)
  <2>1. RequestOK(req[q], sagas) /\ OwnerOK(req[q], sagas) /\ req[q] \in Requests
    BY <1>2 DEF Inv, RequestsOK
  <2>2. CASE req[q].pc \in OwnerPCs
    <3>1. t[req[q].saga] = sagas[req[q].saga]
      BY <1>1, <1>4, <2>2, OwnerSaga
    <3> QED BY <1>5, <2>1, <3>1, RequestSurvives DEF OwnerOK
  <2>3. CASE req[q].pc \notin OwnerPCs
    <3>1. OwnerOK(req[q], t)
      BY <2>1, <2>3 DEF OwnerOK, OwnerPCs
    <3> QED BY <1>5, <2>1, <3>1, RequestSurvives
  <2> QED BY <2>2, <2>3
<1>8. ReqInv'
  BY <1>1, <1>2, <1>6, <1>7 DEF ReqInv, RequestsOK, RowsOK, Inv, OneRunner, WinsOK
<1>9. TablesOK'
  BY <1>1, <1>3 DEF SagaGrowsStale, TablesOK, Inv, TypeOK, TargetRows, bracket, faults
<1> QED BY <1>8, <1>9, TwoPartsNext

\* A failed statement and a dead request.
LEMMA FailureKeeps ==
    ASSUME Inv, NEW p \in Procs, StepError(p) \/ Die(p)
    PROVE  Inv'
<1>1. CASE StepError(p)
  <2>1. ReqInv'
    BY <1>1, ContinueKeeps DEF StepError, PCs, OwnerPCs, WinnerPCs
  <2>2. TablesOK'
    BY <1>1, SagaAssumption DEF StepError, TablesOK, Inv, TypeOK, TargetRows, bracket, faults,
       SagaAssumption
  <2> QED BY <2>1, <2>2, TwoPartsNext
<1>2. CASE Die(p)
  <2>1. ReqInv'
    BY <1>2, FinishKeeps DEF Die
  <2>2. TablesOK'
    BY <1>2, SagaAssumption DEF Die, TablesOK, Inv, TypeOK, TargetRows, bracket, faults,
       SagaAssumption
  <2> QED BY <2>1, <2>2, TwoPartsNext
<1> QED BY <1>1, <1>2

-----------------------------------------------------------------------------
(* The theorems *)

\* The empty tables satisfy the invariant.
LEMMA InitInv == Init => Inv
<1> SUFFICES ASSUME Init PROVE Inv
  OBVIOUS
<1>1. req \in [Procs -> Requests] /\ \A p \in Procs : req[p] = NoRequest
  BY NoRequestOK DEF Init
<1>2. RequestsOK /\ OneRunner
  BY <1>1, NoRequestOK DEF RequestsOK, OneRunner
<1>3. sagas \in [SagaIds -> Sagas] /\ RowsOK
  <2>1. NoSaga \in Sagas /\ NoSaga.status = "absent"
    BY SagaAssumption DEF NoSaga, Sagas, SagaStatus, SagaAssumption
  <2> QED BY <2>1 DEF Init, RowsOK, WinsOK
<1>4. reviews \in [ReviewIds -> Reviews]
  BY DEF Init, NoReview, Reviews, ReviewStatus
<1>5. target \in TargetRows
  BY DEF Init, TargetRows
<1>6. TablesOK
  BY <1>3, <1>4, <1>5, SagaAssumption DEF Init, TablesOK, TournamentMatchStatus, SagaAssumption
<1> QED BY <1>1, <1>2, <1>3, <1>6, TwoParts DEF ReqInv

\* Every step preserves the invariant.
LEMMA NextInv == Inv /\ [Next]_vars => Inv'
<1> SUFFICES ASSUME Inv, [Next]_vars PROVE Inv'
  OBVIOUS
<1>1. CASE UNCHANGED vars
  BY <1>1 DEF vars, Inv, TypeOK, RequestsOK, RowsOK, WinsOK, OneRunner
<1>2. ASSUME NEW p \in Procs, Statement(p) PROVE Inv'
  <2>1. CASE CompleteSaga(p) \/ FailSaga(p) \/ PauseSaga(p)
    BY <2>1, EndKeeps DEF CompleteSaga, FailSaga, PauseSaga, OwnerPCs, SagaStatus
  <2> QED BY <1>2, <2>1, StartKeeps, RetireKeeps, RestartKeeps, StepKeeps, RedriveNextKeeps,
             RecordKeeps, StallKeeps, ReviewStatementKeeps, ResumeReadKeeps DEF Statement
<1> QED BY <1>1, <1>2, ClaimKeeps, ReviewRequestKeeps, FailureKeeps, FetchKeeps, SiblingKeeps,
           StaleKeeps DEF Next

\* The inductive invariant: types, and which row each request may depend on.
THEOREM Invariance == Spec => []Inv
<1> QED BY InitInv, NextInv, PTL DEF Spec

\* The match, the rows it feeds, saga_executions, result_reviews and every
\* request in flight are well typed; retry_count never exceeds max_retries.
THEOREM TypeInvariant == Spec => []TypeOK
<1>1. Inv => TypeOK
  BY DEF Inv
<1> QED BY <1>1, Invariance, PTL

\* Two processes never run the completion of the match at the same time: the
\* index on live rows and the age test of retire_stale_live_saga exclude it.
THEOREM CompletionRunsAlone == Spec => []OneRunner
<1>1. Inv => OneRunner
  BY DEF Inv
<1> QED BY <1>1, Invariance, PTL

-----------------------------------------------------------------------------
(* A completed saga has done its work *)

\* Where the winner is in place, where the loser is, and where the standings
\* are recorded.
AfterStandings == {"stage", "stats", "complete"}
AfterRoute == {"ready_read", "ready_write", "standings", "standings_save"} \cup AfterStandings
AfterAdvance == {"route"} \cup AfterRoute

\* A request runs the input of its row and has done the steps behind it, for a
\* table t of sagas, the matches g it feeds and a bracket of format f.
WorkOK(r, t, g, f) ==
    r.saga # 0 =>
      /\ t[r.saga].win = r.win
      /\ r.pc \in AfterAdvance /\ "winner" \in TargetsOf(f)
           => g["winner"].slot = Placed("winner", r.win)
      /\ r.pc \in AfterRoute /\ "loser" \in TargetsOf(f)
           => g["loser"].slot = Placed("loser", r.win)
      /\ r.pc \in AfterStandings /\ f = "group" => t[r.saga].standings

Work == \A p \in Procs : WorkOK(req[p], sagas, target, format)

SameSlots == \A t \in Targets : target'[t].slot = target[t].slot

\* A step of p that leaves the rows of the others alone, and moves nobody
\* unless p runs the saga.
LEMMA WorkFrame ==
    ASSUME Inv, Work, NEW p \in Procs, UNCHANGED format,
           \A q \in Procs \ {p} : req'[q] = req[q],
           WorkOK(req'[p], sagas', target', format),
           \A q \in Procs \ {p} : req[q].saga # 0 =>
               sagas'[req[q].saga] = sagas[req[q].saga],
           SameSlots \/ req[p].saga # 0
    PROVE  Work'
<1> SUFFICES ASSUME NEW q \in Procs PROVE WorkOK(req'[q], sagas', target', format)
  BY DEF Work
<1>1. CASE q = p
  BY <1>1
<1>2. CASE q # p /\ req[q].saga = 0
  BY <1>2 DEF WorkOK
<1>3. CASE q # p /\ req[q].saga # 0
  <2>1. SameSlots /\ req'[q] = req[q] /\ sagas'[req[q].saga] = sagas[req[q].saga]
    BY <1>3 DEF Inv, OneRunner
  <2>2. WorkOK(req[q], sagas, target, format)
    BY DEF Work
  <2> QED BY <2>1, <2>2 DEF WorkOK, SameSlots, Targets
<1> QED BY <1>1, <1>2, <1>3

\* A step after which p runs no saga.
LEMMA WorkAside ==
    ASSUME Inv, Inv', Work, NEW p \in Procs, NEW r,
           req' = [req EXCEPT ![p] = r], r.pc \notin OwnerPCs,
           UNCHANGED <<format, target>>,
           \A q \in Procs \ {p} : req[q].saga # 0 =>
               sagas'[req[q].saga] = sagas[req[q].saga]
    PROVE  Work'
<1>1. req'[p] = r /\ \A q \in Procs \ {p} : req'[q] = req[q]
  BY DEF Inv, TypeOK
<1>2. req'[p].saga = 0
  BY <1>1 DEF Inv, RequestsOK, OwnerOK
<1>3. WorkOK(req'[p], sagas', target', format)
  BY <1>2 DEF WorkOK
<1>4. SameSlots
  BY DEF SameSlots
<1> QED BY <1>1, <1>3, <1>4, WorkFrame

\* A request goes on, no further than its work allows.
LEMMA WorkContinues ==
    ASSUME Inv, Work, NEW p \in Procs, NEW l, Continue(p, l), UNCHANGED <<format, sagas>>,
           l \in AfterAdvance => req[p].pc \in AfterAdvance,
           l \in AfterRoute => req[p].pc \in AfterRoute,
           l \in AfterStandings => req[p].pc \in AfterStandings \/ format # "group",
           SameSlots
    PROVE  Work'
<1>1. req \in [Procs -> Requests] /\ req[p] \in Requests
  BY DEF Inv, TypeOK
<1>2. /\ \A q \in Procs \ {p} : req'[q] = req[q]
      /\ req'[p].pc = l /\ req'[p].saga = req[p].saga /\ req'[p].win = req[p].win
  BY <1>1 DEF Continue, Requests
<1>3. WorkOK(req[p], sagas, target, format)
  BY DEF Work
<1>4. WorkOK(req'[p], sagas', target', format)
  BY <1>2, <1>3 DEF WorkOK, SameSlots, Targets
<1> QED BY <1>2, <1>4, WorkFrame

\* After a return the request runs no saga.
LEMMA ReturnForm ==
    ASSUME Inv, NEW p \in Procs, NEW ok, Return(p, ok)
    PROVE  \E r : req' = [req EXCEPT ![p] = r] /\ r.pc \notin OwnerPCs
<1> DEFINE r == [req[p] EXCEPT !.pc = "record", !.saga = 0, !.ok = ok]
<1>1. req \in [Procs -> Requests] /\ req[p] \in Requests
  BY DEF Inv, TypeOK
<1>2. req' = [req EXCEPT ![p] = r] \/ req' = [req EXCEPT ![p] = NoRequest]
  BY <1>1 DEF Return
<1>3. r.pc = "record" /\ NoRequest.pc = "idle"
  BY <1>1 DEF Requests, NoRequest
<1>4. "record" \notin OwnerPCs /\ "idle" \notin OwnerPCs
  BY DEF OwnerPCs
<1> HIDE DEF r
<1> QED BY <1>2, <1>3, <1>4

\* The statements that no owner of a row executes.
LEMMA AsideWork ==
    ASSUME Inv, Inv', Work, NEW p \in Procs,
           UNCHANGED <<format, target, sagas>>,
           \/ Finish(p)
           \/ \E l \in PCs \ OwnerPCs : Continue(p, l)
           \/ \E ok \in BOOLEAN : Return(p, ok)
           \/ \E r : Enter(p, r) /\ r.pc \notin OwnerPCs
    PROVE  Work'
<1>1. CASE Finish(p)
  BY <1>1, WorkAside DEF Finish, NoRequest, OwnerPCs
<1>2. ASSUME NEW l \in PCs \ OwnerPCs, Continue(p, l) PROVE Work'
  <2>1. SameSlots
    BY DEF SameSlots
  <2> QED BY <1>2, <2>1, WorkContinues DEF OwnerPCs, AfterAdvance, AfterRoute, AfterStandings
<1>3. ASSUME NEW ok \in BOOLEAN, Return(p, ok) PROVE Work'
  <2>1. PICK r : req' = [req EXCEPT ![p] = r] /\ r.pc \notin OwnerPCs
    BY <1>3, ReturnForm
  <2> QED BY <2>1, WorkAside
<1>4. ASSUME NEW r, Enter(p, r), r.pc \notin OwnerPCs PROVE Work'
  BY <1>4, WorkAside DEF Enter
<1> QED BY <1>1, <1>2, <1>3, <1>4

\* A fresh row has no work behind it.
LEMMA InsertWork ==
    ASSUME Inv, Inv', Work, NEW p \in Procs, Live = {}, InsertRunning(p),
           UNCHANGED <<format, target>>
    PROVE  Work'
<1>1. PICK s \in SagaIds :
        /\ sagas' = [sagas EXCEPT ![s] = [NoSaga EXCEPT !.status = "running",
                                                        !.win = req[p].win,
                                                        !.claim = req[p].claim]]
        /\ req' = [req EXCEPT ![p].saga = s, ![p].pc = FirstStep(p)]
  BY DEF InsertRunning
<1>2. req \in [Procs -> Requests] /\ req[p] \in Requests /\ sagas \in [SagaIds -> Sagas]
  BY DEF Inv, TypeOK
<1>3. /\ \A q \in Procs \ {p} : req'[q] = req[q]
      /\ req'[p].saga = s /\ req'[p].pc = FirstStep(p) /\ req'[p].win = req[p].win
  BY <1>1, <1>2 DEF Requests
<1>4. sagas'[s].win = req[p].win
  BY <1>1, <1>2 DEF NoSaga
<1>5. FirstStep(p) \notin AfterAdvance /\ FirstStep(p) \notin AfterRoute
      /\ FirstStep(p) \notin AfterStandings
  BY DEF FirstStep, AfterAdvance, AfterRoute, AfterStandings
<1>6. WorkOK(req'[p], sagas', target', format)
  BY <1>3, <1>4, <1>5 DEF WorkOK
<1>7. SameSlots /\ \A q \in Procs \ {p} : req[q].saga = 0
  BY NoLiveNoRunner DEF SameSlots
<1> QED BY <1>3, <1>6, <1>7, WorkFrame

\* Writes to saga_executions, by owners and by others.
LEMMA TableWork ==
    ASSUME Inv, Inv', Work, NEW p \in Procs,
           \/ StartSaga(p) \/ RetireStaleLiveSaga(p) \/ RestartSaga(p)
           \/ CompleteSaga(p) \/ FailSaga(p) \/ PauseSaga(p) \/ RecordRetry(p)
    PROVE  Work'
<1>a. req \in [Procs -> Requests] /\ req[p] \in Requests /\ sagas \in [SagaIds -> Sagas]
  BY DEF Inv, TypeOK
<1>b. ASSUME NEW q \in Procs, req[q].saga # 0
      PROVE  /\ req[q].saga \in SagaIds /\ sagas[req[q].saga].status = "running"
             /\ ~sagas[req[q].saga].stale
  <2>1. req[q].pc \in OwnerPCs
    BY <1>b DEF Inv, RequestsOK, OwnerOK
  <2> QED BY <2>1, OwnerSaga
<1>1. CASE StartSaga(p)
  <2>1. CASE Live = {} /\ InsertRunning(p)
    BY <1>1, <2>1, InsertWork DEF StartSaga, bracket
  <2>2. CASE Continue(p, "retire") /\ UNCHANGED sagas
    BY <1>1, <2>2, AsideWork DEF StartSaga, PCs, OwnerPCs, bracket
  <2> QED BY <1>1, <2>1, <2>2 DEF StartSaga
<1>2. CASE RestartSaga(p)
  <2>1. CASE Live = {} /\ InsertRunning(p)
    BY <1>2, <2>1, InsertWork DEF RestartSaga, bracket
  <2>2. CASE Return(p, FALSE) /\ UNCHANGED sagas
    BY <1>2, <2>2, AsideWork DEF RestartSaga, bracket
  <2> QED BY <1>2, <2>1, <2>2 DEF RestartSaga
<1>3. CASE RetireStaleLiveSaga(p)
  <2>1. \A s \in SagaIds : ~sagas[s].stale => sagas'[s] = sagas[s]
    BY <1>3 DEF RetireStaleLiveSaga, StaleLive
  <2>2. \A q \in Procs \ {p} : req[q].saga # 0 => sagas'[req[q].saga] = sagas[req[q].saga]
    BY <1>b, <2>1
  <2>3. UNCHANGED <<format, target>>
    BY <1>3 DEF RetireStaleLiveSaga, bracket
  <2>4. PICK r : req' = [req EXCEPT ![p] = r] /\ r.pc \notin OwnerPCs
    <3>1. CASE Return(p, FALSE)
      BY <3>1, ReturnForm
    <3>2. CASE Continue(p, "restart")
      <4> DEFINE r == [req[p] EXCEPT !.pc = "restart"]
      <4>1. req' = [req EXCEPT ![p] = r] /\ r.pc = "restart"
        BY <1>a, <3>2 DEF Continue, Requests
      <4>2. r.pc \notin OwnerPCs
        BY <4>1 DEF OwnerPCs
      <4> HIDE DEF r
      <4> QED BY <4>1, <4>2
    <3> QED BY <1>3, <3>1, <3>2 DEF RetireStaleLiveSaga
  <2> QED BY <2>2, <2>3, <2>4, WorkAside
<1>4. CASE CompleteSaga(p) \/ FailSaga(p) \/ PauseSaga(p)
  <2>1. PICK l \in OwnerPCs, st \in SagaStatus : EndSaga(p, l, st)
    BY <1>4 DEF CompleteSaga, FailSaga, PauseSaga, OwnerPCs, SagaStatus
  <2>2. req[p].saga # 0
    BY <2>1 DEF EndSaga, At, Inv, RequestsOK, OwnerOK
  <2>3. \A q \in Procs \ {p} : req[q].saga = 0
    BY <2>2 DEF Inv, OneRunner
  <2>4. PICK r : req' = [req EXCEPT ![p] = r] /\ r.pc \notin OwnerPCs
    BY <2>1, ReturnForm DEF EndSaga
  <2>5. UNCHANGED <<format, target>>
    BY <2>1 DEF EndSaga, bracket
  <2> QED BY <2>3, <2>4, <2>5, WorkAside
<1>5. CASE RecordRetry(p)
  <2>1. UNCHANGED <<format, target>> /\ (Continue(p, "stall") \/ Continue(p, "batch"))
    BY <1>5 DEF RecordRetry, bracket
  <2>2. \A s \in SagaIds : s # req[p].old.id => sagas'[s] = sagas[s]
    BY <1>5, <1>a DEF RecordRetry
  <2>3. \A q \in Procs \ {p} : req[q].saga # 0 => sagas'[req[q].saga] = sagas[req[q].saga]
    <3> SUFFICES ASSUME NEW q \in Procs \ {p}, req[q].saga # 0
                 PROVE  sagas'[req[q].saga] = sagas[req[q].saga]
      OBVIOUS
    <3>1. SnapshotOK(req[p].old, sagas)
      BY DEF Inv, RequestsOK, RequestOK
    <3>2. req[q].saga # req[p].old.id
      BY <1>b, <3>1 DEF SnapshotOK
    <3> QED BY <1>b, <2>2, <3>2
  <2>4. PICK r : req' = [req EXCEPT ![p] = r] /\ r.pc \notin OwnerPCs
    <3>1. PICK l \in {"stall", "batch"} : Continue(p, l)
      BY <2>1
    <3> DEFINE r == [req[p] EXCEPT !.pc = l]
    <3>2. req' = [req EXCEPT ![p] = r] /\ r.pc = l
      BY <1>a, <3>1 DEF Continue, Requests
    <3>3. r.pc \notin OwnerPCs
      BY <3>2 DEF OwnerPCs
    <3> HIDE DEF r
    <3> QED BY <3>2, <3>3
  <2> QED BY <2>1, <2>3, <2>4, WorkAside
<1> QED BY <1>1, <1>2, <1>3, <1>4, <1>5

\* Assigning a participant of the result the request runs.
LEMMA AssignWork ==
    ASSUME Inv, Work, NEW p \in Procs,
           \/ StepAdvanceWinner(p)
           \/ StepRouteLoser(p)
    PROVE  Work'
<1>1. /\ req \in [Procs -> Requests] /\ req[p] \in Requests /\ target \in TargetRows
      /\ WorkOK(req[p], sagas, target, format)
  BY DEF Inv, TypeOK, TargetRows, Work
<1>2. PICK t \in Targets, l \in {"route", "ready_read"} :
        /\ AssignParticipant(p, t, l)
        /\ \/ t = "winner" /\ l = "route" /\ req[p].pc = "advance"
           \/ t = "loser" /\ l = "ready_read" /\ req[p].pc = "route"
  BY DEF StepAdvanceWinner, StepRouteLoser, At, Targets
<1>3. /\ \A q \in Procs \ {p} : req'[q] = req[q]
      /\ req'[p].pc = l /\ req'[p].saga = req[p].saga /\ req'[p].win = req[p].win
  BY <1>1, <1>2 DEF AssignParticipant, Continue, Requests
<1>4. UNCHANGED <<format, sagas>> /\ req[p].saga # 0
  BY <1>2 DEF AssignParticipant, Inv, RequestsOK, OwnerOK, OwnerPCs
<1>5. /\ t \in TargetsOf(format) => target'[t].slot = Placed(t, req[p].win)
      /\ \A x \in Targets : x # t => target'[x].slot = target[x].slot
  BY <1>1, <1>2 DEF AssignParticipant, TargetRows
<1>6. l \notin AfterStandings
  BY DEF AfterStandings
<1>7. CASE t = "winner" /\ l = "route"
  <2>1. "route" \notin AfterRoute
    BY DEF AfterRoute, AfterStandings
  <2>2. WorkOK(req'[p], sagas', target', format)
    BY <1>1, <1>3, <1>4, <1>5, <1>6, <1>7, <2>1 DEF WorkOK
  <2> QED BY <1>3, <1>4, <2>2, WorkFrame
<1>8. CASE t = "loser" /\ l = "ready_read"
  <2>1. req[p].pc \in AfterAdvance
    BY <1>2, <1>8 DEF AfterAdvance
  <2>2. target'["winner"].slot = target["winner"].slot
    BY <1>5, <1>8 DEF Targets
  <2>3. WorkOK(req'[p], sagas', target', format)
    BY <1>1, <1>3, <1>4, <1>5, <1>6, <1>8, <2>1, <2>2 DEF WorkOK
  <2> QED BY <1>3, <1>4, <2>3, WorkFrame
<1> QED BY <1>2, <1>7, <1>8

\* The steps that write to the row of the saga.
LEMMA RowWork ==
    ASSUME Inv, Work, NEW p \in Procs, StepValidateMatch(p) \/ SaveStandingsStep(p)
    PROVE  Work'
<1>1. /\ req \in [Procs -> Requests] /\ req[p] \in Requests /\ sagas \in [SagaIds -> Sagas]
      /\ WorkOK(req[p], sagas, target, format)
  BY DEF Inv, TypeOK, Work
<1>2. req[p].pc \in {"validate", "standings_save"} /\ req[p].pc \in OwnerPCs
  BY DEF StepValidateMatch, SaveStandingsStep, At, OwnerPCs
<1>3. req[p].saga \in SagaIds /\ req[p].saga # 0 /\ sagas[req[p].saga] \in Sagas
  BY <1>2, OwnerSaga, SagaAssumption DEF SagaIds, SagaAssumption
<1>4. UNCHANGED <<format, target>> /\ SameSlots
  BY DEF StepValidateMatch, SaveStandingsStep, bracket, SameSlots
<1>5. /\ \A q \in Procs \ {p} : req'[q] = req[q]
      /\ req'[p].saga = req[p].saga /\ req'[p].win = req[p].win
  BY <1>1 DEF StepValidateMatch, SaveStandingsStep, Continue, Requests
<1>6. \A q \in Procs \ {p} : req[q].saga = 0
  BY <1>3 DEF Inv, OneRunner
<1>7. sagas'[req[p].saga].win = sagas[req[p].saga].win
  BY <1>1, <1>3 DEF StepValidateMatch, SaveStandingsStep, Sagas
<1>8. CASE StepValidateMatch(p)
  <2>1. req'[p].pc \in {"demos", "fail"}
    BY <1>1, <1>8 DEF StepValidateMatch, Continue, Requests
  <2>2. WorkOK(req'[p], sagas', target', format)
    BY <1>1, <1>3, <1>5, <1>7, <2>1 DEF WorkOK, AfterAdvance, AfterRoute, AfterStandings
  <2> QED BY <1>4, <1>5, <1>6, <2>2, WorkFrame
<1>9. CASE SaveStandingsStep(p)
  <2>1. req'[p].pc = "stage" /\ req[p].pc = "standings_save"
    BY <1>1, <1>9 DEF SaveStandingsStep, At, Continue, Requests
  <2>2. sagas'[req[p].saga].standings
    BY <1>1, <1>3, <1>9 DEF SaveStandingsStep, Sagas
  <2>3. req[p].pc \in AfterAdvance /\ req[p].pc \in AfterRoute
    BY <2>1 DEF AfterAdvance, AfterRoute
  <2>4. WorkOK(req'[p], sagas', target', format)
    BY <1>1, <1>3, <1>4, <1>5, <1>7, <2>1, <2>2, <2>3 DEF WorkOK
  <2> QED BY <1>4, <1>5, <1>6, <2>4, WorkFrame
<1> QED BY <1>8, <1>9

\* The steps of the saga, in their order.
LEMMA StepWork ==
    ASSUME Inv, Work, NEW p \in Procs, Step(p)
    PROVE  Work'
<1>a. /\ req \in [Procs -> Requests] /\ req[p] \in Requests /\ target \in TargetRows
      /\ WorkOK(req[p], sagas, target, format)
  BY DEF Inv, TypeOK, TargetRows, Work
<1>b. UNCHANGED target => SameSlots
  BY DEF SameSlots
<1>1. CASE StepValidateDemos(p) \/ StepCompleteMatch(p) \/ SubmitResult(p)
  <2>1. PICK l \in {"complete_read", "pause", "advance", "submit"} : Continue(p, l)
    BY <1>1 DEF StepValidateDemos, StepCompleteMatch, SubmitResult
  <2>2. UNCHANGED <<format, sagas, target>>
    BY <1>1 DEF StepValidateDemos, StepCompleteMatch, SubmitResult, bracket
  <2>3. l \notin AfterAdvance /\ l \notin AfterRoute /\ l \notin AfterStandings
    BY DEF AfterAdvance, AfterRoute, AfterStandings
  <2> QED BY <1>b, <2>1, <2>2, <2>3, WorkContinues
<1>2. CASE StepUpdateStandings(p) \/ StepAdvanceStage(p) \/ StepUpdatePlayerStats(p)
  <2>1. PICK l \in {"standings_save", "stage", "stats", "complete"} :
          /\ Continue(p, l)
          /\ \/ req[p].pc = "standings" /\ (l = "standings_save" \/ format # "group")
             \/ req[p].pc \in {"stage", "stats"}
    BY <1>2 DEF StepUpdateStandings, StepAdvanceStage, StepUpdatePlayerStats, At
  <2>2. UNCHANGED <<format, sagas, target>>
    BY <1>2 DEF StepUpdateStandings, StepAdvanceStage, StepUpdatePlayerStats
  <2>3. /\ req[p].pc \in AfterAdvance /\ req[p].pc \in AfterRoute
        /\ l \in AfterStandings => req[p].pc \in AfterStandings \/ format # "group"
    BY <2>1 DEF AfterAdvance, AfterRoute, AfterStandings
  <2> QED BY <1>b, <2>1, <2>2, <2>3, WorkContinues
<1>3. CASE StepMarkReadyMatches(p) \/ MarkReadyWrite(p)
  <2>1. /\ \A q \in Procs \ {p} : req'[q] = req[q]
        /\ req'[p].saga = req[p].saga /\ req'[p].win = req[p].win
        /\ req'[p].pc \in {"ready_read", "ready_write", "standings"}
    BY <1>3, <1>a DEF StepMarkReadyMatches, MarkReadyWrite, At, Continue, Requests
  <2>2. UNCHANGED <<format, sagas>> /\ req[p].pc \in {"ready_read", "ready_write"}
    BY <1>3 DEF StepMarkReadyMatches, MarkReadyWrite, At
  <2>3. SameSlots
    BY <1>3, <1>a DEF StepMarkReadyMatches, MarkReadyWrite, SameSlots, TargetRows, Targets, bracket
  <2>4. /\ req[p].pc \in AfterAdvance /\ req[p].pc \in AfterRoute
        /\ req'[p].pc \notin AfterStandings
    BY <2>1, <2>2 DEF AfterAdvance, AfterRoute, AfterStandings
  <2>5. WorkOK(req'[p], sagas', target', format)
    BY <1>a, <2>1, <2>2, <2>3, <2>4 DEF WorkOK, SameSlots, Targets
  <2> QED BY <2>1, <2>2, <2>3, <2>5, WorkFrame
<1> QED BY <1>1, <1>2, <1>3, AssignWork, RowWork DEF Step

\* Statements of the re-drive and of the reviews.
LEMMA OtherStatementWork ==
    ASSUME Inv, Inv', Work, NEW p \in Procs,
           \/ RedriveNext(p) \/ RaiseProgressionStall(p) \/ InsertStallReview(p)
           \/ UpdateCaptainAcknowledgment(p) \/ SetAcknowledged(p) \/ AcknowledgedCheck(p)
           \/ ApproveWrite(p) \/ RejectWrite(p) \/ RevertMatch(p)
           \/ ResumeRead(p) \/ ResumeCheck(p)
    PROVE  Work'
<1>a. req \in [Procs -> Requests] /\ req[p] \in Requests
  BY DEF Inv, TypeOK
<1>1. CASE RedriveNext(p) \/ ResumeRead(p)
  <2>1. UNCHANGED <<format, target, sagas>>
    BY <1>1 DEF RedriveNext, ResumeRead, bracket
  <2>2. CASE Finish(p)
    BY <2>1, <2>2, AsideWork
  <2>3. CASE ~Finish(p)
    <3>1. \E r : req' = [req EXCEPT ![p] = r] /\ r.pc \notin OwnerPCs
      <4>1. CASE RedriveNext(p)
        <5>1. PICK o : req' = [req EXCEPT ![p] = Redriven(req[p], o)]
          BY <2>3, <4>1 DEF RedriveNext
        <5>2. Redriven(req[p], o).pc \in {"stall", "start"}
          BY <1>a DEF Redriven, Requests
        <5> QED BY <5>1, <5>2 DEF OwnerPCs
      <4>2. CASE ResumeRead(p)
        <5> DEFINE r == [req[p] EXCEPT !.pc = "resume_check", !.win = winner]
        <5>1. req' = [req EXCEPT ![p].pc = "resume_check", ![p].win = winner]
          BY <2>3, <4>2 DEF ResumeRead
        <5>2. req' = [req EXCEPT ![p] = r]
          BY <1>a, <5>1
        <5>3. r.pc \notin OwnerPCs
          BY <1>a DEF Requests, OwnerPCs
        <5> HIDE DEF r
        <5> QED BY <5>2, <5>3
      <4> QED BY <1>1, <4>1, <4>2
    <3> QED BY <2>1, <3>1, WorkAside
  <2> QED BY <2>2, <2>3
<1>2. CASE ~(RedriveNext(p) \/ ResumeRead(p))
  <2>1. UNCHANGED <<format, target, sagas>>
    BY <1>2 DEF RaiseProgressionStall, InsertStallReview, UpdateCaptainAcknowledgment,
       SetAcknowledged, ApproveWrite, RejectWrite, SetReviewStatus, AcknowledgedCheck,
       RevertMatch, ResumeCheck, bracket
  <2>2. Finish(p) \/ \E l \in {"stall_insert", "record", "batch", "ack_status", "ack_check",
                               "resume_read", "revert", "start"} : Continue(p, l)
    BY <1>2 DEF RaiseProgressionStall, InsertStallReview, AfterStall,
       UpdateCaptainAcknowledgment, SetAcknowledged, ApproveWrite, RejectWrite,
       SetReviewStatus, AcknowledgedCheck, RevertMatch, ResumeCheck
  <2>3. {"stall_insert", "record", "batch", "ack_status", "ack_check", "resume_read",
         "revert", "start"} \subseteq PCs \ OwnerPCs
    BY DEF PCs, OwnerPCs
  <2> QED BY <2>1, <2>2, <2>3, AsideWork
<1> QED BY <1>1, <1>2

\* A request that is taken up runs no saga yet.
LEMMA RequestWork ==
    ASSUME Inv, Inv', Work,
           \/ \E p \in Procs, w \in Slots : ConfirmClaim(p, w)
           \/ \E p \in Users : ReviewRequest(p)
           \/ RedriveStuckCompletionSagas
    PROVE  Work'
<1>1. ASSUME NEW p \in Procs, NEW w \in Slots, ConfirmClaim(p, w) PROVE Work'
  <2>1. UNCHANGED <<format, target, sagas>>
    BY <1>1 DEF ConfirmClaim, bracket
  <2>2. \E r : Enter(p, r) /\ r.pc \notin OwnerPCs
    <3> DEFINE r == [NoRequest EXCEPT !.op = "confirm", !.pc = "start", !.win = w,
                                      !.claim = TRUE]
    <3>1. Enter(p, r)
      BY <1>1 DEF ConfirmClaim
    <3>2. r.pc \notin OwnerPCs
      BY DEF NoRequest, OwnerPCs
    <3> HIDE DEF r
    <3> QED BY <3>1, <3>2
  <2> QED BY <2>1, <2>2, AsideWork
<1>2. ASSUME NEW p \in Users, ReviewRequest(p) PROVE Work'
  <2>1. PICK o \in {"acknowledge", "approve", "reject"},
             l \in {"ack_write", "approve_write", "reject_write"},
             v \in ReviewIds, s \in 0..2 : Arrive(p, o, l, v, s)
    BY <1>2 DEF ReviewRequest, Acknowledge, Approve, Reject
  <2>2. UNCHANGED <<format, target, sagas>>
    BY <2>1 DEF Arrive, bracket
  <2>3. \E r : Enter(p, r) /\ r.pc \notin OwnerPCs
    <3> DEFINE r == [NoRequest EXCEPT !.op = o, !.pc = l, !.review = v, !.side = s,
                                      !.other = (3 - s) \in reviews[v].acks]
    <3>1. Enter(p, r)
      BY <2>1 DEF Arrive
    <3>2. r.pc \notin OwnerPCs
      BY DEF NoRequest, OwnerPCs
    <3> QED BY <3>1, <3>2
  <2> QED BY <2>2, <2>3, AsideWork
<1>3. CASE RedriveStuckCompletionSagas
  <2>1. UNCHANGED <<format, target, sagas>>
    BY <1>3 DEF RedriveStuckCompletionSagas, bracket
  <2>2. \E r : Enter(Sweeper, r) /\ r.pc \notin OwnerPCs
    <3> DEFINE r == [NoRequest EXCEPT !.op = "redrive", !.pc = "batch",
                       !.batch = {Snapshot(s) : s \in {x \in SagaIds : is_retryable(x)}}]
    <3>1. Enter(Sweeper, r)
      BY <1>3 DEF RedriveStuckCompletionSagas
    <3>2. r.pc \notin OwnerPCs
      BY DEF NoRequest, OwnerPCs
    <3> HIDE DEF r
    <3> QED BY <3>1, <3>2
  <2> QED BY <2>1, <2>2, AsideWork
<1> QED BY <1>1, <1>2, <1>3

\* The actions that are nobody's statement.
LEMMA EnvironmentWork ==
    ASSUME Inv, Inv', Work,
           \/ SubmitClaim \/ Sibling
           \/ \E s \in SagaIds : SagaGrowsStale(s)
           \/ \E p \in Procs : StepError(p) \/ Die(p)
    PROVE  Work'
<1>1. CASE SubmitClaim
  BY <1>1 DEF SubmitClaim, bracket, Work
<1>2. CASE Sibling
  <2>1. UNCHANGED <<format, req, sagas>>
    BY <1>2 DEF Sibling, SiblingAssign, SiblingReadReady, SiblingMarkReady, SiblingStep
  <2>2. target'["winner"].slot = target["winner"].slot
        /\ target'["loser"].slot = target["loser"].slot
    <3>1. target \in TargetRows
      BY DEF Inv, TypeOK, TargetRows
    <3> QED BY <1>2, <3>1 DEF Sibling, SiblingAssign, SiblingReadReady, SiblingMarkReady,
               SiblingStep, TargetRows, Targets
  <2> QED BY <2>1, <2>2 DEF Work, WorkOK
<1>3. ASSUME NEW s \in SagaIds, SagaGrowsStale(s) PROVE Work'
  <2>1. UNCHANGED <<format, req, target>>
    BY <1>3 DEF SagaGrowsStale, bracket
  <2>2. \A p \in Procs : req[p].saga # 0 => sagas'[req[p].saga] = sagas[req[p].saga]
    <3>1. \A x \in SagaIds : x # s => sagas'[x] = sagas[x]
      BY <1>3 DEF SagaGrowsStale, Inv, TypeOK
    <3>2. \A p \in Procs : req[p].saga # s
      BY <1>3 DEF SagaGrowsStale
    <3>3. \A p \in Procs : req[p].saga # 0 => req[p].saga \in SagaIds
      BY OwnerSaga DEF Inv, RequestsOK, OwnerOK
    <3> QED BY <3>1, <3>2, <3>3
  <2> QED BY <2>1, <2>2 DEF Work, WorkOK
<1>4. ASSUME NEW p \in Procs, StepError(p) \/ Die(p) PROVE Work'
  <2>1. UNCHANGED <<format, target, sagas>>
    BY <1>4 DEF StepError, Die, bracket
  <2>2. CASE StepError(p)
    <3>1. SameSlots /\ Continue(p, "fail")
      BY <2>1, <2>2 DEF StepError, SameSlots
    <3> QED BY <2>1, <3>1, WorkContinues DEF AfterAdvance, AfterRoute, AfterStandings
  <2>3. CASE Die(p)
    BY <2>1, <2>3, AsideWork DEF Die
  <2> QED BY <1>4, <2>2, <2>3
<1> QED BY <1>1, <1>2, <1>3, <1>4

\* Every step preserves the work done.
LEMMA NextWork ==
    ASSUME Inv, Inv', Work, [Next]_vars
    PROVE  Work'
<1>1. CASE UNCHANGED vars
  BY <1>1 DEF vars, Work
<1>2. ASSUME NEW p \in Procs, Statement(p) PROVE Work'
  BY <1>2, TableWork, StepWork, OtherStatementWork DEF Statement
<1> QED BY <1>1, <1>2, RequestWork, EnvironmentWork DEF Next

\* At first nobody runs a saga.
LEMMA InitWork == Init => Work
BY NoRequestOK DEF Init, Work, WorkOK

\* Who runs a saga has done, and keeps in place, every step behind it.
THEOREM WorkInvariance == Spec => [](Inv /\ Work)
<1>1. Inv /\ Work /\ [Next]_vars => (Inv /\ Work)'
  BY NextInv, NextWork
<1> QED BY <1>1, InitInv, InitWork, PTL DEF Spec

\* Only complete_saga turns a row completed.
LEMMA OnlyCompleteSaga ==
    ASSUME Inv, Next, NEW s \in SagaIds,
           sagas[s].status # "completed", sagas'[s].status = "completed"
    PROVE  \E p \in Procs : CompleteSaga(p) /\ req[p].saga = s
<1>a. sagas \in [SagaIds -> Sagas] /\ sagas # sagas'
  BY DEF Inv, TypeOK
<1>1. ASSUME NEW p \in Procs, CompleteSaga(p) PROVE req[p].saga = s
  <2>1. sagas' = [sagas EXCEPT ![req[p].saga].status = "completed"]
    BY <1>1 DEF CompleteSaga, EndSaga
  <2> QED BY <1>a, <2>1
<1>2. ASSUME NEW p \in Procs, FailSaga(p) \/ PauseSaga(p) PROVE FALSE
  <2>1. PICK st \in {"failed", "paused"} : sagas' = [sagas EXCEPT ![req[p].saga].status = st]
    BY <1>2 DEF FailSaga, PauseSaga, EndSaga
  <2> QED BY <1>a, <2>1 DEF Sagas
<1>3. ASSUME NEW p \in Procs, StartSaga(p) \/ RestartSaga(p) PROVE FALSE
  <2>1. InsertRunning(p)
    BY <1>3, <1>a DEF StartSaga, RestartSaga
  <2>2. PICK x \in SagaIds :
          sagas' = [sagas EXCEPT ![x] = [NoSaga EXCEPT !.status = "running",
                                                       !.win = req[p].win,
                                                       !.claim = req[p].claim]]
    BY <2>1 DEF InsertRunning
  <2> QED BY <1>a, <2>2 DEF NoSaga
<1>4. ASSUME NEW p \in Procs, RetireStaleLiveSaga(p) PROVE FALSE
  <2>1. sagas'[s] = IF s \in StaleLive
                    THEN [sagas[s] EXCEPT !.status = "failed", !.retry = MaxRetries]
                    ELSE sagas[s]
    BY <1>4 DEF RetireStaleLiveSaga
  <2> QED BY <1>a, <2>1 DEF Sagas
<1>5. ASSUME NEW p \in Procs, StepValidateMatch(p) \/ SaveStandingsStep(p) PROVE FALSE
  <2>1. sagas'[s].status = sagas[s].status
    BY <1>5, <1>a DEF StepValidateMatch, SaveStandingsStep, Sagas
  <2> QED BY <2>1
<1>6. ASSUME NEW p \in Procs, RecordRetry(p) PROVE FALSE
  <2>1. SnapshotOK(req[p].old, sagas) /\ req[p].old \in Snapshots
    <3>1. req[p] \in Requests
      BY DEF Inv, TypeOK
    <3>2. req[p].old \in Snapshots
      BY <3>1, Zenon DEF Requests
    <3> QED BY <3>2 DEF Inv, RequestsOK, RequestOK
  <2>2. s = req[p].old.id => req[p].old.status \in {"failed", "running"}
    BY <2>1, SagaAssumption DEF SnapshotOK, SagaIds, SagaAssumption
  <2>3. s # req[p].old.id => sagas'[s] = sagas[s]
    BY <1>6, <1>a DEF RecordRetry
  <2>4. s = req[p].old.id => sagas'[s].status \in {sagas[s].status, "failed", req[p].old.status}
    BY <1>6, <1>a DEF RecordRetry, Sagas
  <2> QED BY <2>2, <2>3, <2>4
<1>7. ASSUME NEW x \in SagaIds, SagaGrowsStale(x) PROVE FALSE
  BY <1>7, <1>a DEF SagaGrowsStale, Sagas
<1>8. ASSUME NEW p \in Procs, Step(p), ~StepValidateMatch(p), ~SaveStandingsStep(p) PROVE FALSE
  BY <1>8, <1>a DEF Step, StepValidateDemos, StepCompleteMatch, SubmitResult,
     StepAdvanceWinner, StepRouteLoser, AssignParticipant, StepMarkReadyMatches,
     MarkReadyWrite, StepUpdateStandings, StepAdvanceStage, StepUpdatePlayerStats
<1>9. ASSUME NEW p \in Procs,
             \/ RedriveNext(p) \/ RaiseProgressionStall(p) \/ InsertStallReview(p)
             \/ UpdateCaptainAcknowledgment(p) \/ SetAcknowledged(p) \/ AcknowledgedCheck(p)
             \/ ApproveWrite(p) \/ RejectWrite(p) \/ RevertMatch(p)
             \/ ResumeRead(p) \/ ResumeCheck(p) \/ StepError(p) \/ Die(p)
      PROVE  FALSE
  BY <1>9, <1>a DEF RedriveNext, RaiseProgressionStall, InsertStallReview,
     UpdateCaptainAcknowledgment, SetAcknowledged, ApproveWrite, RejectWrite, SetReviewStatus,
     AcknowledgedCheck, RevertMatch, ResumeRead, ResumeCheck, StepError, Die
<1>10. ~SubmitClaim /\ ~Sibling /\ ~RedriveStuckCompletionSagas
  BY <1>a DEF SubmitClaim, Sibling, SiblingAssign, SiblingReadReady, SiblingMarkReady,
     SiblingStep, RedriveStuckCompletionSagas
<1>11. ASSUME NEW p \in Procs, NEW w \in Slots, ConfirmClaim(p, w) PROVE FALSE
  BY <1>11, <1>a DEF ConfirmClaim
<1>12. ASSUME NEW p \in Users, ReviewRequest(p) PROVE FALSE
  BY <1>12, <1>a DEF ReviewRequest, Acknowledge, Approve, Reject, Arrive
<1>13. PICK p \in Procs : Statement(p)
  BY <1>7, <1>9, <1>10, <1>11, <1>12 DEF Next
<1> QED BY <1>1, <1>2, <1>3, <1>4, <1>5, <1>6, <1>8, <1>9, <1>13 DEF Statement

\* Whenever a saga row turns completed, its own result is in place: both sides
\* sit where its input sends them, or its standings step is recorded, whatever
\* overlapped, failed, died, was paused or was re-driven before.
THEOREM CompletedSagaIsApplied == Spec => SagaAppliesItsResult
<1>1. Inv /\ Work /\ [Next]_vars =>
        [\A s \in SagaIds :
          sagas[s].status # "completed" /\ sagas'[s].status = "completed" =>
            /\ \A t \in TargetsOf(format) : target[t].slot = Placed(t, sagas[s].win)
            /\ format = "group" => sagas[s].standings]_vars
  <2> SUFFICES ASSUME Inv, Work, Next, NEW s \in SagaIds,
                      sagas[s].status # "completed", sagas'[s].status = "completed"
               PROVE  /\ \A t \in TargetsOf(format) : target[t].slot = Placed(t, sagas[s].win)
                      /\ format = "group" => sagas[s].standings
    BY DEF vars
  <2>1. PICK p \in Procs : CompleteSaga(p) /\ req[p].saga = s
    BY OnlyCompleteSaga
  <2>2. req[p].pc = "complete" /\ s # 0
    BY <2>1, SagaAssumption DEF CompleteSaga, EndSaga, At, SagaIds, SagaAssumption
  <2>3. /\ "complete" \in AfterAdvance /\ "complete" \in AfterRoute
        /\ "complete" \in AfterStandings
    BY DEF AfterAdvance, AfterRoute, AfterStandings
  <2>4. WorkOK(req[p], sagas, target, format)
    BY DEF Work
  <2>5. TargetsOf(format) \subseteq {"winner", "loser"}
    BY DEF TargetsOf
  <2> QED BY <2>1, <2>2, <2>3, <2>4, <2>5 DEF WorkOK
<1> QED BY <1>1, WorkInvariance, PTL DEF Spec, SagaAppliesItsResult

-----------------------------------------------------------------------------
(* A match with both its sides is ready *)

\* A match that is fed will not stay pending with both its sides: it is ready,
\* or the other match that feeds it has yet to look.
Settled(t) ==
    /\ target[t].slot # 0
    /\ target[t].status = "ready" \/ (t = "winner" /\ sibling # "done")

AfterReady == {"standings", "standings_save"} \cup AfterStandings

\* A request still has to look at a match it assigned a side to, or it is settled.
ReadyOK(r) ==
    /\ r.pc \in AfterAdvance /\ "winner" \in TargetsOf(format)
         => "winner" \in r.todo \/ Settled("winner")
    /\ r.pc \in AfterRoute /\ "loser" \in TargetsOf(format)
         => "loser" \in r.todo \/ Settled("loser")
    /\ r.pc \in AfterReady => r.todo = {}

SidesOK == (target["winner"].other <=> sibling # "playing") /\ target["loser"].other

ReadyInv ==
    /\ SidesOK
    /\ \A p \in Procs : ReadyOK(req[p])
    /\ (\E s \in SagaIds : sagas[s].status = "completed")
         => \A t \in TargetsOf(format) : Settled(t)

SomeCompleted == \E s \in SagaIds : sagas[s].status = "completed"

\* What is settled stays so.
SettledStays == \A t \in TargetsOf(format) : Settled(t) => Settled(t)'

\* Every format sends its matches to targets.
LEMMA TargetsOfTargets == TargetsOf(format) \subseteq Targets
  BY DEF TargetsOf, Targets

\* A step of p, which leaves the requests of the others alone.
LEMMA ReadyFrame ==
    ASSUME ReadyInv, NEW p \in Procs, UNCHANGED format,
           \A q \in Procs \ {p} : req'[q] = req[q],
           SidesOK', SettledStays, ReadyOK(req[p])',
           SomeCompleted' => SomeCompleted \/ \A t \in TargetsOf(format) : Settled(t)
    PROVE  ReadyInv'
<1>1. ASSUME NEW q \in Procs PROVE ReadyOK(req[q])'
  <2>1. CASE q = p
    BY <2>1
  <2>2. CASE q # p
    <3>1. ReadyOK(req[q]) /\ req'[q] = req[q]
      BY <2>2 DEF ReadyInv
    <3> QED BY <3>1 DEF ReadyOK, SettledStays
  <2> QED BY <2>1, <2>2
<1>2. SomeCompleted' => \A t \in TargetsOf(format) : Settled(t)'
  BY DEF ReadyInv, SomeCompleted, SettledStays
<1> QED BY <1>1, <1>2 DEF ReadyInv, SomeCompleted

\* A step that touches none of the matches that are fed.
LEMMA SettledUnchanged ==
    ASSUME ReadyInv, UNCHANGED <<format, target, sibling>>
    PROVE  SidesOK' /\ SettledStays
BY DEF ReadyInv, SidesOK, SettledStays, Settled

\* Of the writes to saga_executions only one completes a row.
LEMMA CompletedBy ==
    ASSUME Inv, Next, SomeCompleted', ~SomeCompleted
    PROVE  \E p \in Procs : CompleteSaga(p)
<1>1. PICK s \in SagaIds : sagas'[s].status = "completed"
  BY DEF SomeCompleted
<1>2. sagas[s].status # "completed"
  BY DEF SomeCompleted
<1> QED BY <1>1, <1>2, OnlyCompleteSaga

\* Steps 5 and 6 put a participant in and remember the match.
LEMMA AssignReady ==
    ASSUME Inv, Work, ReadyInv, NEW p \in Procs, StepAdvanceWinner(p) \/ StepRouteLoser(p)
    PROVE  ReadyInv'
<1>1. /\ req \in [Procs -> Requests] /\ req[p] \in Requests /\ target \in TargetRows
      /\ ReadyOK(req[p])
  BY DEF Inv, TypeOK, TargetRows, ReadyInv
<1>2. PICK t \in Targets, l \in {"route", "ready_read"} :
        /\ AssignParticipant(p, t, l)
        /\ \/ t = "winner" /\ l = "route" /\ req[p].pc = "advance"
           \/ t = "loser" /\ l = "ready_read" /\ req[p].pc = "route"
  BY DEF StepAdvanceWinner, StepRouteLoser, At, Targets
<1>3. UNCHANGED <<format, sagas, sibling>> /\ req[p].win \in Slots
  BY <1>1, <1>2 DEF AssignParticipant, Inv, RequestsOK, RequestOK, WinnerPCs, OwnerPCs
<1>4. /\ \A q \in Procs \ {p} : req'[q] = req[q]
      /\ req'[p].pc = l
      /\ req'[p].todo = IF t \in TargetsOf(format) THEN req[p].todo \cup {t} ELSE req[p].todo
  <2>1. CASE t \in TargetsOf(format)
    <3>1. req' = [req EXCEPT ![p].pc = l, ![p].todo = @ \cup {t}]
      BY <1>2, <2>1 DEF AssignParticipant
    <3>2. req' = [req EXCEPT ![p] = [req[p] EXCEPT !.pc = l, !.todo = req[p].todo \cup {t}]]
      BY <1>1, <3>1 DEF Requests
    <3> QED BY <1>1, <2>1, <3>2 DEF Requests
  <2>2. CASE t \notin TargetsOf(format)
    <3>1. Continue(p, l)
      BY <1>2, <2>2 DEF AssignParticipant
    <3> QED BY <1>1, <2>2, <3>1 DEF Continue, Requests
  <2> QED BY <2>1, <2>2
<1>5. \A x \in Targets : /\ target'[x].status = target[x].status
                         /\ target'[x].other = target[x].other
                         /\ target[x].slot # 0 => target'[x].slot # 0
  <2>1. CASE UNCHANGED target
    BY <2>1
  <2>2. CASE target' = [target EXCEPT ![t].slot = Placed(t, req[p].win)]
    <3>1. Placed(t, req[p].win) # 0
      BY <1>3 DEF Placed, Slots
    <3>2. target' = [target EXCEPT ![t] = [target[t] EXCEPT !.slot = Placed(t, req[p].win)]]
      BY <1>1, <2>2 DEF TargetRows
    <3> QED BY <1>1, <3>1, <3>2 DEF TargetRows
  <2> QED BY <1>2, <2>1, <2>2 DEF AssignParticipant
<1>6. SidesOK' /\ SettledStays
  BY <1>3, <1>5, TargetsOfTargets DEF ReadyInv, SidesOK, SettledStays, Settled, Targets
<1>7. ReadyOK(req[p])'
  <2>1. l \notin AfterReady
    BY DEF AfterReady, AfterStandings
  <2>2. CASE t = "winner" /\ l = "route"
    BY <1>3, <1>4, <2>1, <2>2 DEF ReadyOK, AfterRoute, AfterStandings
  <2>3. CASE t = "loser" /\ l = "ready_read"
    <3>1. req[p].pc \in AfterAdvance
      BY <1>2, <2>3 DEF AfterAdvance
    <3>2. "winner" \in TargetsOf(format) => "winner" \in req[p].todo \/ Settled("winner")'
      BY <1>1, <1>6, <3>1 DEF ReadyOK, SettledStays
    <3> QED BY <1>3, <1>4, <2>1, <2>3, <3>2 DEF ReadyOK
  <2> QED BY <1>2, <2>2, <2>3
<1>8. SomeCompleted' => SomeCompleted
  BY <1>3 DEF SomeCompleted
<1> QED BY <1>3, <1>4, <1>6, <1>7, <1>8, ReadyFrame

\* Step 6.5: a match taken off the list is settled.
LEMMA MarkReady ==
    ASSUME Inv, Work, ReadyInv, NEW p \in Procs, StepMarkReadyMatches(p) \/ MarkReadyWrite(p)
    PROVE  ReadyInv'
<1>1. /\ req \in [Procs -> Requests] /\ req[p] \in Requests /\ target \in TargetRows
      /\ ReadyOK(req[p]) /\ WorkOK(req[p], sagas, target, format)
      /\ req[p].todo \subseteq Targets
  BY DEF Inv, TypeOK, TargetRows, ReadyInv, Work, Requests
<1>2. UNCHANGED <<format, sagas, sibling>> /\ req[p].pc \in {"ready_read", "ready_write"}
  BY DEF StepMarkReadyMatches, MarkReadyWrite, At, bracket
<1>3. req[p].pc \in AfterRoute /\ req[p].pc \in AfterAdvance /\ req[p].saga # 0
      /\ req[p].win \in Slots
  BY <1>2 DEF AfterRoute, AfterAdvance, Inv, RequestsOK, OwnerOK, RequestOK, OwnerPCs,
              WinnerPCs
<1>4. \A t \in TargetsOf(format) : target[t].slot # 0
  <2>1. \A t \in TargetsOf(format) : target[t].slot = Placed(t, req[p].win)
    BY <1>1, <1>3, TargetsOfTargets DEF WorkOK, Targets
  <2> QED BY <1>3, <2>1 DEF Placed, Slots
<1>a. PICK t \in Targets : t = IF "winner" \in req[p].todo THEN "winner" ELSE "loser"
  BY DEF Targets
<1>5. \A x \in req[p].todo : x # t => x = "loser" /\ t = "winner"
  BY <1>1, <1>a DEF Targets
<1>6. SettledStays /\ SidesOK'
  <2>1. \A x \in Targets : /\ target'[x].slot = target[x].slot
                           /\ target'[x].other = target[x].other
                           /\ target'[x].status \in {target[x].status, "ready"}
    BY <1>1 DEF StepMarkReadyMatches, MarkReadyWrite, bracket, TargetRows, Targets
  <2> QED BY <1>2, <2>1, TargetsOfTargets
           DEF ReadyInv, SidesOK, SettledStays, Settled, Targets
<1>7. SomeCompleted' => SomeCompleted
  BY <1>2 DEF SomeCompleted
<1>8. \A q \in Procs \ {p} : req'[q] = req[q]
  BY <1>1 DEF StepMarkReadyMatches, MarkReadyWrite, Continue
<1>9. CASE /\ req'[p].pc \in {"ready_read", "ready_write", "standings"}
           /\ req'[p].todo = req[p].todo
           /\ req'[p].pc = "standings" => req[p].todo = {}
  <2>1. req'[p].pc \in AfterReady => req'[p].todo = {}
    BY <1>9 DEF AfterReady, AfterStandings
  <2>2. /\ "winner" \in TargetsOf(format) => "winner" \in req'[p].todo \/ Settled("winner")'
        /\ "loser" \in TargetsOf(format) => "loser" \in req'[p].todo \/ Settled("loser")'
    BY <1>1, <1>3, <1>6, <1>9 DEF ReadyOK, SettledStays
  <2>3. ReadyOK(req[p])'
    BY <1>2, <2>1, <2>2 DEF ReadyOK
  <2> QED BY <1>2, <1>6, <1>7, <1>8, <2>3, ReadyFrame
<1>10. CASE /\ req'[p].pc = "ready_read" /\ req'[p].todo = req[p].todo \ {t}
            /\ t \in TargetsOf(format) => Settled(t)'
  <2>1. req'[p].pc \notin AfterReady
    BY <1>10 DEF AfterReady, AfterStandings
  <2>2. /\ "winner" \in TargetsOf(format) => "winner" \in req[p].todo \/ Settled("winner")'
        /\ "loser" \in TargetsOf(format) => "loser" \in req[p].todo \/ Settled("loser")'
    BY <1>1, <1>3, <1>6 DEF ReadyOK, SettledStays
  <2>3. /\ "winner" \in TargetsOf(format) => "winner" \in req'[p].todo \/ Settled("winner")'
        /\ "loser" \in TargetsOf(format) => "loser" \in req'[p].todo \/ Settled("loser")'
    BY <1>10, <1>a, <2>2
  <2>4. ReadyOK(req[p])'
    BY <1>2, <2>1, <2>3 DEF ReadyOK
  <2> QED BY <1>2, <1>6, <1>7, <1>8, <2>4, ReadyFrame
<1>11. CASE StepMarkReadyMatches(p)
  <2>1. CASE req[p].todo = {}
    <3>1. req'[p].pc = "standings" /\ req'[p].todo = req[p].todo
      BY <1>1, <1>11, <2>1 DEF StepMarkReadyMatches, Continue, Requests
    <3> QED BY <1>9, <2>1, <3>1
  <2>2. CASE req[p].todo # {} /\ target[t].status = "pending" /\ HasBoth(t)
    <3>1. req'[p].pc = "ready_write" /\ req'[p].todo = req[p].todo
      BY <1>1, <1>a, <1>11, <2>2 DEF StepMarkReadyMatches, Continue, Requests
    <3> QED BY <1>9, <3>1
  <2>3. CASE req[p].todo # {} /\ ~(target[t].status = "pending" /\ HasBoth(t))
    <3>1. req'[p].pc = "ready_read" /\ req'[p].todo = req[p].todo \ {t}
      BY <1>1, <1>a, <1>11, <2>3 DEF StepMarkReadyMatches, At, Requests
    <3>2. t \in TargetsOf(format) => Settled(t)
      <4>1. t \in Targets /\ target[t].status \in {"pending", "ready"}
        BY <1>1 DEF Targets, TargetRows
      <4>2. target[t].other \/ (t = "winner" /\ sibling = "playing")
        BY <4>1 DEF ReadyInv, SidesOK, Targets
      <4> QED BY <1>4, <2>3, <4>1, <4>2 DEF HasBoth, Settled
    <3>3. t \in TargetsOf(format) => Settled(t)'
      BY <1>6, <3>2 DEF SettledStays
    <3> QED BY <1>10, <3>1, <3>3
  <2> QED BY <2>1, <2>2, <2>3
<1>12. CASE MarkReadyWrite(p)
  <2>1. req'[p].pc = "ready_read" /\ req'[p].todo = req[p].todo \ {t}
    BY <1>1, <1>a, <1>12 DEF MarkReadyWrite, Requests
  <2>2. target'[t].status = "ready" /\ target'[t].slot = target[t].slot
    BY <1>1, <1>a, <1>12 DEF MarkReadyWrite, TargetRows, Targets
  <2>3. t \in TargetsOf(format) => Settled(t)'
    BY <1>4, <2>2 DEF Settled
  <2> QED BY <1>10, <2>1, <2>3
<1> QED BY <1>11, <1>12

\* The other steps of the saga.
LEMMA StepReady ==
    ASSUME Inv, Work, ReadyInv, Next, NEW p \in Procs, Step(p)
    PROVE  ReadyInv'
<1>1. CASE StepAdvanceWinner(p) \/ StepRouteLoser(p)
  BY <1>1, AssignReady
<1>2. CASE StepMarkReadyMatches(p) \/ MarkReadyWrite(p)
  BY <1>2, MarkReady
<1>3. CASE \/ StepValidateMatch(p) \/ StepValidateDemos(p) \/ StepCompleteMatch(p)
           \/ SubmitResult(p) \/ StepUpdateStandings(p) \/ SaveStandingsStep(p)
           \/ StepAdvanceStage(p) \/ StepUpdatePlayerStats(p)
  <2>1. PICK l \in {"demos", "fail", "complete_read", "pause", "advance", "submit",
                    "standings_save", "stage", "stats", "complete"} :
          /\ Continue(p, l)
          /\ l \in AfterAdvance => req[p].pc \in AfterReady
    BY <1>3 DEF StepValidateMatch, StepValidateDemos, StepCompleteMatch, SubmitResult,
       StepUpdateStandings, SaveStandingsStep, StepAdvanceStage, StepUpdatePlayerStats, At,
       AfterAdvance, AfterRoute, AfterReady, AfterStandings
  <2>2. UNCHANGED <<format, target, sibling>>
    BY <1>3 DEF StepValidateMatch, StepValidateDemos, StepCompleteMatch, SubmitResult,
       StepUpdateStandings, SaveStandingsStep, StepAdvanceStage, StepUpdatePlayerStats, bracket
  <2>3. req \in [Procs -> Requests] /\ req[p] \in Requests /\ ReadyOK(req[p])
    BY DEF Inv, TypeOK, ReadyInv
  <2>4. /\ \A q \in Procs \ {p} : req'[q] = req[q]
        /\ req'[p].pc = l /\ req'[p].todo = req[p].todo
    BY <2>1, <2>3 DEF Continue, Requests
  <2>5. SidesOK' /\ SettledStays
    BY <2>2, SettledUnchanged
  <2>6. ReadyOK(req[p])'
    <3>1. CASE l \notin AfterAdvance
      BY <2>4, <3>1 DEF ReadyOK, AfterAdvance, AfterRoute, AfterReady, AfterStandings
    <3>2. CASE req[p].pc \in AfterReady
      <4>1. req[p].pc \in AfterRoute /\ req[p].pc \in AfterAdvance
        BY <3>2 DEF AfterReady, AfterRoute, AfterAdvance
      <4> QED BY <2>2, <2>3, <2>4, <2>5, <3>2, <4>1 DEF ReadyOK, SettledStays
    <3> QED BY <2>1, <3>1, <3>2
  <2>7. SomeCompleted' => SomeCompleted
    <3>1. CASE UNCHANGED sagas
      BY <3>1 DEF SomeCompleted
    <3>2. CASE StepValidateMatch(p) \/ SaveStandingsStep(p)
      <4>1. \A s \in SagaIds : sagas'[s].status = sagas[s].status
        BY <3>2 DEF StepValidateMatch, SaveStandingsStep, Sagas, Inv, TypeOK
      <4> QED BY <4>1 DEF SomeCompleted
    <3> QED BY <1>3, <3>1, <3>2 DEF StepValidateDemos, StepCompleteMatch, SubmitResult,
               StepUpdateStandings, StepAdvanceStage, StepUpdatePlayerStats
  <2> QED BY <2>2, <2>4, <2>5, <2>6, <2>7, ReadyFrame
<1> QED BY <1>1, <1>2, <1>3 DEF Step

\* complete_saga: the list of matches to look at is empty.
LEMMA CompleteReady ==
    ASSUME Inv, ReadyInv, Next, NEW p \in Procs, CompleteSaga(p)
    PROVE  ReadyInv'
<1>1. /\ ReadyOK(req[p]) /\ UNCHANGED <<format, target, sibling>>
      /\ req[p].pc = "complete" /\ Return(p, TRUE)
  BY DEF CompleteSaga, EndSaga, At, ReadyInv, bracket
<1>2. SidesOK' /\ SettledStays
  BY <1>1, SettledUnchanged
<1>3. \A t \in TargetsOf(format) : Settled(t)
  <2>1. req[p].pc \in AfterReady /\ req[p].pc \in AfterRoute /\ req[p].pc \in AfterAdvance
    BY <1>1 DEF AfterReady, AfterStandings, AfterRoute, AfterAdvance
  <2>2. "winner" \in TargetsOf(format) => Settled("winner")
    BY <1>1, <2>1 DEF ReadyOK
  <2>3. "loser" \in TargetsOf(format) => Settled("loser")
    BY <1>1, <2>1 DEF ReadyOK
  <2> QED BY <2>2, <2>3, TargetsOfTargets DEF Targets
<1>4. PICK r : req' = [req EXCEPT ![p] = r] /\ r.pc \notin OwnerPCs
  BY <1>1, ReturnForm
<1>5. req'[p] = r /\ \A q \in Procs \ {p} : req'[q] = req[q]
  BY <1>4 DEF Inv, TypeOK
<1>6. ReadyOK(req[p])'
  BY <1>4, <1>5 DEF ReadyOK, OwnerPCs, AfterAdvance, AfterRoute, AfterReady, AfterStandings
<1> QED BY <1>1, <1>2, <1>3, <1>5, <1>6, ReadyFrame

\* A step after which p looks at none of the matches.
LEMMA QuietReady ==
    ASSUME Inv, ReadyInv, Next, NEW p \in Procs, ~ \E q \in Procs : CompleteSaga(q),
           UNCHANGED <<format, target, sibling>>,
           \/ Finish(p)
           \/ \E l \in PCs \ AfterAdvance : Continue(p, l)
           \/ \E ok \in BOOLEAN : Return(p, ok)
           \/ \E r : req' = [req EXCEPT ![p] = r] /\ r.pc \notin AfterAdvance
    PROVE  ReadyInv'
<1>a. req \in [Procs -> Requests] /\ req[p] \in Requests
  BY DEF Inv, TypeOK
<1>1. \E r : req' = [req EXCEPT ![p] = r] /\ r.pc \notin AfterAdvance
  <2>1. CASE Finish(p)
    <3>1. NoRequest.pc \notin AfterAdvance
      BY DEF NoRequest, AfterAdvance, AfterRoute, AfterStandings
    <3>2. req' = [req EXCEPT ![p] = NoRequest]
      BY <2>1 DEF Finish
    <3> WITNESS NoRequest
    <3> QED BY <3>1, <3>2
  <2>2. ASSUME NEW l \in PCs \ AfterAdvance, Continue(p, l)
        PROVE  \E r : req' = [req EXCEPT ![p] = r] /\ r.pc \notin AfterAdvance
    <3> DEFINE r == [req[p] EXCEPT !.pc = l]
    <3>1. req' = [req EXCEPT ![p] = r] /\ r.pc = l
      BY <1>a, <2>2 DEF Continue, Requests
    <3> HIDE DEF r
    <3> QED BY <2>2, <3>1
  <2>3. ASSUME NEW ok \in BOOLEAN, Return(p, ok)
        PROVE  \E r : req' = [req EXCEPT ![p] = r] /\ r.pc \notin AfterAdvance
    BY <2>3, ReturnForm DEF OwnerPCs, AfterAdvance, AfterRoute, AfterStandings
  <2> QED BY <2>1, <2>2, <2>3
<1>2. PICK r : req' = [req EXCEPT ![p] = r] /\ r.pc \notin AfterAdvance
  BY <1>1
<1>3. req'[p] = r /\ \A q \in Procs \ {p} : req'[q] = req[q]
  BY <1>a, <1>2
<1>4. ReadyOK(req[p])'
  BY <1>2, <1>3 DEF ReadyOK, AfterAdvance, AfterRoute, AfterReady, AfterStandings
<1>5. SidesOK' /\ SettledStays
  BY SettledUnchanged
<1> QED BY <1>3, <1>4, <1>5, CompletedBy, ReadyFrame

\* A row is inserted, retired, failed, paused or written back.
LEMMA TableReady ==
    ASSUME Inv, ReadyInv, Next, NEW p \in Procs, ~ \E q \in Procs : CompleteSaga(q),
           \/ StartSaga(p) \/ RetireStaleLiveSaga(p) \/ RestartSaga(p)
           \/ FailSaga(p) \/ PauseSaga(p) \/ RecordRetry(p)
    PROVE  ReadyInv'
<1>a. req \in [Procs -> Requests] /\ req[p] \in Requests
  BY DEF Inv, TypeOK
<1>b. UNCHANGED <<format, target, sibling>>
  <2>1. CASE StartSaga(p) \/ RestartSaga(p)
    <3>1. StartSaga(p) => UNCHANGED <<format, bracket>>
      BY DEF StartSaga
    <3>2. RestartSaga(p) => UNCHANGED <<format, bracket>>
      BY DEF RestartSaga
    <3> QED BY <2>1, <3>1, <3>2 DEF bracket
  <2>2. ASSUME NEW l, NEW st, EndSaga(p, l, st) PROVE UNCHANGED <<format, target, sibling>>
    BY <2>2 DEF EndSaga, bracket
  <2>3. CASE RecordRetry(p)
    BY <2>3 DEF RecordRetry, bracket
  <2>4. CASE RetireStaleLiveSaga(p)
    BY <2>4 DEF RetireStaleLiveSaga, bracket
  <2> QED BY <2>1, <2>2, <2>3, <2>4 DEF FailSaga, PauseSaga
<1>1. CASE InsertRunning(p)
  <2>1. PICK s \in SagaIds : req' = [req EXCEPT ![p].saga = s, ![p].pc = FirstStep(p)]
    BY <1>1 DEF InsertRunning
  <2> DEFINE r == [req[p] EXCEPT !.saga = s, !.pc = FirstStep(p)]
  <2>2. req' = [req EXCEPT ![p] = r] /\ r.pc = FirstStep(p)
    BY <1>a, <2>1 DEF Requests
  <2>3. FirstStep(p) \notin AfterAdvance
    BY DEF FirstStep, AfterAdvance, AfterRoute, AfterStandings
  <2> HIDE DEF r
  <2> QED BY <1>b, <2>2, <2>3, QuietReady
<1>2. ASSUME NEW ok \in BOOLEAN, Return(p, ok) PROVE ReadyInv'
  BY <1>b, <1>2, QuietReady
<1>3. ASSUME NEW l \in {"retire", "restart", "stall", "batch"}, Continue(p, l) PROVE ReadyInv'
  <2>1. l \in PCs \ AfterAdvance
    BY DEF PCs, AfterAdvance, AfterRoute, AfterStandings
  <2> QED BY <1>b, <1>3, <2>1, QuietReady
<1>4. CASE StartSaga(p) \/ RetireStaleLiveSaga(p) \/ RestartSaga(p)
  <2>1. StartSaga(p) => InsertRunning(p) \/ Continue(p, "retire")
    BY DEF StartSaga
  <2>2. RestartSaga(p) => InsertRunning(p) \/ Return(p, FALSE)
    BY DEF RestartSaga
  <2>3. RetireStaleLiveSaga(p) => Return(p, FALSE) \/ Continue(p, "restart")
    BY DEF RetireStaleLiveSaga
  <2> QED BY <1>1, <1>2, <1>3, <1>4, <2>1, <2>2, <2>3
<1>5. CASE FailSaga(p) \/ PauseSaga(p)
  <2>1. Return(p, FALSE) \/ Return(p, TRUE)
    BY <1>5 DEF FailSaga, PauseSaga, EndSaga
  <2> QED BY <1>2, <2>1
<1>6. CASE RecordRetry(p)
  BY <1>3, <1>6 DEF RecordRetry
<1> QED BY <1>4, <1>5, <1>6

\* Re-drives, stalls, reviews and resumptions.
LEMMA OtherStatementReady ==
    ASSUME Inv, ReadyInv, Next, NEW p \in Procs, ~ \E q \in Procs : CompleteSaga(q),
           \/ RedriveNext(p) \/ RaiseProgressionStall(p) \/ InsertStallReview(p)
           \/ UpdateCaptainAcknowledgment(p) \/ SetAcknowledged(p) \/ AcknowledgedCheck(p)
           \/ ApproveWrite(p) \/ RejectWrite(p) \/ RevertMatch(p)
           \/ ResumeRead(p) \/ ResumeCheck(p)
    PROVE  ReadyInv'
<1>a. req \in [Procs -> Requests] /\ req[p] \in Requests
  BY DEF Inv, TypeOK
<1>b. UNCHANGED <<format, target, sibling>>
  BY DEF RedriveNext, RaiseProgressionStall, InsertStallReview, UpdateCaptainAcknowledgment,
     SetAcknowledged, ApproveWrite, RejectWrite, SetReviewStatus, AcknowledgedCheck,
     RevertMatch, ResumeRead, ResumeCheck, bracket
<1>1. CASE Finish(p)
  BY <1>b, <1>1, QuietReady
<1>2. CASE RedriveNext(p) /\ ~Finish(p)
  <2>1. PICK o : req' = [req EXCEPT ![p] = Redriven(req[p], o)]
    BY <1>2 DEF RedriveNext
  <2>2. Redriven(req[p], o).pc \in {"stall", "start"}
    BY <1>a DEF Redriven, Requests
  <2>3. Redriven(req[p], o).pc \notin AfterAdvance
    BY <2>2 DEF AfterAdvance, AfterRoute, AfterStandings
  <2> QED BY <1>b, <2>1, <2>3, QuietReady
<1>3. CASE ResumeRead(p) /\ ~Finish(p)
  <2> DEFINE r == [req[p] EXCEPT !.pc = "resume_check", !.win = winner]
  <2>1. req' = [req EXCEPT ![p].pc = "resume_check", ![p].win = winner]
    BY <1>3 DEF ResumeRead
  <2>2. req' = [req EXCEPT ![p] = r] /\ r.pc = "resume_check"
    BY <1>a, <2>1 DEF Requests
  <2>3. "resume_check" \notin AfterAdvance
    BY DEF AfterAdvance, AfterRoute, AfterStandings
  <2> HIDE DEF r
  <2> QED BY <1>b, <2>2, <2>3, QuietReady
<1>4. CASE ~(Finish(p) \/ RedriveNext(p) \/ ResumeRead(p))
  <2>1. PICK l \in {"stall_insert", "record", "batch", "ack_status", "ack_check",
                    "resume_read", "revert", "start"} : Continue(p, l)
    BY <1>4 DEF RaiseProgressionStall, InsertStallReview, AfterStall,
       UpdateCaptainAcknowledgment, SetAcknowledged, ApproveWrite, RejectWrite,
       SetReviewStatus, AcknowledgedCheck, RevertMatch, ResumeCheck
  <2>2. l \in PCs \ AfterAdvance
    BY DEF PCs, AfterAdvance, AfterRoute, AfterStandings
  <2> QED BY <1>b, <2>1, <2>2, QuietReady
<1> QED BY <1>1, <1>2, <1>3, <1>4

\* A request that is taken up has assigned nobody.
LEMMA EnterReady ==
    ASSUME Inv, ReadyInv, Next, NEW p \in Procs, ~ \E q \in Procs : CompleteSaga(q),
           UNCHANGED <<format, target, sibling>>,
           NEW r, Enter(p, r), r.pc \in {"start", "batch", "ack_write", "approve_write",
                                       "reject_write"}
    PROVE  ReadyInv'
<1>1. req' = [req EXCEPT ![p] = r]
  BY DEF Enter
<1>2. r.pc \notin AfterAdvance
  BY DEF AfterAdvance, AfterRoute, AfterStandings
<1> QED BY <1>1, <1>2, QuietReady

\* A saga that starts, or starts again, starts where its claims and targets stand.
LEMMA RequestReady ==
    ASSUME Inv, ReadyInv, Next, ~ \E q \in Procs : CompleteSaga(q),
           \/ \E p \in Procs, w \in Slots : ConfirmClaim(p, w)
           \/ \E p \in Users : ReviewRequest(p)
           \/ RedriveStuckCompletionSagas
    PROVE  ReadyInv'
<1>1. ASSUME NEW p \in Procs, NEW w \in Slots, ConfirmClaim(p, w) PROVE ReadyInv'
  <2> DEFINE r == [NoRequest EXCEPT !.op = "confirm", !.pc = "start", !.win = w, !.claim = TRUE]
  <2>1. Enter(p, r) /\ UNCHANGED <<format, target, sibling>>
    BY <1>1 DEF ConfirmClaim, bracket
  <2>2. r.pc = "start"
    BY DEF NoRequest
  <2> HIDE DEF r
  <2> QED BY <2>1, <2>2, EnterReady
<1>2. ASSUME NEW p \in Users, ReviewRequest(p) PROVE ReadyInv'
  <2>1. PICK o \in {"acknowledge", "approve", "reject"},
             l \in {"ack_write", "approve_write", "reject_write"},
             v \in ReviewIds, s \in 0..2 : Arrive(p, o, l, v, s)
    BY <1>2 DEF ReviewRequest, Acknowledge, Approve, Reject
  <2> DEFINE r == [NoRequest EXCEPT !.op = o, !.pc = l, !.review = v, !.side = s,
                                    !.other = (3 - s) \in reviews[v].acks]
  <2>2. Enter(p, r) /\ UNCHANGED <<format, target, sibling>>
    BY <2>1 DEF Arrive, bracket
  <2>3. r.pc = l
    BY DEF NoRequest
  <2> HIDE DEF r
  <2> QED BY <2>2, <2>3, EnterReady
<1>3. CASE RedriveStuckCompletionSagas
  <2> DEFINE r == [NoRequest EXCEPT !.op = "redrive", !.pc = "batch",
                     !.batch = {Snapshot(s) : s \in {x \in SagaIds : is_retryable(x)}}]
  <2>1. Enter(Sweeper, r) /\ UNCHANGED <<format, target, sibling>>
    BY <1>3 DEF RedriveStuckCompletionSagas, bracket
  <2>2. r.pc = "batch" /\ Sweeper \in Procs
    BY DEF NoRequest, Procs
  <2> HIDE DEF r
  <2> QED BY <2>1, <2>2, EnterReady
<1> QED BY <1>1, <1>2, <1>3

\* The other match that feeds the winner's next one.
LEMMA SiblingReady ==
    ASSUME Inv, ReadyInv, Sibling
    PROVE  ReadyInv'
<1>1. target \in TargetRows /\ UNCHANGED <<format, req, sagas>>
  BY DEF Inv, TypeOK, TargetRows, Sibling, SiblingAssign, SiblingReadReady, SiblingMarkReady,
         SiblingStep
<1>2. SidesOK' /\ SettledStays
  <2>1. CASE SiblingAssign
    <3>1. target' = [target EXCEPT !["winner"] = [target["winner"] EXCEPT !.other = TRUE]]
          /\ sibling = "playing" /\ sibling' = "assigned"
      BY <2>1 DEF SiblingAssign, SiblingStep
    <3> QED BY <1>1, <3>1, TargetsOfTargets
             DEF TargetRows, Targets, ReadyInv, SidesOK, SettledStays, Settled
  <2>2. CASE SiblingReadReady
    <3>1. target' = [target EXCEPT !["winner"] = target["winner"]] /\ sibling = "assigned"
          /\ sibling' = IF target["winner"].status = "pending" /\ HasBoth("winner")
                        THEN "read" ELSE "done"
      BY <2>2 DEF SiblingReadReady, SiblingStep
    <3>2. target' = target
      BY <1>1, <3>1 DEF TargetRows
    <3>3. target["winner"].status \in {"pending", "ready"} /\ target["winner"].other
      BY <1>1, <3>1 DEF TargetRows, Targets, ReadyInv, SidesOK
    <3> QED BY <3>1, <3>2, <3>3
             DEF HasBoth, ReadyInv, SidesOK, SettledStays, Settled
  <2>3. CASE SiblingMarkReady
    <3>1. target' = [target EXCEPT !["winner"] = [target["winner"] EXCEPT !.status = "ready"]]
          /\ sibling = "read" /\ sibling' = "done"
      BY <2>3 DEF SiblingMarkReady, SiblingStep
    <3> QED BY <1>1, <3>1, TargetsOfTargets
             DEF TargetRows, Targets, ReadyInv, SidesOK, SettledStays, Settled
  <2> QED BY <2>1, <2>2, <2>3 DEF Sibling
<1>3. ASSUME NEW p \in Procs PROVE ReadyOK(req[p])'
  <2>1. ReadyOK(req[p]) /\ req'[p] = req[p]
    BY <1>1 DEF ReadyInv
  <2> QED BY <1>1, <1>2, <2>1 DEF ReadyOK, SettledStays
<1>4. SomeCompleted' => \A t \in TargetsOf(format) : Settled(t)'
  BY <1>1, <1>2 DEF ReadyInv, SomeCompleted, SettledStays
<1> QED BY <1>1, <1>2, <1>3, <1>4 DEF ReadyInv, SomeCompleted

\* Claims are made, time passes, requests fail or end.
LEMMA EnvironmentReady ==
    ASSUME Inv, ReadyInv, Next, ~ \E q \in Procs : CompleteSaga(q),
           \/ SubmitClaim
           \/ \E s \in SagaIds : SagaGrowsStale(s)
           \/ \E p \in Procs : StepError(p) \/ Die(p)
    PROVE  ReadyInv'
<1>1. CASE SubmitClaim \/ \E s \in SagaIds : SagaGrowsStale(s)
  <2>1. UNCHANGED <<format, target, sibling, req>>
    BY <1>1 DEF SubmitClaim, SagaGrowsStale, bracket
  <2>2. SidesOK' /\ SettledStays
    BY <2>1, SettledUnchanged
  <2>3. \A p \in Procs : ReadyOK(req[p])'
    BY <2>1 DEF ReadyInv, ReadyOK, Settled
  <2>4. SomeCompleted' => \A t \in TargetsOf(format) : Settled(t)'
    BY <2>1, <2>2, CompletedBy DEF ReadyInv, SomeCompleted, SettledStays
  <2> QED BY <2>1, <2>2, <2>3, <2>4 DEF ReadyInv, SomeCompleted
<1>2. ASSUME NEW p \in Procs, StepError(p) \/ Die(p) PROVE ReadyInv'
  <2>1. UNCHANGED <<format, target, sibling>> /\ (Continue(p, "fail") \/ Finish(p))
    BY <1>2 DEF StepError, Die, bracket
  <2>2. "fail" \in PCs \ AfterAdvance
    BY DEF PCs, AfterAdvance, AfterRoute, AfterStandings
  <2> QED BY <2>1, <2>2, QuietReady
<1> QED BY <1>1, <1>2

\* Every step keeps a full downstream match ready.
LEMMA NextReady ==
    ASSUME Inv, Work, ReadyInv, [Next]_vars
    PROVE  ReadyInv'
<1>1. CASE UNCHANGED vars
  BY <1>1 DEF vars, bracket, ReadyInv, SidesOK, ReadyOK, Settled, HasBoth
<1>2. CASE Next /\ \E p \in Procs : CompleteSaga(p)
  BY <1>2, CompleteReady
<1>3. CASE Next /\ ~ \E p \in Procs : CompleteSaga(p)
  <2>1. ASSUME NEW p \in Procs, Statement(p) PROVE ReadyInv'
    BY <1>3, <2>1, TableReady, OtherStatementReady, StepReady DEF Statement
  <2> QED BY <1>3, <2>1, RequestReady, SiblingReady, EnvironmentReady DEF Next
<1> QED BY <1>1, <1>2, <1>3

\* No downstream match is full at the start.
LEMMA InitReady == Init => ReadyInv
<1> SUFFICES ASSUME Init PROVE ReadyInv
  OBVIOUS
<1>1. SidesOK
  BY DEF Init, SidesOK, Targets
<1>2. ASSUME NEW p \in Procs PROVE ReadyOK(req[p])
  <2>1. req[p].pc = "idle"
    BY DEF Init, NoRequest
  <2> QED BY <2>1 DEF ReadyOK, AfterAdvance, AfterRoute, AfterReady, AfterStandings
<1>3. \A s \in SagaIds : sagas[s].status # "completed"
  BY DEF Init, NoSaga
<1> QED BY <1>1, <1>2, <1>3 DEF ReadyInv

\* Two matches that feed the same next one may overlap in any way, fail, die and
\* be re-driven: once a completion of the match has ended and nobody is at work,
\* no match that has both its sides is left pending.
THEOREM FedMatchIsReady == Spec => []FullMatchIsReady
<1>1. Inv /\ Work /\ ReadyInv /\ [Next]_vars => ReadyInv'
  BY NextReady
<1>2. ReadyInv => FullMatchIsReady
  <2> SUFFICES ASSUME ReadyInv, sibling \in {"playing", "done"}, SomeCompleted,
                      NEW t \in TargetsOf(format), HasBoth(t)
               PROVE  target[t].status = "ready"
    BY DEF FullMatchIsReady, SomeCompleted
  <2>1. Settled(t)
    BY DEF ReadyInv, SomeCompleted
  <2> QED BY <2>1 DEF Settled, HasBoth, ReadyInv, SidesOK
<1> QED BY <1>1, <1>2, InitReady, WorkInvariance, PTL DEF Spec

-----------------------------------------------------------------------------
(* Served one at a time, a result is counted once *)

\* One request is in flight.
Alone == \A p, q \in Procs : ~Idle(p) /\ ~Idle(q) => p = q

\* Where a request is still to count its result.
ToCount == {"start", "retire", "restart", "validate", "demos", "complete_read", "submit",
            "advance", "route", "ready_read", "ready_write", "standings",
            "standings_save", "stage", "stats"}

\* A request of kind o at l, while the match was counted k times for n results and
\* has status st: without failures nothing is re-driven, a confirmation brings a
\* result that was not counted, and a resumed saga one that nobody counted.
CountOK(l, o, k, n, st) ==
    /\ l \notin {"batch", "record", "stall", "stall_insert", "fail"}
    /\ l \in {"ack_write", "ack_status", "ack_check"} => o = "acknowledge"
    /\ l \in {"approve_write"} => o = "approve"
    /\ l \in {"resume_read", "resume_check"} => o \in {"acknowledge", "approve"}
    /\ l \in WinnerPCs => o \in {"confirm", "acknowledge", "approve"}
    /\ l \in ToCount => IF o = "confirm" THEN k < n ELSE k = 0 /\ n > 0
    /\ l = "resume_check" => n > 0
    /\ l = "validate" => o = "confirm"
    /\ l \in {"start", "retire", "restart", "validate"} /\ o = "confirm" => st = "completed"

\* No row failed, and a running one belongs to the request in flight.
Tidy(s, p) ==
    /\ sagas[s].status # "failed"
    /\ sagas[s].status = "running" => ~sagas[s].stale /\ req[p].saga = s

CountInv ==
    /\ \A p \in Procs : CountOK(req[p].pc, req[p].op, stats, results, status)
    /\ \A s \in SagaIds : \E p \in Procs : Tidy(s, p)
    /\ stats <= results
    /\ winner # 0 => results > 0
    /\ stats > 0 => SomeCompleted \/ \E p \in Procs : req[p].pc = "complete"

\* The request at work, or the one that arrives, is the only one.
Busy(p) == Alone /\ (Idle(p) => Quiescent)

\* What p does is all that happens to the requests.
LEMMA OnlyOne ==
    ASSUME NEW p \in Procs, Busy(p), \A q \in Procs \ {p} : req'[q] = req[q]
    PROVE  Alone' /\ \A q \in Procs \ {p} : Idle(q) /\ Idle(q)'
<1>1. \A q \in Procs \ {p} : Idle(q)
  BY DEF Busy, Alone, Quiescent
<1> QED BY <1>1 DEF Alone, Idle

\* A step of p.
LEMMA CountMoves ==
    ASSUME NEW p \in Procs, Busy(p), \A q \in Procs \ {p} : req'[q] = req[q],
           CountOK(req[p].pc, req[p].op, stats, results, status)',
           \A s \in SagaIds : Tidy(s, p)',
           (stats <= results)', (winner # 0 => results > 0)',
           (stats > 0)' => SomeCompleted' \/ (req[p].pc = "complete")'
    PROVE  Alone' /\ CountInv'
<1>1. Alone' /\ \A q \in Procs \ {p} : Idle(q)'
  BY OnlyOne
<1>2. ASSUME NEW q \in Procs PROVE CountOK(req[q].pc, req[q].op, stats, results, status)'
  <2>1. CASE q # p
    <3>1. req'[q].pc = "idle"
      BY <1>1, <2>1 DEF Idle
    <3> QED BY <3>1 DEF CountOK, WinnerPCs, OwnerPCs, ToCount
  <2> QED BY <2>1
<1> QED BY <1>1, <1>2 DEF CountInv

\* What a step of p may rely on.
LEMMA CountFacts ==
    ASSUME Inv, CountInv, NEW p \in Procs, Busy(p)
    PROVE  /\ CountOK(req[p].pc, req[p].op, stats, results, status)
           /\ \A s \in SagaIds : Tidy(s, p)
           /\ stats <= results /\ stats \in Nat /\ results \in Nat
           /\ winner # 0 => results > 0
           /\ stats > 0 => SomeCompleted \/ req[p].pc = "complete"
           /\ req \in [Procs -> Requests] /\ req[p] \in Requests
<1>1. \A q \in Procs \ {p} : Idle(q)
  BY DEF Busy, Alone, Quiescent
<1>2. \A q \in Procs \ {p} : req[q].saga = 0
  BY <1>1 DEF Inv, RequestsOK, OwnerOK, OwnerPCs, Idle
<1>3. ASSUME NEW s \in SagaIds PROVE Tidy(s, p)
  <2>1. PICK q \in Procs : Tidy(s, q)
    BY DEF CountInv
  <2>2. s # 0
    BY DEF SagaIds
  <2> QED BY <1>2, <2>1, <2>2 DEF Tidy
<1>4. results \in 0..MaxResults /\ stats \in Nat /\ req \in [Procs -> Requests]
  BY DEF Inv, TypeOK
<1>5. results \in Nat
  BY <1>4, SagaAssumption DEF SagaAssumption
<1>6. stats > 0 => SomeCompleted \/ req[p].pc = "complete"
  BY <1>1 DEF CountInv, Idle
<1> QED BY <1>3, <1>4, <1>5, <1>6 DEF CountInv

\* A step of p that counts nothing and writes no row.
LEMMA CountStays ==
    ASSUME Inv, CountInv, NEW p \in Procs, Busy(p), req[p].pc # "complete",
           \A q \in Procs \ {p} : req'[q] = req[q], req'[p].saga = req[p].saga,
           UNCHANGED <<sagas, stats, results>>,
           winner' # 0 => winner # 0 \/ results > 0,
           CountOK(req[p].pc, req[p].op, stats, results, status)'
    PROVE  Alone' /\ CountInv'
<1>1. /\ \A s \in SagaIds : Tidy(s, p)
      /\ stats <= results
      /\ winner # 0 => results > 0
      /\ stats > 0 => SomeCompleted \/ req[p].pc = "complete"
  BY CountFacts
<1>2. \A s \in SagaIds : Tidy(s, p)'
  BY <1>1 DEF Tidy
<1>3. SomeCompleted' <=> SomeCompleted
  BY DEF SomeCompleted
<1> QED BY <1>1, <1>2, <1>3, CountMoves

\* ... that goes on to l.
LEMMA CountContinues ==
    ASSUME Inv, CountInv, NEW p \in Procs, Busy(p), req[p].pc # "complete",
           NEW l, Continue(p, l), UNCHANGED <<sagas, stats, results, winner, status>>,
           CountOK(l, req[p].op, stats, results, status)
    PROVE  Alone' /\ CountInv'
<1>1. req \in [Procs -> Requests] /\ req[p] \in Requests
  BY DEF Inv, TypeOK
<1>2. /\ \A q \in Procs \ {p} : req'[q] = req[q]
      /\ req'[p].pc = l /\ req'[p].saga = req[p].saga /\ req'[p].op = req[p].op
  BY <1>1 DEF Continue, Requests
<1> QED BY <1>2, CountStays

\* ... that ends the request.
LEMMA CountEnds ==
    ASSUME Inv, CountInv, NEW p \in Procs, Busy(p), req[p].saga = 0,
           Finish(p), UNCHANGED <<sagas, stats, results, winner>>
    PROVE  Alone' /\ CountInv'
<1>1. req \in [Procs -> Requests] /\ req[p].pc # "complete"
  BY DEF Inv, TypeOK, RequestsOK, OwnerOK, OwnerPCs
<1>2. /\ \A q \in Procs \ {p} : req'[q] = req[q]
      /\ req'[p].pc = "idle" /\ req'[p].saga = 0
  BY <1>1 DEF Finish, NoRequest
<1>3. CountOK(req[p].pc, req[p].op, stats, results, status)'
  BY <1>2 DEF CountOK, WinnerPCs, OwnerPCs, ToCount
<1> QED BY <1>1, <1>2, <1>3, CountStays

\* The next statement of a run counts like the one before.
LEMMA CountNext ==
    ASSUME NEW l \in ToCount \ {"start", "retire", "restart"}, NEW m \in OwnerPCs \ {"validate", "fail"},
           NEW o, NEW k, NEW n, NEW st, NEW u, CountOK(l, o, k, n, st)
    PROVE  CountOK(m, o, k, n, u)
BY DEF CountOK, WinnerPCs, OwnerPCs, ToCount

\* The steps of the saga before the statistics.
LEMMA EarlyStepCounts ==
    ASSUME Inv, CountInv, NEW p \in Procs, Busy(p),
           \/ StepValidateDemos(p) \/ StepCompleteMatch(p) \/ SubmitResult(p)
           \/ StepAdvanceWinner(p) \/ StepRouteLoser(p)
           \/ StepMarkReadyMatches(p) \/ MarkReadyWrite(p)
           \/ StepUpdateStandings(p) \/ StepAdvanceStage(p)
    PROVE  Alone' /\ CountInv'
<1>1. /\ CountOK(req[p].pc, req[p].op, stats, results, status)
      /\ results \in Nat /\ req \in [Procs -> Requests] /\ req[p] \in Requests
  BY CountFacts
<1>2. /\ req[p].pc \in {"demos", "complete_read", "submit", "advance", "route", "ready_read",
                        "ready_write", "standings", "stage"}
      /\ UNCHANGED <<sagas, stats, results>>
  BY DEF StepValidateDemos, StepCompleteMatch, SubmitResult, StepAdvanceWinner,
     StepRouteLoser, AssignParticipant, StepMarkReadyMatches, MarkReadyWrite,
     StepUpdateStandings, StepAdvanceStage, At, bracket
<1>3. req[p].pc \in ToCount \ {"start", "retire", "restart"} /\ req[p].pc # "complete"
  BY <1>2 DEF ToCount
<1>4. PICK l \in {"complete_read", "pause", "submit", "advance", "route", "ready_read",
                  "ready_write", "standings", "standings_save", "stage", "stats"} :
        /\ req'[p].pc = l /\ req'[p].op = req[p].op /\ req'[p].saga = req[p].saga
        /\ \A q \in Procs \ {p} : req'[q] = req[q]
  <2>1. ASSUME NEW l, Continue(p, l)
        PROVE  /\ req'[p].pc = l /\ req'[p].op = req[p].op /\ req'[p].saga = req[p].saga
               /\ \A q \in Procs \ {p} : req'[q] = req[q]
    BY <1>1, <2>1 DEF Continue, Requests
  <2>2. ASSUME NEW l, NEW T, req' = [req EXCEPT ![p].pc = l, ![p].todo = T]
        PROVE  /\ req'[p].pc = l /\ req'[p].op = req[p].op /\ req'[p].saga = req[p].saga
               /\ \A q \in Procs \ {p} : req'[q] = req[q]
    <3>1. req' = [req EXCEPT ![p] = [req[p] EXCEPT !.pc = l, !.todo = T]]
      BY <1>1, <2>2
    <3> QED BY <1>1, <3>1 DEF Requests
  <2>3. CASE StepValidateDemos(p)
    BY <2>1, <2>3 DEF StepValidateDemos
  <2>4. CASE StepCompleteMatch(p)
    BY <2>1, <2>4 DEF StepCompleteMatch
  <2>5. CASE SubmitResult(p)
    BY <2>1, <2>5 DEF SubmitResult
  <2>6. ASSUME NEW t, NEW l, AssignParticipant(p, t, l)
        PROVE  /\ req'[p].pc = l /\ req'[p].op = req[p].op /\ req'[p].saga = req[p].saga
               /\ \A q \in Procs \ {p} : req'[q] = req[q]
    <3>1. Continue(p, l) \/ req' = [req EXCEPT ![p].pc = l, ![p].todo = req[p].todo \cup {t}]
      BY <1>1, <2>6 DEF AssignParticipant
    <3> QED BY <2>1, <2>2, <3>1
  <2>7. CASE StepAdvanceWinner(p) \/ StepRouteLoser(p)
    BY <2>6, <2>7 DEF StepAdvanceWinner, StepRouteLoser
  <2>8. CASE StepMarkReadyMatches(p)
    <3> DEFINE t == IF "winner" \in req[p].todo THEN "winner" ELSE "loser"
    <3>1. \/ Continue(p, "standings") \/ Continue(p, "ready_write")
          \/ req' = [req EXCEPT ![p].todo = @ \ {t}] /\ req[p].pc = "ready_read"
      BY <2>8 DEF StepMarkReadyMatches, At
    <3>2. ASSUME req' = [req EXCEPT ![p].todo = @ \ {t}], req[p].pc = "ready_read"
          PROVE  /\ req'[p].pc = "ready_read" /\ req'[p].op = req[p].op
                 /\ req'[p].saga = req[p].saga
                 /\ \A q \in Procs \ {p} : req'[q] = req[q]
      <4>1. req' = [req EXCEPT ![p] = [req[p] EXCEPT !.todo = req[p].todo \ {t}]]
        BY <1>1, <3>2
      <4> QED BY <1>1, <3>2, <4>1 DEF Requests
    <3> HIDE DEF t
    <3> QED BY <2>1, <3>1, <3>2
  <2>9. CASE MarkReadyWrite(p)
    <3> DEFINE t == IF "winner" \in req[p].todo THEN "winner" ELSE "loser"
    <3>1. req' = [req EXCEPT ![p].todo = @ \ {t}, ![p].pc = "ready_read"]
      BY <2>9 DEF MarkReadyWrite
    <3>2. req' = [req EXCEPT ![p] = [req[p] EXCEPT !.pc = "ready_read", !.todo = req[p].todo \ {t}]]
      BY <1>1, <3>1
    <3>3. req' = [req EXCEPT ![p].pc = "ready_read", ![p].todo = req[p].todo \ {t}]
      BY <1>1, <3>2
    <3> QED BY <2>2, <3>3
  <2>10. CASE StepUpdateStandings(p)
    BY <2>1, <2>10 DEF StepUpdateStandings
  <2>11. CASE StepAdvanceStage(p)
    BY <2>1, <2>11 DEF StepAdvanceStage
  <2> QED BY <2>3, <2>4, <2>5, <2>7, <2>8, <2>9, <2>10, <2>11
<1>5. CountOK(l, req[p].op, stats, results, status')
  BY <1>1, <1>3, <1>4, CountNext DEF OwnerPCs
<1>6. CountOK(req[p].pc, req[p].op, stats, results, status)'
  BY <1>2, <1>4, <1>5
<1>7. results > 0
  <2>1. req[p].pc \in ToCount
    BY <1>3
  <2>2. stats \in Nat
    BY DEF Inv, TypeOK
  <2> QED BY <1>1, <2>1, <2>2 DEF CountOK
<1> QED BY <1>2, <1>3, <1>4, <1>6, <1>7, CountStays

\* Step 8 counts the result of the run.
LEMMA StatsCount ==
    ASSUME Inv, CountInv, NEW p \in Procs, Busy(p), StepUpdatePlayerStats(p), errors' = errors
    PROVE  Alone' /\ CountInv'
<1>1. /\ CountOK(req[p].pc, req[p].op, stats, results, status)
      /\ \A s \in SagaIds : Tidy(s, p)
      /\ stats <= results /\ stats \in Nat /\ results \in Nat
      /\ winner # 0 => results > 0
      /\ req \in [Procs -> Requests] /\ req[p] \in Requests
  BY CountFacts
<1>2. /\ req[p].pc = "stats" /\ Continue(p, "complete")
      /\ UNCHANGED <<sagas, results, winner, status>>
  BY DEF StepUpdatePlayerStats, At
<1>3. stats' = stats + 1
  <2>1. errors \in Nat
    BY SagaAssumption DEF Inv, TypeOK, SagaAssumption
  <2> QED BY <2>1 DEF StepUpdatePlayerStats
<1>4. /\ \A q \in Procs \ {p} : req'[q] = req[q]
      /\ req'[p].pc = "complete" /\ req'[p].saga = req[p].saga /\ req'[p].op = req[p].op
  BY <1>1, <1>2 DEF Continue, Requests
<1>5. IF req[p].op = "confirm" THEN stats < results ELSE stats = 0 /\ results > 0
  BY <1>1, <1>2 DEF CountOK, ToCount
<1>6. stats' <= results'
  BY <1>1, <1>2, <1>3, <1>5
<1>7. CountOK(req[p].pc, req[p].op, stats, results, status)'
  <2>1. req[p].op \in {"confirm", "acknowledge", "approve"}
    BY <1>1, <1>2 DEF CountOK, WinnerPCs, OwnerPCs
  <2> QED BY <1>4, <2>1 DEF CountOK, WinnerPCs, OwnerPCs, ToCount
<1>8. \A s \in SagaIds : Tidy(s, p)'
  BY <1>1, <1>2, <1>4 DEF Tidy
<1> QED BY <1>1, <1>2, <1>4, <1>6, <1>7, <1>8, CountMoves

\* A step of p that writes its own row, which ends or still runs.
LEMMA RowCounts ==
    ASSUME Inv, CountInv, NEW p \in Procs, Busy(p), NEW own \in SagaIds,
           req[p].saga \in {0, own}, req'[p].saga \in {0, own},
           \A q \in Procs \ {p} : req'[q] = req[q],
           UNCHANGED <<stats, results, winner>>,
           sagas' \in [SagaIds -> Sagas],
           \A s \in SagaIds \ {own} : sagas'[s] = sagas[s],
           sagas'[own].status # "failed",
           sagas'[own].status = "running" => ~sagas'[own].stale /\ req'[p].saga = own,
           sagas[own].status # "completed",
           req[p].pc = "complete" => sagas'[own].status = "completed",
           CountOK(req[p].pc, req[p].op, stats, results, status)'
    PROVE  Alone' /\ CountInv'
<1>1. /\ \A s \in SagaIds : Tidy(s, p)
      /\ stats <= results /\ stats \in Nat /\ results \in Nat
      /\ winner # 0 => results > 0
      /\ stats > 0 => SomeCompleted \/ req[p].pc = "complete"
  BY CountFacts
<1>2. own # 0
  BY DEF SagaIds
<1>3. ASSUME NEW s \in SagaIds PROVE Tidy(s, p)'
  <2>1. CASE s = own
    BY <2>1 DEF Tidy
  <2>2. CASE s # own
    BY <1>1, <1>2, <2>2 DEF Tidy, SagaIds
  <2> QED BY <2>1, <2>2
<1>4. SomeCompleted => SomeCompleted'
  BY DEF SomeCompleted
<1>5. req[p].pc = "complete" => SomeCompleted'
  BY DEF SomeCompleted
<1> QED BY <1>1, <1>3, <1>4, <1>5, CountMoves

\* Step 1 finds the match of a confirmed result completed.
LEMMA ValidateCounts ==
    ASSUME Inv, CountInv, NEW p \in Procs, Busy(p), StepValidateMatch(p)
    PROVE  Alone' /\ CountInv'
<1>1. /\ CountOK(req[p].pc, req[p].op, stats, results, status)
      /\ req \in [Procs -> Requests] /\ req[p] \in Requests
  BY CountFacts
<1>2. req[p].pc = "validate" /\ status = "completed"
  BY <1>1 DEF StepValidateMatch, At, CountOK
<1>3. Continue(p, "demos") /\ UNCHANGED <<stats, results, winner, status>>
  BY <1>2 DEF StepValidateMatch, bracket
<1>4. UNCHANGED sagas
  <2>1. sagas' = [sagas EXCEPT ![req[p].saga].retry = @]
    BY <1>2 DEF StepValidateMatch
  <2>2. sagas \in [SagaIds -> Sagas] /\ req[p].saga \in SagaIds
    BY <1>2, OwnerSaga DEF Inv, TypeOK, OwnerPCs
  <2>3. sagas' = [sagas EXCEPT ![req[p].saga] = [sagas[req[p].saga] EXCEPT !.retry = sagas[req[p].saga].retry]]
    BY <2>1, <2>2
  <2>4. [sagas[req[p].saga] EXCEPT !.retry = sagas[req[p].saga].retry] = sagas[req[p].saga]
    BY <2>2 DEF Sagas
  <2> QED BY <2>2, <2>3, <2>4
<1>5. CountOK("demos", req[p].op, stats, results, status)
  BY <1>1, <1>2, CountNext DEF ToCount, OwnerPCs
<1> QED BY <1>2, <1>3, <1>4, <1>5, CountContinues

\* The history of the standings step, and the two ends of a run without failures.
LEMMA OwnRowCounts ==
    ASSUME Inv, CountInv, NEW p \in Procs, Busy(p),
           SaveStandingsStep(p) \/ CompleteSaga(p) \/ FailSaga(p) \/ PauseSaga(p)
    PROVE  Alone' /\ CountInv'
<1> DEFINE own == req[p].saga
<1>1. /\ CountOK(req[p].pc, req[p].op, stats, results, status)
      /\ req \in [Procs -> Requests] /\ req[p] \in Requests
      /\ sagas \in [SagaIds -> Sagas]
  BY CountFacts DEF Inv, TypeOK
<1>2. req[p].pc \in {"standings_save", "complete", "pause"}
  BY <1>1 DEF SaveStandingsStep, CompleteSaga, FailSaga, PauseSaga, EndSaga, At, CountOK
<1>3. own \in SagaIds /\ sagas[own].status = "running" /\ ~sagas[own].stale
  BY <1>2, OwnerSaga DEF OwnerPCs
<1>4. UNCHANGED <<stats, results, winner, status>>
  BY DEF SaveStandingsStep, CompleteSaga, FailSaga, PauseSaga, EndSaga, bracket
<1>5. CASE SaveStandingsStep(p)
  <2>1. /\ req[p].pc = "standings_save" /\ Continue(p, "stage")
        /\ sagas' = [sagas EXCEPT ![own].standings = TRUE]
    BY <1>5 DEF SaveStandingsStep, At
  <2>2. /\ \A q \in Procs \ {p} : req'[q] = req[q]
        /\ req'[p].pc = "stage" /\ req'[p].saga = own /\ req'[p].op = req[p].op
    BY <1>1, <2>1 DEF Continue, Requests
  <2>3. CountOK("stage", req[p].op, stats, results, status')
    BY <1>1, <2>1, CountNext DEF ToCount, OwnerPCs
  <2>4. sagas' \in [SagaIds -> Sagas]
    BY <1>1, <2>1, SagaUpdates
  <2>5. /\ sagas'[own].status = sagas[own].status /\ sagas'[own].stale = sagas[own].stale
        /\ \A s \in SagaIds \ {own} : sagas'[s] = sagas[s]
    BY <1>1, <1>3, <2>1 DEF Sagas
  <2>6. CountOK(req[p].pc, req[p].op, stats, results, status)'
    BY <1>4, <2>2, <2>3
  <2> HIDE DEF own
  <2> QED BY <1>3, <1>4, <2>1, <2>2, <2>4, <2>5, <2>6, RowCounts DEF own
<1>6. CASE ~SaveStandingsStep(p)
  <2>1. PICK st \in {"completed", "paused"}, ok \in BOOLEAN :
          /\ sagas' = [sagas EXCEPT ![own].status = st] /\ Return(p, ok)
          /\ req[p].pc = "complete" => st = "completed"
          /\ req[p].pc \in {"complete", "pause"}
    BY <1>1, <1>6 DEF CompleteSaga, FailSaga, PauseSaga, EndSaga, At, CountOK
  <2>2. req' = [req EXCEPT ![p] = NoRequest]
    <3>1. req[p].op # "redrive"
      BY <1>1, <2>1 DEF CountOK, WinnerPCs, OwnerPCs
    <3> QED BY <1>1, <2>1, <3>1 DEF Return
  <2>3. /\ \A q \in Procs \ {p} : req'[q] = req[q]
        /\ req'[p].pc = "idle" /\ req'[p].saga = 0
    BY <1>1, <2>2 DEF NoRequest
  <2>4. CountOK(req[p].pc, req[p].op, stats, results, status)'
    BY <2>3 DEF CountOK, WinnerPCs, OwnerPCs, ToCount
  <2>5. sagas' \in [SagaIds -> Sagas]
    BY <1>1, <2>1, SagaUpdates DEF SagaStatus
  <2>6. sagas'[own].status = st /\ \A s \in SagaIds \ {own} : sagas'[s] = sagas[s]
    BY <1>1, <1>3, <2>1 DEF Sagas
  <2> HIDE DEF own
  <2> QED BY <1>3, <1>4, <2>1, <2>3, <2>4, <2>5, <2>6, RowCounts DEF own
<1> QED BY <1>5, <1>6

\* A row is inserted.
LEMMA InsertCounts ==
    ASSUME Inv, CountInv, NEW p \in Procs, Busy(p), req[p].pc \in {"start", "restart"},
           Live = {}, InsertRunning(p), UNCHANGED <<stats, results, winner, status>>
    PROVE  Alone' /\ CountInv'
<1>1. /\ CountOK(req[p].pc, req[p].op, stats, results, status)
      /\ req \in [Procs -> Requests] /\ req[p] \in Requests
      /\ sagas \in [SagaIds -> Sagas]
  BY CountFacts DEF Inv, TypeOK
<1>2. req[p].saga = 0
  BY DEF Inv, RequestsOK, OwnerOK, OwnerPCs
<1>3. PICK s \in SagaIds :
        /\ ~Exists(s)
        /\ sagas' = [sagas EXCEPT ![s] = [NoSaga EXCEPT !.status = "running",
                                                        !.win = req[p].win,
                                                        !.claim = req[p].claim]]
        /\ req' = [req EXCEPT ![p].saga = s, ![p].pc = FirstStep(p)]
  BY DEF InsertRunning
<1>4. /\ \A q \in Procs \ {p} : req'[q] = req[q]
      /\ req'[p].pc = FirstStep(p) /\ req'[p].saga = s /\ req'[p].op = req[p].op
  <2>1. req' = [req EXCEPT ![p] = [req[p] EXCEPT !.saga = s, !.pc = FirstStep(p)]]
    BY <1>1, <1>3
  <2> QED BY <1>1, <2>1 DEF Requests
<1>5. /\ sagas'[s].status = "running" /\ ~sagas'[s].stale
      /\ \A x \in SagaIds \ {s} : sagas'[x] = sagas[x]
  BY <1>1, <1>3 DEF NoSaga
<1>6. CountOK(req[p].pc, req[p].op, stats, results, status)'
  <2>1. /\ req[p].op \in {"confirm", "acknowledge", "approve"}
        /\ IF req[p].op = "confirm" THEN stats < results ELSE stats = 0 /\ results > 0
        /\ req[p].op = "confirm" => status = "completed"
    BY <1>1 DEF CountOK, WinnerPCs, ToCount
  <2>2. /\ FirstStep(p) \in {"validate", "complete_read"}
        /\ FirstStep(p) = "validate" => req[p].op = "confirm"
    BY <2>1 DEF FirstStep
  <2> QED BY <1>4, <2>1, <2>2 DEF CountOK, WinnerPCs, OwnerPCs, ToCount
<1>7. sagas' \in [SagaIds -> Sagas]
  BY InsertKeeps
<1>8. sagas[s].status # "completed" /\ req[p].pc # "complete"
  BY <1>3 DEF Exists
<1> QED BY <1>2, <1>3, <1>4, <1>5, <1>6, <1>7, <1>8, RowCounts

\* create and its second attempt: nobody else is there to conflict with.
LEMMA StartCounts ==
    ASSUME Inv, CountInv, NEW p \in Procs, Busy(p),
           StartSaga(p) \/ RetireStaleLiveSaga(p) \/ RestartSaga(p)
    PROVE  Alone' /\ CountInv'
<1>1. /\ CountOK(req[p].pc, req[p].op, stats, results, status)
      /\ \A s \in SagaIds : Tidy(s, p)
      /\ req \in [Procs -> Requests] /\ req[p] \in Requests
  BY CountFacts
<1>2. /\ req[p].pc \in {"start", "retire", "restart"}
      /\ UNCHANGED <<stats, results, winner, status>>
  BY DEF StartSaga, RetireStaleLiveSaga, RestartSaga, At, bracket
<1>3. req[p].saga = 0 /\ req[p].pc # "complete"
  BY <1>2 DEF Inv, RequestsOK, OwnerOK, OwnerPCs
<1>4. Live = {}
  BY <1>1, <1>3 DEF Live, Tidy, SagaIds
<1>5. CASE StartSaga(p) \/ RestartSaga(p)
  <2>1. InsertRunning(p) /\ req[p].pc \in {"start", "restart"}
    BY <1>4, <1>5 DEF StartSaga, RestartSaga, At
  <2> QED BY <1>2, <1>4, <2>1, InsertCounts
<1>6. CASE RetireStaleLiveSaga(p)
  <2>1. StaleLive = {}
    BY <1>4 DEF StaleLive
  <2>2. UNCHANGED sagas
    <3>1. sagas' = [s \in SagaIds |-> sagas[s]]
      BY <1>6, <2>1 DEF RetireStaleLiveSaga
    <3> QED BY <3>1 DEF Inv, TypeOK
  <2>3. Return(p, FALSE)
    BY <1>6, <2>1 DEF RetireStaleLiveSaga
  <2>4. Finish(p)
    <3>1. req[p].op # "redrive"
      BY <1>1, <1>2 DEF CountOK, WinnerPCs
    <3> QED BY <1>1, <2>3, <3>1 DEF Return, Finish
  <2> QED BY <1>2, <1>3, <2>2, <2>4, CountEnds
<1> QED BY <1>5, <1>6

\* Reviews and resumptions; nothing is re-driven.
LEMMA OtherStatementCounts ==
    ASSUME Inv, CountInv, NEW p \in Procs, Busy(p),
           \/ RedriveNext(p) \/ RecordRetry(p) \/ RaiseProgressionStall(p) \/ InsertStallReview(p)
           \/ UpdateCaptainAcknowledgment(p) \/ SetAcknowledged(p) \/ AcknowledgedCheck(p)
           \/ ApproveWrite(p) \/ RejectWrite(p) \/ RevertMatch(p)
           \/ ResumeRead(p) \/ ResumeCheck(p)
    PROVE  Alone' /\ CountInv'
<1>1. /\ CountOK(req[p].pc, req[p].op, stats, results, status)
      /\ winner # 0 => results > 0
      /\ stats > 0 => SomeCompleted \/ req[p].pc = "complete"
      /\ req \in [Procs -> Requests] /\ req[p] \in Requests
      /\ stats \in Nat
  BY CountFacts
<1>2. /\ req[p].pc \in {"ack_write", "ack_status", "ack_check", "approve_write", "reject_write",
                        "revert", "resume_read", "resume_check"}
      /\ UNCHANGED <<sagas, stats, results, winner>>
  BY <1>1 DEF RedriveNext, RecordRetry, RaiseProgressionStall, InsertStallReview,
     UpdateCaptainAcknowledgment, SetAcknowledged, ApproveWrite, RejectWrite, SetReviewStatus,
     AcknowledgedCheck, RevertMatch, ResumeRead, ResumeCheck, At, bracket, CountOK
<1>3. req[p].saga = 0 /\ req[p].pc # "complete"
  BY <1>2 DEF Inv, RequestsOK, OwnerOK, OwnerPCs
<1>4. CASE Finish(p)
  BY <1>2, <1>3, <1>4, CountEnds
<1>5. CASE ResumeRead(p) /\ ~Finish(p)
  <2>1. /\ req' = [req EXCEPT ![p].pc = "resume_check", ![p].win = winner]
        /\ winner # 0 /\ req[p].pc = "resume_read"
    BY <1>5 DEF ResumeRead, At
  <2>2. /\ \A q \in Procs \ {p} : req'[q] = req[q]
        /\ req'[p].pc = "resume_check" /\ req'[p].saga = req[p].saga /\ req'[p].op = req[p].op
    <3>1. req' = [req EXCEPT ![p] = [req[p] EXCEPT !.pc = "resume_check", !.win = winner]]
      BY <1>1, <2>1
    <3> QED BY <1>1, <3>1 DEF Requests
  <2>3. CountOK(req[p].pc, req[p].op, stats, results, status)'
    BY <1>1, <1>2, <2>1, <2>2 DEF CountOK, WinnerPCs, OwnerPCs, ToCount
  <2> QED BY <1>2, <1>3, <2>2, <2>3, CountStays
<1>6. CASE ~Finish(p) /\ ~ResumeRead(p)
  <2>1. PICK l \in {"ack_status", "ack_check", "resume_read", "revert", "start"} :
          /\ Continue(p, l)
          /\ l = "ack_status" => req[p].pc = "ack_write"
          /\ l = "ack_check" => req[p].pc \in {"ack_write", "ack_status"}
          /\ l = "resume_read" => req[p].pc \in {"ack_check", "approve_write"}
          /\ l = "start" => req[p].pc = "resume_check" /\ ~SomeCompleted
          /\ UNCHANGED status
    <3>1. UpdateCaptainAcknowledgment(p) =>
            /\ req[p].pc = "ack_write" /\ UNCHANGED status
            /\ Continue(p, "ack_status") \/ Continue(p, "ack_check")
      BY DEF UpdateCaptainAcknowledgment, At
    <3>2. SetAcknowledged(p) =>
            req[p].pc = "ack_status" /\ UNCHANGED status /\ Continue(p, "ack_check")
      BY DEF SetAcknowledged, SetReviewStatus, At
    <3>3. AcknowledgedCheck(p) =>
            req[p].pc = "ack_check" /\ UNCHANGED status /\ Continue(p, "resume_read")
      BY <1>6 DEF AcknowledgedCheck, At
    <3>4. ApproveWrite(p) =>
            req[p].pc = "approve_write" /\ UNCHANGED status /\ Continue(p, "resume_read")
      BY DEF ApproveWrite, SetReviewStatus, At
    <3>5. RejectWrite(p) => UNCHANGED status /\ Continue(p, "revert")
      BY DEF RejectWrite, SetReviewStatus
    <3>6. ResumeCheck(p) =>
            /\ req[p].pc = "resume_check" /\ UNCHANGED status /\ Continue(p, "start")
            /\ ~SomeCompleted
      BY <1>6 DEF ResumeCheck, At, AlreadyApplied, SomeCompleted
    <3>7. ~(RedriveNext(p) \/ RecordRetry(p) \/ RaiseProgressionStall(p) \/ InsertStallReview(p))
      BY <1>2 DEF RedriveNext, RecordRetry, RaiseProgressionStall, InsertStallReview, At
    <3>8. ~RevertMatch(p)
      BY <1>6 DEF RevertMatch
    <3> QED BY <1>6, <3>1, <3>2, <3>3, <3>4, <3>5, <3>6, <3>7, <3>8
  <2>2. CountOK(l, req[p].op, stats, results, status)
    <3>1. l = "start" => stats = 0 /\ results > 0 /\ req[p].op \in {"acknowledge", "approve"}
      BY <1>1, <2>1 DEF CountOK
    <3> QED BY <1>1, <2>1, <3>1 DEF CountOK, WinnerPCs, OwnerPCs, ToCount
  <2> QED BY <1>2, <1>3, <2>1, <2>2, CountContinues
<1> QED BY <1>4, <1>5, <1>6

\* A request arrives.
LEMMA ArrivalCounts ==
    ASSUME Inv, CountInv, Alone, Serial, NEW p \in Procs, NEW r, Enter(p, r), r.saga = 0,
           UNCHANGED <<sagas, stats>>, results' \in Nat, results <= results',
           winner' # 0 => results' > 0 \/ winner # 0,
           CountOK(r.pc, r.op, stats, results', status')
    PROVE  Alone' /\ CountInv'
<1>1. Idle(p) /\ Busy(p)
  BY DEF Enter, Busy
<1>2. /\ \A s \in SagaIds : Tidy(s, p)
      /\ stats <= results /\ stats \in Nat /\ results \in Nat
      /\ winner # 0 => results > 0
      /\ stats > 0 => SomeCompleted \/ req[p].pc = "complete"
      /\ req \in [Procs -> Requests]
  BY <1>1, CountFacts
<1>3. req'[p] = r /\ \A q \in Procs \ {p} : req'[q] = req[q]
  BY <1>2 DEF Enter
<1>4. req[p].pc = "idle" /\ req[p].saga = 0
  BY <1>1 DEF Idle, Inv, RequestsOK, OwnerOK, OwnerPCs
<1>5. \A s \in SagaIds : Tidy(s, p)'
  BY <1>2, <1>3, <1>4 DEF Tidy
<1>6. stats > 0 => SomeCompleted'
  BY <1>2, <1>4 DEF SomeCompleted
<1>7. CountOK(req[p].pc, req[p].op, stats, results, status)'
  BY <1>3
<1> QED BY <1>1, <1>2, <1>3, <1>5, <1>6, <1>7, CountMoves

\* The requests that arrive; without failures the pass finds nothing to re-drive.
LEMMA RequestCounts ==
    ASSUME Inv, CountInv, Alone, Serial,
           \/ \E p \in Procs, w \in Slots : ConfirmClaim(p, w)
           \/ \E p \in Users : ReviewRequest(p)
           \/ RedriveStuckCompletionSagas
    PROVE  Alone' /\ CountInv'
<1>0. stats <= results /\ stats \in Nat /\ results \in Nat
  BY SagaAssumption DEF CountInv, Inv, TypeOK, SagaAssumption
<1>1. ASSUME NEW p \in Procs, NEW w \in Slots, ConfirmClaim(p, w) PROVE Alone' /\ CountInv'
  <2> DEFINE r == [NoRequest EXCEPT !.op = "confirm", !.pc = "start", !.win = w, !.claim = TRUE]
  <2>1. /\ Enter(p, r) /\ UNCHANGED <<sagas, stats>>
        /\ results' = results + 1 /\ status' = "completed"
    BY <1>1 DEF ConfirmClaim, bracket
  <2>2. r.pc = "start" /\ r.op = "confirm" /\ r.saga = 0
    BY DEF NoRequest
  <2>3. CountOK(r.pc, r.op, stats, results', status')
    BY <1>0, <2>1, <2>2 DEF CountOK, WinnerPCs, OwnerPCs, ToCount
  <2> HIDE DEF r
  <2> QED BY <1>0, <2>1, <2>2, <2>3, ArrivalCounts
<1>2. ASSUME NEW p \in Users, ReviewRequest(p) PROVE Alone' /\ CountInv'
  <2>1. PICK o \in {"acknowledge", "approve", "reject"},
             l \in {"ack_write", "approve_write", "reject_write"},
             v \in ReviewIds, s \in 0..2 :
               /\ Arrive(p, o, l, v, s)
               /\ l = "ack_write" => o = "acknowledge"
               /\ l = "approve_write" => o = "approve"
    <3>1. ASSUME NEW side \in Slots, Acknowledge(p, side)
          PROVE  \E v \in ReviewIds : Arrive(p, "acknowledge", "ack_write", v, side)
      BY <3>1 DEF Acknowledge
    <3>2. ASSUME NEW v \in ReviewIds, Approve(p, v)
          PROVE  Arrive(p, "approve", "approve_write", v, 0)
      BY <3>2 DEF Approve
    <3>3. ASSUME NEW v \in ReviewIds, Reject(p, v)
          PROVE  Arrive(p, "reject", "reject_write", v, 0)
      BY <3>3 DEF Reject
    <3> QED BY <1>2, <3>1, <3>2, <3>3 DEF ReviewRequest
  <2> DEFINE r == [NoRequest EXCEPT !.op = o, !.pc = l, !.review = v, !.side = s,
                                    !.other = (3 - s) \in reviews[v].acks]
  <2>2. Enter(p, r) /\ UNCHANGED <<sagas, stats, results, winner, status>>
    BY <2>1 DEF Arrive, bracket
  <2>3. r.pc = l /\ r.op = o /\ r.saga = 0
    BY DEF NoRequest
  <2>4. CountOK(r.pc, r.op, stats, results', status')
    BY <2>1, <2>2, <2>3 DEF CountOK, WinnerPCs, OwnerPCs, ToCount
  <2>5. p \in Procs
    OBVIOUS
  <2> HIDE DEF r
  <2> QED BY <1>0, <2>2, <2>3, <2>4, <2>5, ArrivalCounts
<1>3. ~RedriveStuckCompletionSagas
  <2>1. ASSUME NEW s \in SagaIds PROVE ~is_retryable(s)
    <3>1. PICK p \in Procs : Tidy(s, p)
      BY DEF CountInv
    <3> QED BY <3>1 DEF Tidy, is_retryable
  <2> QED BY <2>1 DEF RedriveStuckCompletionSagas
<1> QED BY <1>1, <1>2, <1>3

\* Claims, the other match and time.
LEMMA EnvironmentCounts ==
    ASSUME Inv, CountInv, Alone, SubmitClaim \/ Sibling \/ \E s \in SagaIds : SagaGrowsStale(s)
    PROVE  Alone' /\ CountInv'
<1>1. ~ \E s \in SagaIds : SagaGrowsStale(s)
  <2> SUFFICES ASSUME NEW s \in SagaIds, SagaGrowsStale(s) PROVE FALSE
    OBVIOUS
  <2>1. PICK p \in Procs : Tidy(s, p)
    BY DEF CountInv
  <2> QED BY <2>1 DEF Tidy, SagaGrowsStale
<1>2. UNCHANGED <<req, sagas, stats, results, winner>>
  BY <1>1 DEF SubmitClaim, Sibling, SiblingAssign, SiblingReadReady, SiblingMarkReady,
     SiblingStep, bracket
<1>3. status' = status \/ status = "in_progress"
  BY <1>1 DEF SubmitClaim, Sibling, SiblingAssign, SiblingReadReady, SiblingMarkReady,
     SiblingStep
<1>4. ASSUME NEW p \in Procs PROVE CountOK(req[p].pc, req[p].op, stats, results, status)'
  <2>1. CountOK(req[p].pc, req[p].op, stats, results, status)
    BY DEF CountInv
  <2>2. CountOK(req[p].pc, req[p].op, stats, results, status')
    BY <1>3, <2>1 DEF CountOK
  <2> QED BY <1>2, <2>2
<1>5. Alone'
  BY <1>2 DEF Alone, Idle
<1>6. \A s \in SagaIds : \E p \in Procs : Tidy(s, p)'
  BY <1>2 DEF CountInv, Tidy
<1>7. (stats > 0)' => SomeCompleted' \/ \E p \in Procs : (req[p].pc = "complete")'
  BY <1>2 DEF CountInv, SomeCompleted
<1> QED BY <1>2, <1>4, <1>5, <1>6, <1>7 DEF CountInv

\* Every step that does not fail.
LEMMA NextCounts ==
    ASSUME Inv, CountInv, Alone, Serial, [Next]_vars, UNCHANGED faults
    PROVE  Alone' /\ CountInv'
<1>1. CASE UNCHANGED vars
  <2>1. UNCHANGED <<req, sagas, stats, results, winner, status>>
    BY <1>1 DEF vars
  <2>2. \A p \in Procs : CountOK(req[p].pc, req[p].op, stats, results, status)'
    BY <2>1 DEF CountInv
  <2>3. \A s \in SagaIds : \E p \in Procs : Tidy(s, p)'
    BY <2>1 DEF CountInv, Tidy
  <2>4. (stats > 0)' => SomeCompleted' \/ \E p \in Procs : (req[p].pc = "complete")'
    BY <2>1 DEF CountInv, SomeCompleted
  <2>5. Alone'
    BY <2>1 DEF Alone, Idle
  <2> QED BY <2>1, <2>2, <2>3, <2>4, <2>5 DEF CountInv
<1>2. ASSUME NEW p \in Procs, Statement(p) PROVE Alone' /\ CountInv'
  <2>1. ~Idle(p)
    BY <1>2 DEF Statement, Step, StartSaga, RetireStaleLiveSaga, RestartSaga, CompleteSaga,
       FailSaga, PauseSaga, EndSaga, StepValidateMatch, StepValidateDemos, StepCompleteMatch,
       SubmitResult, StepAdvanceWinner, StepRouteLoser, StepMarkReadyMatches, MarkReadyWrite,
       StepUpdateStandings, SaveStandingsStep, StepAdvanceStage, StepUpdatePlayerStats,
       RedriveNext, RecordRetry, RaiseProgressionStall, InsertStallReview,
       UpdateCaptainAcknowledgment, SetAcknowledged, AcknowledgedCheck, ApproveWrite,
       RejectWrite, SetReviewStatus, RevertMatch, ResumeRead, ResumeCheck, At, Idle
  <2>2. Busy(p)
    BY <2>1 DEF Busy
  <2>3. errors' = errors
    BY DEF faults
  <2> QED BY <1>2, <2>2, <2>3, StartCounts, OwnRowCounts, EarlyStepCounts, ValidateCounts,
             StatsCount, OtherStatementCounts DEF Statement, Step
<1>3. ASSUME NEW p \in Procs, StepError(p) \/ Die(p) PROVE FALSE
  <2>1. errors \in Nat /\ crashes \in Nat
    BY SagaAssumption DEF Inv, TypeOK, SagaAssumption
  <2> QED BY <1>3, <2>1 DEF StepError, Die, faults
<1> QED BY <1>1, <1>2, <1>3, RequestCounts, EnvironmentCounts DEF Next

\* Failures are only ever counted up.
LEMMA FaultsGrow ==
    ASSUME Inv, [Next]_vars
    PROVE  errors <= errors' /\ crashes <= crashes'
<1>1. errors \in Nat /\ crashes \in Nat
  BY SagaAssumption DEF Inv, TypeOK, SagaAssumption
<1>2. UNCHANGED faults => errors <= errors' /\ crashes <= crashes'
  BY <1>1 DEF faults
<1>3. ASSUME NEW p \in Procs, Statement(p) PROVE errors <= errors' /\ crashes <= crashes'
  <2>1. StepUpdatePlayerStats(p) => UNCHANGED faults \/ (errors' = errors + 1 /\ crashes' = crashes)
    BY DEF StepUpdatePlayerStats
  <2>2. ASSUME Step(p), ~StepUpdatePlayerStats(p) PROVE UNCHANGED faults
    BY <2>2 DEF Step, StepValidateMatch, StepValidateDemos, StepCompleteMatch, SubmitResult,
       StepAdvanceWinner, StepRouteLoser, AssignParticipant, StepMarkReadyMatches,
       MarkReadyWrite, StepUpdateStandings, SaveStandingsStep, StepAdvanceStage
  <2>3. ASSUME ~Step(p) PROVE UNCHANGED faults
    BY <1>3, <2>3 DEF Statement, StartSaga, RetireStaleLiveSaga, RestartSaga, CompleteSaga,
       FailSaga, PauseSaga, EndSaga, RedriveNext, RecordRetry, RaiseProgressionStall,
       InsertStallReview, UpdateCaptainAcknowledgment, SetAcknowledged, AcknowledgedCheck,
       ApproveWrite, RejectWrite, SetReviewStatus, RevertMatch, ResumeRead, ResumeCheck
  <2> QED BY <1>1, <1>2, <2>1, <2>2, <2>3
<1>4. ASSUME NEW p \in Procs, StepError(p) \/ Die(p) PROVE errors <= errors' /\ crashes <= crashes'
  BY <1>1, <1>4 DEF StepError, Die
<1>5. ASSUME NEW p \in Procs, NEW w \in Slots, ConfirmClaim(p, w) PROVE UNCHANGED faults
  BY <1>5 DEF ConfirmClaim
<1>6. ASSUME NEW p \in Users, ReviewRequest(p) PROVE UNCHANGED faults
  BY <1>6 DEF ReviewRequest, Acknowledge, Approve, Reject, Arrive
<1>7. SubmitClaim \/ RedriveStuckCompletionSagas \/ Sibling => UNCHANGED faults
  BY DEF SubmitClaim, RedriveStuckCompletionSagas, Sibling, SiblingAssign, SiblingReadReady,
     SiblingMarkReady, SiblingStep
<1>8. ASSUME NEW s \in SagaIds, SagaGrowsStale(s) PROVE UNCHANGED faults
  BY <1>8 DEF SagaGrowsStale
<1>9. UNCHANGED vars => UNCHANGED faults
  BY DEF vars, faults
<1> QED BY <1>2, <1>3, <1>4, <1>5, <1>6, <1>7, <1>8, <1>9 DEF Next

\* Nothing has been served yet.
LEMMA InitCounts == Init => Alone /\ CountInv
<1> SUFFICES ASSUME Init PROVE Alone /\ CountInv
  OBVIOUS
<1>1. \A p \in Procs : req[p].pc = "idle" /\ req[p].saga = 0
  BY DEF Init, NoRequest
<1>2. \A s \in SagaIds : sagas[s].status = "absent"
  BY DEF Init, NoSaga
<1>3. \A p \in Procs : CountOK(req[p].pc, req[p].op, stats, results, status)
  BY <1>1 DEF CountOK, WinnerPCs, OwnerPCs, ToCount
<1>4. \A s \in SagaIds : \E p \in Procs : Tidy(s, p)
  BY <1>2 DEF Tidy
<1> QED BY <1>1, <1>3, <1>4 DEF Init, Alone, Idle, CountInv

\* Served one at a time and without a failure, confirmations, acknowledgements and
\* approvals of a match never add a result twice to the players' statistics
\* (the guard of continue_after_review).
THEOREM ResultCountedOnce == ASSUME Serial PROVE Spec => []StatsOncePerResult
<1> DEFINE Counted == errors + crashes = 0 => Alone /\ CountInv
<1>1. Init => Counted
  BY InitCounts
<1>2. Inv /\ Inv' /\ Counted /\ [Next]_vars => Counted'
  <2> SUFFICES ASSUME Inv, Inv', Counted, [Next]_vars, errors' + crashes' = 0
               PROVE  Alone' /\ CountInv'
    OBVIOUS
  <2> HIDE DEF Counted
  <2>1. UNCHANGED faults /\ errors + crashes = 0
    <3>1. errors \in Nat /\ crashes \in Nat /\ errors' \in Nat /\ crashes' \in Nat
      BY SagaAssumption DEF Inv, TypeOK, SagaAssumption
    <3>2. errors' = 0 /\ crashes' = 0
      <4>1. \A a, b \in Nat : a + b = 0 => a = 0 /\ b = 0
        OBVIOUS
      <4> QED BY <3>1, <4>1
    <3>3. errors <= errors' /\ crashes <= crashes'
      BY FaultsGrow
    <3> QED BY <3>1, <3>2, <3>3 DEF faults
  <2>2. Alone /\ CountInv
    BY <2>1 DEF Counted
  <2> QED BY <2>1, <2>2, NextCounts
<1>3. Counted => StatsOncePerResult
  BY DEF CountInv, StatsOncePerResult
<1> QED BY <1>1, <1>2, <1>3, Invariance, PTL DEF Spec

=============================================================================
