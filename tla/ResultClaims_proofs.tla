------------------------ MODULE ResultClaims_proofs ------------------------
(***************************************************************************)
(* Proofs about ResultClaims, for any number of concurrent requests, any   *)
(* number of claims and disputes, and any choice of the features.          *)
(***************************************************************************)
EXTENDS ResultClaims, TLAPS

USE DEF Procs, Slots

-----------------------------------------------------------------------------
(* Type correctness *)

\* What a request carries when it runs a statement that needs it.
RequestOK ==
    \A p \in Procs :
        /\ req[p].pc \in {"current_read", "supersede", "create", "override_write"}
             => req[p].win \in Slots
        /\ req[p].pc \in {"resolve_write", "assign_write", "dispute_cancel_write"}
             => req[p].dispute \in DisputeIds
        /\ req[p].pc = "forfeit_write" => req[p].slot \in Slots
        /\ req[p].pc # "idle" /\ req[p].op # "admin" => req[p].to = "awaiting_result"

\* A claim that exists names a winner.
ClaimOK == \A c \in ClaimIds : claims[c].status # "absent" => claims[c].winner \in Slots

TypeInv == TypeOK /\ RequestOK /\ ClaimOK

\* Taking up a request keeps the invariant.
LEMMA UserRequestType ==
    ASSUME TypeInv, NEW p \in Users, UserRequest(p)
    PROVE  TypeInv'
<1> USE DEF TypeInv, TypeOK, RequestOK, ClaimOK, Requests, Ops, PCs, Outcomes,
            TournamentMatchStatus, Arrive, Enter, Request
<1> USE ClaimsAssumption DEF ClaimsAssumption
<1>1. ASSUME NEW s \in Slots, NEW w \in Slots, SubmitClaim(p, s, w) PROVE TypeInv'
  BY <1>1 DEF SubmitClaim
<1>2. ASSUME NEW w \in Slots, SubmitServerClaim(p, w) PROVE TypeInv'
  BY <1>2 DEF SubmitServerClaim
<1>3. ASSUME NEW c \in ClaimIds, NEW s \in Slots, ConfirmClaim(p, c, s) PROVE TypeInv'
  BY <1>3 DEF ConfirmClaim
<1>4. ASSUME NEW c \in ClaimIds, CancelClaim(p, c) PROVE TypeInv'
  BY <1>4 DEF CancelClaim, Claims
<1>5. ASSUME NEW c \in ClaimIds, NEW s \in Slots, DisputeClaim(p, c, s) PROVE TypeInv'
  BY <1>5 DEF DisputeClaim
<1>6. ASSUME NEW c \in ClaimIds \cup {None}, NEW s \in Slots, RaiseDispute(p, c, s)
      PROVE  TypeInv'
  BY <1>6 DEF RaiseDispute
<1>7. ASSUME NEW d \in DisputeIds, AssignForReview(p, d) PROVE TypeInv'
  BY <1>7 DEF AssignForReview
<1>8. ASSUME NEW d \in DisputeIds, NEW o \in Outcomes, NEW w \in 0..2, Resolve(p, d, o, w)
      PROVE  TypeInv'
  BY <1>8 DEF Resolve
<1>9. ASSUME NEW d \in DisputeIds, CancelDispute(p, d) PROVE TypeInv'
  BY <1>9 DEF CancelDispute
<1>10. ASSUME NEW w \in Slots, OverrideResult(p, w) PROVE TypeInv'
  BY <1>10 DEF OverrideResult
<1>11. ASSUME NEW s \in Slots, Forfeit(p, s) PROVE TypeInv'
  BY <1>11 DEF Forfeit
<1>12. ASSUME NEW t \in TournamentMatchStatus, AdminTransition(p, t) PROVE TypeInv'
  BY <1>12 DEF AdminTransition
<1> QED
  BY <1>1, <1>2, <1>3, <1>4, <1>5, <1>6, <1>7, <1>8, <1>9, <1>10, <1>11, <1>12,
     SMTT(30) DEF UserRequest

\* The updates of a claim row keep the type of the table.
LEMMA ClaimStatusUpdate ==
    ASSUME claims \in [ClaimIds -> Claims], NEW c \in ClaimIds, NEW st \in ClaimStatus
    PROVE  [claims EXCEPT ![c].status = st] \in [ClaimIds -> Claims]
<1>1. [claims[c] EXCEPT !.status = st] \in Claims
  BY DEF Claims
<1> QED BY <1>1

\* A claim whose status and confirmer are written is a claim.
LEMMA ClaimConfirmUpdate ==
    ASSUME claims \in [ClaimIds -> Claims], NEW c \in ClaimIds, NEW st \in ClaimStatus,
           NEW k \in 0..2
    PROVE  [claims EXCEPT ![c].status = st, ![c].confirmer = k] \in [ClaimIds -> Claims]
<1>1. [claims[c] EXCEPT !.status = st, !.confirmer = k] \in Claims
  BY DEF Claims
<1>2. [claims EXCEPT ![c].status = st, ![c].confirmer = k]
        = [claims EXCEPT ![c] = [claims[c] EXCEPT !.status = st, !.confirmer = k]]
  OBVIOUS
<1> QED BY <1>1, <1>2

\* So is one whose saga is counted,
LEMMA ClaimSagaUpdate ==
    ASSUME claims \in [ClaimIds -> Claims], NEW c \in ClaimIds
    PROVE  [claims EXCEPT ![c].sagas = @ + 1] \in [ClaimIds -> Claims]
<1>1. [claims[c] EXCEPT !.sagas = @ + 1] \in Claims
  BY DEF Claims
<1> QED BY <1>1

\* and one that became due.
LEMMA ClaimDueUpdate ==
    ASSUME claims \in [ClaimIds -> Claims], NEW c \in ClaimIds
    PROVE  [claims EXCEPT ![c].due = TRUE] \in [ClaimIds -> Claims]
<1>1. ASSUME NEW b \in BOOLEAN PROVE [claims[c] EXCEPT !.due = b] \in Claims
  BY DEF Claims
<1>2. ASSUME NEW b \in BOOLEAN PROVE [claims EXCEPT ![c].due = b] \in [ClaimIds -> Claims]
  BY <1>1
<1> QED BY <1>2, Zenon

\* Creating a claim keeps the invariant.
LEMMA CreateClaimType ==
    ASSUME TypeInv, NEW p \in Procs, CreateClaim(p)
    PROVE  TypeInv'
<1> USE DEF TypeInv, TypeOK, RequestOK, ClaimOK, TournamentMatchStatus
<1>1. req[p].slot \in 0..2 /\ req[p].win \in Slots
  BY DEF CreateClaim, At, Requests
<1>2. NewClaim(p) \in Claims /\ NewClaim(p).winner \in Slots
  <2>1. ASSUME NEW f \in BOOLEAN
        PROVE  [status |-> "pending", by |-> req[p].slot, winner |-> req[p].win,
                due |-> f, confirmer |-> 0, sagas |-> 0] \in Claims
    BY <1>1 DEF Claims, ClaimStatus
  <2>2. NewClaim(p) \in Claims
    BY <2>1, Zenon DEF NewClaim
  <2> QED BY <1>1, <2>2 DEF NewClaim
<1>3. claims' \in [ClaimIds -> Claims] /\ ClaimOK'
  <2>1. ASSUME NEW c \in ClaimIds,
               claims' = [d \in ClaimIds |->
                 CASE d = c -> NewClaim(p)
                   [] d # c /\ d \in req[p].ids /\ is_pending(d)
                        -> [claims[d] EXCEPT !.status = "superseded"]
                   [] OTHER -> claims[d]]
        PROVE  claims' \in [ClaimIds -> Claims] /\ ClaimOK'
    <3>1. ASSUME NEW d \in ClaimIds
          PROVE  /\ claims'[d] \in Claims
                 /\ claims'[d].status # "absent" => claims'[d].winner \in Slots
      <4>1. CASE d = c
        BY <1>2, <2>1, <4>1
      <4>2. CASE d # c /\ d \in req[p].ids /\ is_pending(d)
        <5>1. claims'[d] = [claims[d] EXCEPT !.status = "superseded"]
          BY <2>1, <4>2
        <5> QED BY <4>2, <5>1 DEF is_pending, Claims, ClaimStatus
      <4>3. CASE d # c /\ ~(d \in req[p].ids /\ is_pending(d))
        <5>1. claims'[d] = claims[d]
          BY <2>1, <4>3
        <5> QED BY <5>1
      <4> QED BY <4>1, <4>2, <4>3
    <3>2. claims' \in [ClaimIds -> Claims]
      BY <2>1, <3>1
    <3> QED BY <3>1, <3>2
  <2> QED BY <2>1 DEF CreateClaim
<1>4. req' \in [Procs -> Requests] /\ RequestOK'
  BY DEF CreateClaim, AfterCreate, Continue, Finish, At, NoRequest, Requests, Ops, PCs
<1> QED BY <1>3, <1>4 DEF CreateClaim

\* Every statement of a request in flight keeps the invariant.
LEMMA StatementType ==
    ASSUME TypeInv, NEW p \in Procs, Statement(p)
    PROVE  TypeInv'
<1> USE DEF TypeInv, TypeOK, RequestOK, ClaimOK, Requests, Ops, PCs, TournamentMatchStatus,
            NoRequest, Continue, Finish, At
<1>1. CASE CurrentRead(p)
  BY <1>1 DEF CurrentRead
<1>2. CASE SupersedePending(p)
  BY <1>2 DEF SupersedePending, PendingClaims
<1>3. CASE CreateClaim(p)
  BY <1>3, CreateClaimType
<1>4. CASE TransitionRead(p)
  BY <1>4 DEF TransitionRead
<1>5. CASE TransitionWrite(p)
  BY <1>5 DEF TransitionWrite
<1>6. CASE CancelWrite(p)
  <2>1. claims' \in [ClaimIds -> Claims]
    <3>1. CASE req[p].claim \in ClaimIds
      <4>1. "cancelled" \in ClaimStatus
        BY DEF ClaimStatus
      <4> QED BY <1>6, <3>1, <4>1, ClaimStatusUpdate DEF CancelWrite
    <3>2. CASE req[p].claim \notin ClaimIds
      BY <1>6, <3>2 DEF CancelWrite
    <3> QED BY <3>1, <3>2
  <2>2. ClaimOK'
    BY <1>6 DEF CancelWrite, is_pending
  <2> QED BY <1>6, <2>1, <2>2 DEF CancelWrite
<1>7. CASE ConfirmAndApplyToMatch(p)
  <2>1. PICK c \in req[p].ids :
          \/ is_pending(c) /\ ApplyClaim(p, c) /\ AfterCommit(p, c, TRUE)
          \/ /\ ~is_pending(c) /\ AfterCommit(p, c, FALSE)
             /\ UNCHANGED <<claims, status, winner>>
    BY <1>7 DEF ConfirmAndApplyToMatch
  <2>2. c \in ClaimIds
    BY <2>1
  <2>3. req' \in [Procs -> Requests] /\ RequestOK'
    <3>1. ASSUME NEW b \in BOOLEAN, AfterCommit(p, c, b)
          PROVE  req' \in [Procs -> Requests] /\ RequestOK'
      BY <1>7, <2>2, <3>1 DEF AfterCommit, ConfirmAndApplyToMatch
    <3> QED BY <2>1, <3>1
  <2>4. is_pending(c) => Confirmer(p, c) \in 0..2
    BY <2>2 DEF Confirmer, Opponent, is_pending, Claims
  <2>5. CASE is_pending(c) /\ ApplyClaim(p, c)
    <3>1. "confirmed" \in ClaimStatus
      BY DEF ClaimStatus
    <3>2. claims' \in [ClaimIds -> Claims]
      BY <2>2, <2>4, <2>5, <3>1, ClaimConfirmUpdate DEF ApplyClaim
    <3>3. claims[c].winner \in Slots
      BY <2>2, <2>5 DEF is_pending
    <3>4. ClaimOK'
      BY <2>2, <2>5, <3>3 DEF ApplyClaim
    <3>5. status' \in TournamentMatchStatus /\ winner' \in 0..2
      BY <2>5, <3>3 DEF ApplyClaim
    <3> QED BY <1>7, <2>3, <3>2, <3>4, <3>5 DEF ConfirmAndApplyToMatch
  <2>6. CASE UNCHANGED <<claims, status, winner>>
    BY <1>7, <2>3, <2>6 DEF ConfirmAndApplyToMatch
  <2> QED BY <2>1, <2>5, <2>6
<1>8. CASE RunSaga(p)
  <2>1. PICK c \in req[p].owed :
          /\ claims' = [claims EXCEPT ![c].sagas = @ + 1]
          /\ IF req[p].owed = {c}
               THEN Finish(p)
               ELSE req' = [req EXCEPT ![p].owed = @ \ {c}]
    BY <1>8 DEF RunSaga
  <2>2. claims' \in [ClaimIds -> Claims]
    BY <2>1, ClaimSagaUpdate
  <2>3. ClaimOK'
    BY <2>1
  <2>4. req' \in [Procs -> Requests] /\ RequestOK'
    BY <2>1
  <2> QED BY <1>8, <2>2, <2>3, <2>4 DEF RunSaga
<1>9. CASE DisputeMatchRead(p)
  BY <1>9 DEF DisputeMatchRead
<1>10. CASE DisputeExistsRead(p)
  BY <1>10 DEF DisputeExistsRead
<1>11. CASE RaiseAtomic(p)
  <2>1. claims' \in [ClaimIds -> Claims] /\ ClaimOK'
    <3>1. "disputed" \in ClaimStatus
      BY DEF ClaimStatus
    <3>2. RetireClaim(req[p].claim) \in [ClaimIds -> Claims]
      BY <3>1, ClaimStatusUpdate DEF RetireClaim
    <3>3. ASSUME NEW c \in ClaimIds
          PROVE  /\ claims'[c].winner = claims[c].winner
                 /\ claims[c].status = "absent" => claims'[c].status = "absent"
      <4>1. CASE claims' = claims
        BY <4>1
      <4>2. CASE /\ req[p].claim \in ClaimIds /\ is_pending(req[p].claim)
                 /\ claims' = [claims EXCEPT ![req[p].claim].status = "disputed"]
        BY <4>2 DEF is_pending, Claims
      <4> QED BY <1>11, <4>1, <4>2 DEF RaiseAtomic, RetireClaim
    <3> QED BY <1>11, <3>2, <3>3 DEF RaiseAtomic
  <2>2. Original(p) \in 0..2
    BY DEF Original, Claims
  <2>3. disputes' \in [DisputeIds -> Disputes]
    BY <1>11, <2>2 DEF RaiseAtomic, Disputes, DisputeStatus
  <2> QED BY <1>11, <2>1, <2>3 DEF RaiseAtomic
<1>12. CASE AssignWrite(p)
  BY <1>12 DEF AssignWrite, Disputes, DisputeStatus
<1>13. CASE UpholdWrite(p)
  <2>1. disputes' \in [DisputeIds -> Disputes]
    BY <1>13 DEF UpholdWrite, EndDispute, Disputes, DisputeStatus
  <2>2. disputes[req[p].dispute].original \in 0..2
    BY <1>13 DEF UpholdWrite, EndDispute, Disputes
  <2>3. winner' \in 0..2
    BY <1>13, <2>2 DEF UpholdWrite, EndDispute
  <2> QED BY <1>13, <2>1, <2>3 DEF UpholdWrite, EndDispute
<1>14. CASE OverturnWrite(p)
  BY <1>14 DEF OverturnWrite, EndDispute, Disputes, DisputeStatus
<1>15. CASE RematchWrite(p)
  BY <1>15 DEF RematchWrite, EndDispute, Disputes, DisputeStatus
<1>16. CASE DoubleDqWrite(p)
  BY <1>16 DEF DoubleDqWrite, EndDispute, Disputes, DisputeStatus
<1>17. CASE CancelDisputeWrite(p)
  <2>1. disputes' \in [DisputeIds -> Disputes]
    BY <1>17 DEF CancelDisputeWrite, EndDispute, Disputes, DisputeStatus
  <2>2. req' \in [Procs -> Requests] /\ RequestOK'
    BY <1>17 DEF CancelDisputeWrite, EndDispute
  <2> QED BY <1>17, <2>1, <2>2 DEF CancelDisputeWrite, EndDispute
<1>18. CASE OverrideWrite(p)
  BY <1>18 DEF OverrideWrite
<1>19. CASE ForfeitWrite(p)
  BY <1>19 DEF ForfeitWrite, Opponent
<1> QED
  BY <1>1, <1>2, <1>3, <1>4, <1>5, <1>6, <1>7, <1>8, <1>9, <1>10, <1>11, <1>12, <1>13,
     <1>14, <1>15, <1>16, <1>17, <1>18, <1>19
     DEF Statement

\* So do the sweep, play, time and failures.
LEMMA EnvironmentType ==
    ASSUME TypeInv,
           \/ AutoConfirmations \/ PlayMatch
           \/ \E c \in ClaimIds : ClaimFallsDue(c)
           \/ \E p \in Procs : Die(p)
    PROVE  TypeInv'
<1> USE DEF TypeInv, TypeOK, RequestOK, ClaimOK, Requests, Ops, PCs, TournamentMatchStatus,
            NoRequest, Finish
<1>1. CASE AutoConfirmations
  BY <1>1 DEF AutoConfirmations, Enter, Request, ReadyForAutoConfirm, PendingClaims
<1>2. CASE PlayMatch
  BY <1>2 DEF PlayMatch
<1>3. ASSUME NEW c \in ClaimIds, ClaimFallsDue(c) PROVE TypeInv'
  <2>1. claims' \in [ClaimIds -> Claims]
    BY <1>3, ClaimDueUpdate DEF ClaimFallsDue
  <2>2. ClaimOK'
    BY <1>3 DEF ClaimFallsDue
  <2> QED BY <1>3, <2>1, <2>2 DEF ClaimFallsDue
<1>4. ASSUME NEW p \in Procs, Die(p) PROVE TypeInv'
  BY <1>4, ClaimsAssumption DEF Die, ClaimsAssumption
<1> QED BY <1>1, <1>2, <1>3, <1>4

\* Every reachable state is well typed, whatever requests overlap or die.
THEOREM TypeCorrect == Spec => []TypeInv
<1>1. Init => TypeInv
  <2> SUFFICES ASSUME Init PROVE TypeInv
    OBVIOUS
  <2>1. NoRequest \in Requests
    BY DEF NoRequest, Requests, Ops, PCs, TournamentMatchStatus
  <2>2. req \in [Procs -> Requests] /\ RequestOK
    BY <2>1 DEF Init, RequestOK, NoRequest
  <2>3. ASSUME NEW f \in BOOLEAN
        PROVE  [status |-> "absent", by |-> 0, winner |-> 0, due |-> f,
                confirmer |-> 0, sagas |-> 0] \in Claims
    BY DEF Claims, ClaimStatus
  <2>4. NoClaim \in Claims
    BY <2>3, Zenon DEF NoClaim
  <2>5. claims \in [ClaimIds -> Claims] /\ ClaimOK
    BY <2>4 DEF Init, ClaimOK, NoClaim
  <2>6. disputes \in [DisputeIds -> Disputes]
    BY DEF Init, NoDispute, Disputes, DisputeStatus
  <2>7. requests \in 0..MaxRequests /\ faults \in 0..MaxFaults
    BY ClaimsAssumption DEF Init, ClaimsAssumption
  <2>8. status \in TournamentMatchStatus /\ winner \in 0..2
    BY DEF Init, TournamentMatchStatus
  <2>9. forced \subseteq TournamentMatchStatus
    BY DEF Init
  <2> QED BY <2>2, <2>5, <2>6, <2>7, <2>8, <2>9 DEF TypeInv, TypeOK
<1>2. TypeInv /\ [Next]_vars => TypeInv'
  <2> SUFFICES ASSUME TypeInv, [Next]_vars PROVE TypeInv'
    OBVIOUS
  <2>1. ASSUME NEW p \in Users, UserRequest(p) PROVE TypeInv'
    BY <2>1, UserRequestType
  <2>2. ASSUME NEW p \in Procs, Statement(p) PROVE TypeInv'
    BY <2>2, StatementType
  <2>3. CASE \/ AutoConfirmations \/ PlayMatch
             \/ \E c \in ClaimIds : ClaimFallsDue(c)
             \/ \E p \in Procs : Die(p)
    BY <2>3, EnvironmentType
  <2>4. CASE UNCHANGED vars
    BY <2>4 DEF TypeInv, TypeOK, RequestOK, ClaimOK, vars
  <2> QED BY <2>1, <2>2, <2>3, <2>4 DEF Next
<1> QED BY <1>1, <1>2, PTL DEF Spec

\* In particular the rows and the requests are well typed: for instance a
\* confirmer is a participant also for a claim that nobody submitted.
THEOREM TypeInvariant == Spec => []TypeOK
<1>1. TypeInv => TypeOK
  BY DEF TypeInv
<1> QED BY <1>1, TypeCorrect, PTL

-----------------------------------------------------------------------------
(* A disputed match has an open dispute *)

\* The other statements write neither the match status nor a dispute, or move the
\* match to a status other than disputed, or do so for an admin.
LEMMA OtherStatementDispute ==
    ASSUME TypeInv, NEW p \in Procs, Statement(p),
           ~RaiseAtomic(p), ~AssignWrite(p)
    PROVE  /\ \/ UNCHANGED <<status, disputes>>
              \/ status' # "disputed"
              \/ "disputed" \in forced'
           /\ forced \subseteq forced'
<1>1. CASE CurrentRead(p) \/ SupersedePending(p) \/ CreateClaim(p) \/ TransitionRead(p)
  BY <1>1 DEF CurrentRead, SupersedePending, CreateClaim, TransitionRead
<1>2. CASE TransitionWrite(p)
  BY <1>2 DEF TransitionWrite, At, TypeInv, RequestOK
<1>3. CASE CancelWrite(p) \/ RunSaga(p) \/ DisputeMatchRead(p) \/ DisputeExistsRead(p)
  BY <1>3 DEF CancelWrite, RunSaga, DisputeMatchRead, DisputeExistsRead
<1>4. CASE ConfirmAndApplyToMatch(p)
  BY <1>4 DEF ConfirmAndApplyToMatch, ApplyClaim
<1>5. CASE UpholdWrite(p) \/ OverturnWrite(p) \/ RematchWrite(p) \/ DoubleDqWrite(p)
  BY <1>5 DEF UpholdWrite, OverturnWrite, RematchWrite, DoubleDqWrite, EndDispute
<1>6. CASE CancelDisputeWrite(p)
  BY <1>6 DEF CancelDisputeWrite, EndDispute
<1>7. CASE OverrideWrite(p) \/ ForfeitWrite(p)
  BY <1>7 DEF OverrideWrite, ForfeitWrite
<1> QED BY <1>1, <1>2, <1>3, <1>4, <1>5, <1>6, <1>7 DEF Statement

\* A request taken up writes nothing, owes nothing yet, and confirms only a
\* claim of the other side.
LEMMA UserRequestReads ==
    ASSUME TypeInv, NEW p \in Users, UserRequest(p)
    PROVE  /\ UNCHANGED <<status, winner, claims, disputes, forced>>
           /\ \A q \in Procs : q # p => req'[q] = req[q]
           /\ req'[p].owed = {}
           /\ req'[p].op = "confirm" =>
                /\ req'[p].slot \in Slots /\ req'[p].pc = "commit"
                /\ \A c \in req'[p].ids :
                     claims[c].status # "absent" /\ claims[c].by # req'[p].slot
<1> DEFINE Reads ==
    /\ UNCHANGED <<status, winner, claims, disputes, forced>>
    /\ \A q \in Procs : q # p => req'[q] = req[q]
    /\ req'[p].owed = {}
    /\ req'[p].op = "confirm" =>
         /\ req'[p].slot \in Slots /\ req'[p].pc = "commit"
         /\ \A c \in req'[p].ids :
              claims[c].status # "absent" /\ claims[c].by # req'[p].slot
<1> USE DEF TypeInv, TypeOK, Arrive, Enter, Request
<1>1. ASSUME NEW s \in Slots, NEW w \in Slots, SubmitClaim(p, s, w) PROVE Reads
  BY <1>1 DEF SubmitClaim
<1>2. ASSUME NEW w \in Slots, SubmitServerClaim(p, w) PROVE Reads
  BY <1>2 DEF SubmitServerClaim
<1>3. ASSUME NEW c \in ClaimIds, NEW s \in Slots, ConfirmClaim(p, c, s) PROVE Reads
  BY <1>3 DEF ConfirmClaim, is_pending
<1>4. ASSUME NEW c \in ClaimIds, CancelClaim(p, c) PROVE Reads
  BY <1>4 DEF CancelClaim
<1>5. ASSUME NEW c \in ClaimIds, NEW s \in Slots, DisputeClaim(p, c, s) PROVE Reads
  BY <1>5 DEF DisputeClaim
<1>6. ASSUME NEW c \in ClaimIds \cup {None}, NEW s \in Slots, RaiseDispute(p, c, s)
      PROVE  Reads
  BY <1>6 DEF RaiseDispute
<1>7. ASSUME NEW d \in DisputeIds, AssignForReview(p, d) PROVE Reads
  BY <1>7 DEF AssignForReview
<1>8. ASSUME NEW d \in DisputeIds, NEW o \in Outcomes, NEW w \in 0..2, Resolve(p, d, o, w)
      PROVE  Reads
  BY <1>8 DEF Resolve, Outcomes
<1>9. ASSUME NEW d \in DisputeIds, CancelDispute(p, d) PROVE Reads
  BY <1>9 DEF CancelDispute
<1>10. ASSUME NEW w \in Slots, OverrideResult(p, w) PROVE Reads
  BY <1>10 DEF OverrideResult
<1>11. ASSUME NEW s \in Slots, Forfeit(p, s) PROVE Reads
  BY <1>11 DEF Forfeit
<1>12. ASSUME NEW t \in TournamentMatchStatus, AdminTransition(p, t) PROVE Reads
  BY <1>12 DEF AdminTransition
<1> QED
  BY <1>1, <1>2, <1>3, <1>4, <1>5, <1>6, <1>7, <1>8, <1>9, <1>10, <1>11, <1>12
     DEF UserRequest

\* A disputed match has a dispute that an admin can resolve, unless an admin made
\* it disputed by hand: raising one and every way of ending one write the match in
\* the same transaction.
THEOREM DisputedMatchHasOpenDispute == Spec => []DisputedHasOpenDispute
<1>1. Init => DisputedHasOpenDispute
  BY DEF Init, DisputedHasOpenDispute
<1>2. TypeInv /\ DisputedHasOpenDispute /\ [Next]_vars => DisputedHasOpenDispute'
  <2> SUFFICES ASSUME TypeInv, DisputedHasOpenDispute, [Next]_vars
               PROVE  DisputedHasOpenDispute'
    OBVIOUS
  <2> USE DEF DisputedHasOpenDispute, OpenDispute, can_resolve
  <2>1. CASE /\ \/ UNCHANGED <<status, disputes>>
                \/ status' # "disputed"
                \/ "disputed" \in forced'
             /\ forced \subseteq forced'
    BY <2>1
  <2>2. ASSUME NEW p \in Procs, RaiseAtomic(p) PROVE DisputedHasOpenDispute'
    <3>1. ASSUME NEW d \in DisputeIds,
                 disputes' = [disputes EXCEPT ![d] =
                                [status |-> "pending", original |-> Original(p)]]
          PROVE  DisputedHasOpenDispute'
      BY <3>1 DEF TypeInv, TypeOK
    <3>2. CASE UNCHANGED <<disputes, status, forced>>
      BY <3>2
    <3> QED BY <2>2, <3>1, <3>2 DEF RaiseAtomic
  <2>3. ASSUME NEW p \in Procs, AssignWrite(p) PROVE DisputedHasOpenDispute'
    <3>1. req[p].dispute \in DisputeIds
      BY <2>3 DEF AssignWrite, At, TypeInv, RequestOK
    <3>2. \A d \in DisputeIds : can_resolve(d) => can_resolve(d)'
      BY <2>3, <3>1 DEF AssignWrite, TypeInv, TypeOK, Disputes
    <3> QED BY <2>3, <3>2 DEF AssignWrite
  <2>4. ASSUME NEW p \in Users, UserRequest(p) PROVE DisputedHasOpenDispute'
    BY <2>1, <2>4, UserRequestReads
  <2>5. ASSUME NEW p \in Procs, Statement(p) PROVE DisputedHasOpenDispute'
    BY <2>1, <2>2, <2>3, <2>5, OtherStatementDispute
  <2>6. CASE AutoConfirmations \/ PlayMatch \/ UNCHANGED vars
    BY <2>1, <2>6 DEF AutoConfirmations, Enter, PlayMatch, vars
  <2>7. ASSUME NEW c \in ClaimIds, ClaimFallsDue(c) PROVE DisputedHasOpenDispute'
    BY <2>1, <2>7 DEF ClaimFallsDue
  <2>8. ASSUME NEW p \in Procs, Die(p) PROVE DisputedHasOpenDispute'
    BY <2>1, <2>8 DEF Die
  <2> QED BY <2>4, <2>5, <2>6, <2>7, <2>8 DEF Next
<1> QED BY <1>1, <1>2, TypeCorrect, PTL DEF Spec

-----------------------------------------------------------------------------
(* A claim is settled once *)

\* What a statement may do to a claim: create it, retire it, confirm it, or
\* count its saga.
ClaimStep(p, c) ==
    \/ claims'[c] = claims[c]
    \/ claims[c].status = "absent" /\ claims'[c] = NewClaim(p)
    \/ /\ claims[c].status = "pending"
       /\ \E st \in {"superseded", "cancelled", "disputed"} :
            claims'[c] = [claims[c] EXCEPT !.status = st]
    \/ /\ ConfirmAndApplyToMatch(p) /\ c \in req[p].ids
       /\ claims[c].status = "pending"
       /\ claims'[c] = [claims[c] EXCEPT !.status = "confirmed",
                                         !.confirmer = Confirmer(p, c)]
    \/ /\ RunSaga(p) /\ c \in req[p].owed
       /\ claims'[c] = [claims[c] EXCEPT !.sagas = @ + 1]

\* Every statement does one of these to every claim.
LEMMA StatementClaimStep ==
    ASSUME TypeInv, NEW p \in Procs, Statement(p), NEW c \in ClaimIds
    PROVE  ClaimStep(p, c)
<1> USE DEF TypeInv, TypeOK
<1>1. CASE UNCHANGED claims
  BY <1>1 DEF ClaimStep
<1>2. CASE CreateClaim(p)
  <2>1. ASSUME NEW k \in ClaimIds, claims[k].status = "absent",
               claims' = [d \in ClaimIds |->
                 CASE d = k -> NewClaim(p)
                   [] d # k /\ d \in req[p].ids /\ is_pending(d)
                        -> [claims[d] EXCEPT !.status = "superseded"]
                   [] OTHER -> claims[d]]
        PROVE  ClaimStep(p, c)
    <3>1. CASE c = k
      BY <2>1, <3>1 DEF ClaimStep
    <3>2. CASE c # k /\ c \in req[p].ids /\ is_pending(c)
      <4>1. claims'[c] = [claims[c] EXCEPT !.status = "superseded"]
        BY <2>1, <3>2
      <4> QED BY <3>2, <4>1 DEF ClaimStep, is_pending
    <3>3. CASE c # k /\ ~(c \in req[p].ids /\ is_pending(c))
      <4>1. claims'[c] = claims[c]
        BY <2>1, <3>3
      <4> QED BY <4>1 DEF ClaimStep
    <3> QED BY <3>1, <3>2, <3>3
  <2> QED BY <1>1, <1>2, <2>1 DEF CreateClaim
<1>3. ASSUME NEW k \in ClaimIds, NEW st \in {"cancelled", "disputed"}, is_pending(k),
             claims' = [claims EXCEPT ![k].status = st]
      PROVE  ClaimStep(p, c)
  <2>1. CASE c = k
    <3>1. claims'[c] = [claims[c] EXCEPT !.status = st]
      BY <1>3, <2>1
    <3> QED BY <1>3, <2>1, <3>1 DEF ClaimStep, is_pending
  <2>2. CASE c # k
    <3>1. claims'[c] = claims[c]
      BY <1>3, <2>2
    <3> QED BY <3>1 DEF ClaimStep
  <2> QED BY <2>1, <2>2
<1>4. CASE CancelWrite(p)
  <2>1. CASE claims' = claims
    BY <1>1, <2>1
  <2>2. CASE is_pending(req[p].claim) /\ req[p].claim \in ClaimIds
    BY <1>3, <1>4, <2>2 DEF CancelWrite
  <2>3. CASE req[p].claim \notin ClaimIds
    BY <1>1, <1>4, <2>3 DEF CancelWrite
  <2> QED BY <1>4, <2>1, <2>2, <2>3 DEF CancelWrite
<1>5. CASE RaiseAtomic(p)
  <2>1. req[p].claim \in ClaimIds \cup {None}
    BY DEF Requests
  <2>2. CASE req[p].claim # None /\ is_pending(req[p].claim)
    BY <1>1, <1>3, <1>5, <2>1, <2>2 DEF RaiseAtomic, RetireClaim
  <2>3. CASE ~(req[p].claim # None /\ is_pending(req[p].claim))
    BY <1>1, <1>5, <2>3 DEF RaiseAtomic, RetireClaim
  <2> QED BY <2>2, <2>3
<1>6. CASE ConfirmAndApplyToMatch(p)
  <2>1. CASE UNCHANGED claims
    BY <1>1, <2>1
  <2>2. ASSUME NEW k \in req[p].ids, is_pending(k), ApplyClaim(p, k)
        PROVE  ClaimStep(p, c)
    <3>1. k \in ClaimIds
      BY DEF Requests
    <3>2. CASE c = k
      <4>1. claims'[c] = [claims[c] EXCEPT !.status = "confirmed",
                                           !.confirmer = Confirmer(p, c)]
        BY <2>2, <3>1, <3>2 DEF ApplyClaim
      <4> QED BY <1>6, <2>2, <3>2, <4>1 DEF ClaimStep, is_pending
    <3>3. CASE c # k
      <4>1. claims'[c] = claims[c]
        BY <2>2, <3>1, <3>3 DEF ApplyClaim
      <4> QED BY <4>1 DEF ClaimStep
    <3> QED BY <3>2, <3>3
  <2> QED BY <1>6, <2>1, <2>2 DEF ConfirmAndApplyToMatch
<1>7. CASE RunSaga(p)
  <2>1. PICK k \in req[p].owed : claims' = [claims EXCEPT ![k].sagas = @ + 1]
    BY <1>7 DEF RunSaga
  <2>2. k \in ClaimIds
    BY DEF Requests
  <2>3. CASE c = k
    <3>1. claims'[c] = [claims[c] EXCEPT !.sagas = @ + 1]
      BY <2>1, <2>2, <2>3
    <3> QED BY <1>7, <2>3, <3>1 DEF ClaimStep
  <2>4. CASE c # k
    <3>1. claims'[c] = claims[c]
      BY <2>1, <2>2, <2>4
    <3> QED BY <3>1 DEF ClaimStep
  <2> QED BY <2>3, <2>4
<1>8. CASE CurrentRead(p) \/ SupersedePending(p) \/ TransitionRead(p) \/ TransitionWrite(p)
  BY <1>1, <1>8 DEF CurrentRead, SupersedePending, TransitionRead, TransitionWrite
<1>9. CASE DisputeMatchRead(p) \/ DisputeExistsRead(p) \/ AssignWrite(p)
  BY <1>1, <1>9 DEF DisputeMatchRead, DisputeExistsRead, AssignWrite
<1>10. CASE UpholdWrite(p) \/ OverturnWrite(p) \/ RematchWrite(p) \/ DoubleDqWrite(p)
  BY <1>1, <1>10 DEF UpholdWrite, OverturnWrite, RematchWrite, DoubleDqWrite, EndDispute
<1>11. CASE CancelDisputeWrite(p) \/ OverrideWrite(p) \/ ForfeitWrite(p)
  BY <1>1, <1>11 DEF CancelDisputeWrite, EndDispute, OverrideWrite, ForfeitWrite
<1> QED
  BY <1>2, <1>4, <1>5, <1>6, <1>7, <1>8, <1>9, <1>10, <1>11 DEF Statement

\* The other steps leave every claim as it is, but for its deadline.
LEMMA OtherClaimStep ==
    ASSUME TypeInv, NEW c \in ClaimIds,
           \/ AutoConfirmations \/ PlayMatch
           \/ \E k \in ClaimIds : ClaimFallsDue(k)
           \/ \E p \in Procs : Die(p)
           \/ UNCHANGED vars
    PROVE  /\ claims'[c].status = claims[c].status
           /\ claims'[c].by = claims[c].by
           /\ claims'[c].winner = claims[c].winner
           /\ claims'[c].confirmer = claims[c].confirmer
           /\ claims'[c].sagas = claims[c].sagas
<1>1. CASE UNCHANGED claims
  BY <1>1
<1>2. ASSUME NEW k \in ClaimIds, ClaimFallsDue(k)
      PROVE  claims' = [claims EXCEPT ![k] = [claims[k] EXCEPT !.due = TRUE]]
  BY <1>2 DEF ClaimFallsDue
<1>3. CASE \E k \in ClaimIds : ClaimFallsDue(k)
  BY <1>2, <1>3 DEF TypeInv, TypeOK, Claims
<1> QED
  BY <1>1, <1>3 DEF AutoConfirmations, Enter, PlayMatch, Die, vars

\* A claim that left pending keeps its status for ever.
THEOREM SettledOnce == Spec => ClaimSettledOnce
<1> DEFINE Settled == \A c \in ClaimIds :
                        claims[c].status \notin {"absent", "pending"}
                          => claims'[c].status = claims[c].status
<1>1. TypeInv /\ [Next]_vars => [Settled]_vars
  <2> SUFFICES ASSUME TypeInv, [Next]_vars, NEW c \in ClaimIds,
                      claims[c].status \notin {"absent", "pending"}
               PROVE  claims'[c].status = claims[c].status
    OBVIOUS
  <2>1. ASSUME NEW p \in Users, UserRequest(p) PROVE claims'[c].status = claims[c].status
    BY <2>1, UserRequestReads
  <2>2. ASSUME NEW p \in Procs, Statement(p) PROVE claims'[c].status = claims[c].status
    BY <2>2, StatementClaimStep, ZenonT(40) DEF ClaimStep, TypeInv, TypeOK, Claims
  <2>3. CASE \/ AutoConfirmations \/ PlayMatch
             \/ \E k \in ClaimIds : ClaimFallsDue(k)
             \/ \E p \in Procs : Die(p)
             \/ UNCHANGED vars
    BY <2>3, OtherClaimStep
  <2> QED BY <2>1, <2>2, <2>3 DEF Next
<1> QED BY <1>1, TypeCorrect, PTL DEF Spec, ClaimSettledOnce

-----------------------------------------------------------------------------
(* The saga of a claim starts once *)

\* A request owes sagas only of claims it confirmed and whose saga has not
\* started, and no claim is owed by two requests.
SagaInv ==
    /\ \A c \in ClaimIds :
         \/ claims[c].sagas = 0
         \/ claims[c].sagas = 1 /\ claims[c].status = "confirmed"
    /\ \A p \in Procs : \A c \in req[p].owed :
         claims[c].status = "confirmed" /\ claims[c].sagas = 0
    /\ \A p, q \in Procs : \A c \in req[p].owed : c \in req[q].owed => p = q

\* A statement changes its own request only; what it owes grows by confirming,
\* and by nothing else.
LEMMA StatementOwed ==
    ASSUME TypeInv, NEW p \in Procs, Statement(p)
    PROVE  /\ \A q \in Procs : q # p => req'[q] = req[q]
           /\ ~ConfirmAndApplyToMatch(p) => req'[p].owed \subseteq req[p].owed
<1> DEFINE Owed == /\ \A q \in Procs : q # p => req'[q] = req[q]
                   /\ ~ConfirmAndApplyToMatch(p) => req'[p].owed \subseteq req[p].owed
<1> USE DEF TypeInv, TypeOK, Continue, Finish, NoRequest
<1>1. CASE CurrentRead(p) \/ SupersedePending(p) \/ TransitionRead(p) \/ TransitionWrite(p)
  BY <1>1 DEF CurrentRead, SupersedePending, TransitionRead, TransitionWrite, Requests
<1>2. CASE CreateClaim(p) \/ CancelWrite(p)
  BY <1>2 DEF CreateClaim, AfterCreate, CancelWrite, Requests
<1>3. CASE ConfirmAndApplyToMatch(p)
  BY <1>3 DEF ConfirmAndApplyToMatch, AfterCommit
<1>4. CASE RunSaga(p)
  BY <1>4 DEF RunSaga, Requests
<1>5. CASE DisputeMatchRead(p) \/ DisputeExistsRead(p) \/ RaiseAtomic(p) \/ AssignWrite(p)
  BY <1>5 DEF DisputeMatchRead, DisputeExistsRead, RaiseAtomic, AssignWrite, Requests
<1>6. CASE UpholdWrite(p) \/ OverturnWrite(p) \/ RematchWrite(p) \/ DoubleDqWrite(p)
  BY <1>6 DEF UpholdWrite, OverturnWrite, RematchWrite, DoubleDqWrite, EndDispute
<1>7. CASE CancelDisputeWrite(p)
  BY <1>7 DEF CancelDisputeWrite, EndDispute
<1>8. CASE OverrideWrite(p) \/ ForfeitWrite(p)
  BY <1>8 DEF OverrideWrite, ForfeitWrite
<1> QED BY <1>1, <1>2, <1>3, <1>4, <1>5, <1>6, <1>7, <1>8 DEF Statement

\* A step that lets no request owe more, starts no saga and leaves confirmed
\* claims confirmed keeps the invariant.
LEMMA SagaFrame ==
    ASSUME TypeInv, SagaInv,
           \A q \in Procs : req'[q].owed \subseteq req[q].owed,
           \A c \in ClaimIds :
              /\ claims'[c].sagas = claims[c].sagas
              /\ claims[c].status = "confirmed" => claims'[c].status = "confirmed"
    PROVE  SagaInv'
<1>1. \A q \in Procs : req[q].owed \subseteq ClaimIds
  BY DEF TypeInv, TypeOK, Requests
<1>2. \A c \in ClaimIds :
         \/ claims'[c].sagas = 0
         \/ claims'[c].sagas = 1 /\ claims'[c].status = "confirmed"
  BY DEF SagaInv
<1>3. \A q \in Procs : \A c \in req'[q].owed :
         claims'[c].status = "confirmed" /\ claims'[c].sagas = 0
  BY <1>1 DEF SagaInv
<1>4. \A q, r \in Procs : \A c \in req'[q].owed : c \in req'[r].owed => q = r
  BY DEF SagaInv
<1> QED BY <1>2, <1>3, <1>4 DEF SagaInv

\* Confirming a claim keeps the invariant: only a pending claim is confirmed,
\* which no request owed and whose saga did not start.
LEMMA ConfirmSaga ==
    ASSUME TypeInv, SagaInv, NEW p \in Procs, ConfirmAndApplyToMatch(p)
    PROVE  SagaInv'
<1> USE DEF TypeInv, TypeOK
<1>1. \A q \in Procs : req[q].owed \subseteq ClaimIds /\ req[q].ids \subseteq ClaimIds
  BY DEF Requests
<1>2. ASSUME NEW c \in req[p].ids, ~is_pending(c), AfterCommit(p, c, FALSE),
             UNCHANGED claims
      PROVE  SagaInv'
  <2>1. \A q \in Procs : req'[q].owed \subseteq req[q].owed
    BY <1>2 DEF AfterCommit, Finish, NoRequest, Requests
  <2> QED BY <1>2, <2>1, SagaFrame
<1>3. ASSUME NEW c \in req[p].ids, is_pending(c), ApplyClaim(p, c), AfterCommit(p, c, TRUE)
      PROVE  SagaInv'
  <2>1. c \in ClaimIds
    BY <1>1
  <2>2. claims[c].sagas = 0 /\ \A q \in Procs : c \notin req[q].owed
    BY <1>3, <2>1 DEF is_pending, SagaInv
  <2>3. /\ claims'[c].status = "confirmed" /\ claims'[c].sagas = 0
        /\ \A k \in ClaimIds : k # c => claims'[k] = claims[k]
    BY <1>3, <2>1, <2>2 DEF ApplyClaim, Claims
  <2>4. /\ req'[p].owed \subseteq req[p].owed \cup {c}
        /\ \A q \in Procs : q # p => req'[q] = req[q]
    BY <1>3 DEF AfterCommit, Finish, NoRequest, Requests
  <2>5. \A k \in ClaimIds :
         \/ claims'[k].sagas = 0
         \/ claims'[k].sagas = 1 /\ claims'[k].status = "confirmed"
    BY <2>3 DEF SagaInv
  <2>6. ASSUME NEW q \in Procs, NEW k \in req'[q].owed
        PROVE  claims'[k].status = "confirmed" /\ claims'[k].sagas = 0
    <3>1. CASE k = c
      BY <2>3, <3>1
    <3>2. CASE k # c
      <4>1. k \in req[q].owed /\ k \in ClaimIds
        BY <1>1, <2>4, <2>6, <3>2
      <4> QED BY <2>3, <3>2, <4>1 DEF SagaInv
    <3> QED BY <3>1, <3>2
  <2>7. ASSUME NEW q \in Procs, NEW r \in Procs, NEW k \in req'[q].owed, k \in req'[r].owed
        PROVE  q = r
    <3>1. CASE k = c
      BY <2>2, <2>4, <2>7, <3>1
    <3>2. CASE k # c
      BY <2>4, <2>7, <3>2 DEF SagaInv
    <3> QED BY <3>1, <3>2
  <2> QED BY <2>5, <2>6, <2>7 DEF SagaInv
<1> QED BY <1>2, <1>3 DEF ConfirmAndApplyToMatch

\* Starting a saga keeps the invariant: the claim is no longer owed.
LEMMA RunSagaSaga ==
    ASSUME TypeInv, SagaInv, NEW p \in Procs, RunSaga(p)
    PROVE  SagaInv'
<1> USE DEF TypeInv, TypeOK
<1>1. PICK c \in req[p].owed :
        /\ claims' = [claims EXCEPT ![c].sagas = @ + 1]
        /\ IF req[p].owed = {c}
             THEN Finish(p)
             ELSE req' = [req EXCEPT ![p].owed = @ \ {c}]
  BY DEF RunSaga
<1>2. \A q \in Procs : req[q].owed \subseteq ClaimIds
  BY DEF Requests
<1>3. /\ claims'[c].sagas = 1 /\ claims'[c].status = "confirmed"
      /\ \A k \in ClaimIds : k # c => claims'[k] = claims[k]
  <2>1. claims[c].sagas = 0 /\ claims[c].status = "confirmed" /\ c \in ClaimIds
    BY <1>2 DEF SagaInv
  <2> QED BY <1>1, <2>1 DEF Claims
<1>4. /\ req'[p].owed = req[p].owed \ {c}
      /\ \A q \in Procs : q # p => req'[q] = req[q]
  BY <1>1 DEF Finish, NoRequest, Requests
<1>5. \A q \in Procs : c \notin req'[q].owed /\ req'[q].owed \subseteq req[q].owed
  BY <1>4 DEF SagaInv
<1>6. \A k \in ClaimIds :
         \/ claims'[k].sagas = 0
         \/ claims'[k].sagas = 1 /\ claims'[k].status = "confirmed"
  BY <1>3 DEF SagaInv
<1>7. \A q \in Procs : \A k \in req'[q].owed :
         claims'[k].status = "confirmed" /\ claims'[k].sagas = 0
  BY <1>2, <1>3, <1>5 DEF SagaInv
<1>8. \A q, r \in Procs : \A k \in req'[q].owed : k \in req'[r].owed => q = r
  BY <1>5 DEF SagaInv
<1> QED BY <1>6, <1>7, <1>8 DEF SagaInv

\* However many requests confirm a claim at the same time, its saga starts at
\* most once, and only when the claim was confirmed.
THEOREM SagaStartsOnce == Spec => []SagaOncePerClaim
<1>1. Init => SagaInv
  BY DEF Init, SagaInv, NoClaim, NoRequest
<1>2. TypeInv /\ SagaInv /\ [Next]_vars => SagaInv'
  <2> SUFFICES ASSUME TypeInv, SagaInv, [Next]_vars PROVE SagaInv'
    OBVIOUS
  <2>1. ASSUME NEW p \in Users, UserRequest(p) PROVE SagaInv'
    <3>1. \A q \in Procs : req'[q].owed \subseteq req[q].owed
      BY <2>1, UserRequestReads
    <3> QED BY <2>1, <3>1, UserRequestReads, SagaFrame
  <2>2. ASSUME NEW p \in Procs, Statement(p) PROVE SagaInv'
    <3>1. CASE ~ConfirmAndApplyToMatch(p) /\ ~RunSaga(p)
      <4>1. \A q \in Procs : req'[q].owed \subseteq req[q].owed
        BY <2>2, <3>1, StatementOwed
      <4>2. ASSUME NEW c \in ClaimIds
            PROVE  /\ claims'[c].sagas = claims[c].sagas
                   /\ claims[c].status = "confirmed" => claims'[c].status = "confirmed"
        <5>1. ClaimStep(p, c)
          BY <2>2, StatementClaimStep
        <5> QED BY <3>1, <5>1 DEF ClaimStep, NewClaim, SagaInv, TypeInv, TypeOK, Claims
      <4> QED BY <4>1, <4>2, SagaFrame
    <3> QED BY <2>2, <3>1, ConfirmSaga, RunSagaSaga
  <2>3. CASE \/ AutoConfirmations \/ PlayMatch
             \/ \E k \in ClaimIds : ClaimFallsDue(k)
             \/ \E p \in Procs : Die(p)
             \/ UNCHANGED vars
    <3>1. \A q \in Procs : req'[q].owed \subseteq req[q].owed
      BY <2>3 DEF AutoConfirmations, Enter, Request, PlayMatch, ClaimFallsDue, Die, Finish,
                  NoRequest, vars, TypeInv, TypeOK
    <3> QED BY <2>3, <3>1, OtherClaimStep, SagaFrame
  <2> QED BY <2>1, <2>2, <2>3 DEF Next
<1>3. TypeInv /\ SagaInv => SagaOncePerClaim
  BY DEF SagaInv, SagaOncePerClaim
<1> QED BY <1>1, <1>2, <1>3, TypeCorrect, PTL DEF Spec

-----------------------------------------------------------------------------
(* Nobody confirms its own claim *)

\* A request to confirm carries a side and claims that the other side, or the
\* server, submitted.
ConfirmInv ==
    /\ ConfirmedByOpponent
    /\ \A p \in Procs :
         req[p].op = "confirm" =>
            /\ req[p].pc \in {"commit", "run_saga"}
            /\ req[p].slot \in Slots
            /\ \A c \in req[p].ids :
                 claims[c].status # "absent" /\ claims[c].by # req[p].slot

\* A request to confirm stays one until it ends, and forgets claims only.
LEMMA StatementConfirm ==
    ASSUME TypeInv, ConfirmInv, NEW p \in Procs, Statement(p), req'[p].op = "confirm"
    PROVE  /\ req[p].op = "confirm" /\ req'[p].slot = req[p].slot
           /\ req'[p].ids \subseteq req[p].ids
           /\ req'[p].pc \in {"commit", "run_saga"}
<1> USE DEF TypeInv, TypeOK, Continue, Finish, NoRequest, At
<1>1. CASE ConfirmAndApplyToMatch(p)
  <2>1. PICK c \in req[p].ids, b \in BOOLEAN : AfterCommit(p, c, b)
    BY <1>1 DEF ConfirmAndApplyToMatch
  <2> QED BY <2>1 DEF AfterCommit, Requests
<1>2. CASE RunSaga(p)
  BY <1>2 DEF RunSaga, Requests
<1>3. CASE /\ req[p].pc \notin {"commit", "run_saga"}
           /\ req'[p].op \in {req[p].op, "none"}
  BY <1>3 DEF ConfirmInv
<1>4. CASE CurrentRead(p) \/ SupersedePending(p) \/ TransitionRead(p) \/ TransitionWrite(p)
  BY <1>3, <1>4 DEF CurrentRead, SupersedePending, TransitionRead, TransitionWrite, Requests
<1>5. CASE CreateClaim(p) \/ CancelWrite(p)
  BY <1>3, <1>5 DEF CreateClaim, AfterCreate, CancelWrite, Requests
<1>6. CASE DisputeMatchRead(p) \/ DisputeExistsRead(p) \/ RaiseAtomic(p) \/ AssignWrite(p)
  BY <1>3, <1>6 DEF DisputeMatchRead, DisputeExistsRead, RaiseAtomic, AssignWrite, Requests
<1>7. CASE UpholdWrite(p) \/ OverturnWrite(p) \/ RematchWrite(p) \/ DoubleDqWrite(p)
  BY <1>7 DEF UpholdWrite, OverturnWrite, RematchWrite, DoubleDqWrite, EndDispute
<1>8. CASE CancelDisputeWrite(p) \/ OverrideWrite(p) \/ ForfeitWrite(p)
  BY <1>8 DEF CancelDisputeWrite, EndDispute, OverrideWrite, ForfeitWrite
<1> QED BY <1>1, <1>2, <1>4, <1>5, <1>6, <1>7, <1>8 DEF Statement

\* A confirmed claim was never confirmed by its own submitter, whoever raced,
\* and a claim of the server that nobody answered is charged to a participant.
THEOREM OpponentConfirms == Spec => []ConfirmedByOpponent
<1>1. Init => ConfirmInv
  BY DEF Init, ConfirmInv, ConfirmedByOpponent, NoClaim, NoRequest
<1>2. TypeInv /\ ConfirmInv /\ [Next]_vars => ConfirmInv'
  <2> SUFFICES ASSUME TypeInv, ConfirmInv, [Next]_vars PROVE ConfirmInv'
    OBVIOUS
  <2>1. \A q \in Procs : req[q].ids \subseteq ClaimIds
    BY DEF TypeInv, TypeOK, Requests
  <2>2. ASSUME NEW p \in Users, UserRequest(p) PROVE ConfirmInv'
    <3>1. ConfirmedByOpponent'
      BY <2>2, UserRequestReads DEF ConfirmInv, ConfirmedByOpponent
    <3> QED BY <2>2, <3>1, UserRequestReads DEF ConfirmInv
  <2>3. ASSUME NEW p \in Procs, Statement(p) PROVE ConfirmInv'
    <3>1. ASSUME NEW c \in ClaimIds, claims'[c].status = "confirmed"
          PROVE  claims'[c].confirmer # claims'[c].by /\ claims'[c].confirmer # 0
      <4>1. CASE claims'[c] = claims[c] \/ claims'[c] = [claims[c] EXCEPT !.sagas = @ + 1]
        BY <3>1, <4>1 DEF ConfirmInv, ConfirmedByOpponent, TypeInv, TypeOK, Claims
      <4>2. CASE /\ c \in req[p].ids /\ claims[c].status = "pending"
                 /\ claims'[c] = [claims[c] EXCEPT !.status = "confirmed",
                                                   !.confirmer = Confirmer(p, c)]
        <5>1. Confirmer(p, c) # claims[c].by /\ Confirmer(p, c) # 0
          BY <4>2 DEF ConfirmInv, Confirmer, Opponent, TypeInv, TypeOK, ClaimOK, Claims
        <5> QED BY <4>2, <5>1 DEF TypeInv, TypeOK, Claims
      <4>3. CASE \/ claims'[c] = NewClaim(p)
                 \/ \E st \in {"superseded", "cancelled", "disputed"} :
                      claims'[c] = [claims[c] EXCEPT !.status = st]
        BY <3>1, <4>3 DEF NewClaim, TypeInv, TypeOK, Claims
      <4> QED BY <2>3, <4>1, <4>2, <4>3, StatementClaimStep DEF ClaimStep
    <3>2. ASSUME NEW c \in ClaimIds, claims[c].status # "absent"
          PROVE  claims'[c].status # "absent" /\ claims'[c].by = claims[c].by
      <4>1. claims[c] \in Claims
        BY DEF TypeInv, TypeOK
      <4>2. CASE claims'[c] = claims[c] \/ claims'[c] = [claims[c] EXCEPT !.sagas = @ + 1]
        BY <3>2, <4>1, <4>2 DEF Claims
      <4>3. CASE \E st \in {"superseded", "cancelled", "disputed"} :
                   claims'[c] = [claims[c] EXCEPT !.status = st]
        BY <4>1, <4>3 DEF Claims
      <4>4. CASE claims'[c] = [claims[c] EXCEPT !.status = "confirmed",
                                                !.confirmer = Confirmer(p, c)]
        BY <4>1, <4>4 DEF Claims
      <4> QED BY <2>3, <3>2, <4>2, <4>3, <4>4, StatementClaimStep DEF ClaimStep
    <3>3. ASSUME NEW q \in Procs, req'[q].op = "confirm"
          PROVE  /\ req'[q].pc \in {"commit", "run_saga"}
                 /\ req'[q].slot \in Slots
                 /\ \A c \in req'[q].ids :
                      claims'[c].status # "absent" /\ claims'[c].by # req'[q].slot
      <4>1. CASE q = p
        <5>1. /\ req[p].op = "confirm" /\ req'[p].slot = req[p].slot
              /\ req'[p].ids \subseteq req[p].ids
              /\ req'[p].pc \in {"commit", "run_saga"}
          BY <2>3, <3>3, <4>1, StatementConfirm
        <5> QED BY <2>1, <3>2, <4>1, <5>1 DEF ConfirmInv
      <4>2. CASE q # p
        <5>1. req'[q] = req[q]
          BY <2>3, <4>2, StatementOwed
        <5> QED BY <2>1, <3>2, <3>3, <5>1 DEF ConfirmInv
      <4> QED BY <4>1, <4>2
    <3> QED BY <3>1, <3>3 DEF ConfirmInv, ConfirmedByOpponent
  <2>4. CASE \/ AutoConfirmations \/ PlayMatch
             \/ \E k \in ClaimIds : ClaimFallsDue(k)
             \/ \E p \in Procs : Die(p)
             \/ UNCHANGED vars
    <3>1. ConfirmedByOpponent'
      BY <2>4, OtherClaimStep DEF ConfirmInv, ConfirmedByOpponent
    <3>2. \A q \in Procs : req'[q].op = "confirm" => req'[q] = req[q]
      BY <2>4 DEF AutoConfirmations, Enter, Request, PlayMatch, ClaimFallsDue, Die, Finish,
                  NoRequest, vars, TypeInv, TypeOK
    <3> QED BY <2>1, <2>4, <3>1, <3>2, OtherClaimStep DEF ConfirmInv
  <2> QED BY <2>2, <2>3, <2>4 DEF Next
<1>3. ConfirmInv => ConfirmedByOpponent
  BY DEF ConfirmInv
<1> QED BY <1>1, <1>2, <1>3, TypeCorrect, PTL DEF Spec

-----------------------------------------------------------------------------
(* Requests that do not overlap *)

\* One request is in flight ...
OneInFlight == \A p, q \in Procs : Idle(p) \/ Idle(q) \/ p = q

\* ... and nothing it has read has changed since: the rows it supersedes are
\* all the pending ones, the dispute it raises will be the only open one, the
\* dispute it takes for review is still open.
ReadHolds(p) ==
    /\ At(p, "create") => PendingClaims \subseteq req[p].ids
    /\ At(p, "dispute_raise") => ~OpenDispute
    /\ At(p, "assign_write") => can_resolve(req[p].dispute)

SerialInv ==
    OneInFlight /\ (\A p \in Procs : ReadHolds(p)) /\ OnePendingClaim /\ OneOpenDispute

\* A request is taken up only when nobody else is served, and begins with a
\* read (a request to take a dispute for review has read it already).
LEMMA UserRequestAlone ==
    ASSUME TypeInv, NEW p \in Users, UserRequest(p)
    PROVE  /\ Serial => Quiescent
           /\ \A q \in Procs : q # p => req'[q] = req[q]
           /\ UNCHANGED <<claims, disputes>>
           /\ req'[p].pc \notin {"create", "dispute_raise"}
           /\ req'[p].pc = "assign_write" => can_resolve(req'[p].dispute)
<1> DEFINE Alone ==
    /\ Serial => Quiescent
    /\ \A q \in Procs : q # p => req'[q] = req[q]
    /\ UNCHANGED <<claims, disputes>>
    /\ req'[p].pc \notin {"create", "dispute_raise"}
    /\ req'[p].pc = "assign_write" => can_resolve(req'[p].dispute)
<1> USE DEF TypeInv, TypeOK, Arrive, Enter, Request
<1>1. ASSUME NEW s \in Slots, NEW w \in Slots, SubmitClaim(p, s, w) PROVE Alone
  BY <1>1 DEF SubmitClaim
<1>2. ASSUME NEW w \in Slots, SubmitServerClaim(p, w) PROVE Alone
  BY <1>2 DEF SubmitServerClaim
<1>3. ASSUME NEW c \in ClaimIds, NEW s \in Slots, ConfirmClaim(p, c, s) PROVE Alone
  BY <1>3 DEF ConfirmClaim
<1>4. ASSUME NEW c \in ClaimIds, CancelClaim(p, c) PROVE Alone
  BY <1>4 DEF CancelClaim
<1>5. ASSUME NEW c \in ClaimIds, NEW s \in Slots, DisputeClaim(p, c, s) PROVE Alone
  BY <1>5 DEF DisputeClaim
<1>6. ASSUME NEW c \in ClaimIds \cup {None}, NEW s \in Slots, RaiseDispute(p, c, s)
      PROVE  Alone
  BY <1>6 DEF RaiseDispute
<1>7. ASSUME NEW d \in DisputeIds, AssignForReview(p, d) PROVE Alone
  BY <1>7 DEF AssignForReview, can_resolve
<1>8. ASSUME NEW d \in DisputeIds, NEW o \in Outcomes, NEW w \in 0..2, Resolve(p, d, o, w)
      PROVE  Alone
  BY <1>8 DEF Resolve
<1>9. ASSUME NEW d \in DisputeIds, CancelDispute(p, d) PROVE Alone
  BY <1>9 DEF CancelDispute
<1>10. ASSUME NEW w \in Slots, OverrideResult(p, w) PROVE Alone
  BY <1>10 DEF OverrideResult
<1>11. ASSUME NEW s \in Slots, Forfeit(p, s) PROVE Alone
  BY <1>11 DEF Forfeit
<1>12. ASSUME NEW t \in TournamentMatchStatus, AdminTransition(p, t) PROVE Alone
  BY <1>12 DEF AdminTransition
<1> QED
  BY <1>1, <1>2, <1>3, <1>4, <1>5, <1>6, <1>7, <1>8, <1>9, <1>10, <1>11, <1>12
     DEF UserRequest

\* A statement is run by a request in flight and concerns no other one.
LEMMA StatementOwnRequest ==
    ASSUME TypeInv, NEW p \in Procs, Statement(p)
    PROVE  ~Idle(p) /\ \A q \in Procs : q # p => req'[q] = req[q]
<1> USE DEF TypeInv, TypeOK, At, Idle, Continue, Finish
<1>1. CASE CurrentRead(p) \/ SupersedePending(p) \/ TransitionRead(p) \/ TransitionWrite(p)
  BY <1>1 DEF CurrentRead, SupersedePending, TransitionRead, TransitionWrite
<1>2. CASE CreateClaim(p)
  BY <1>2 DEF CreateClaim, AfterCreate
<1>3. CASE CancelWrite(p) \/ RunSaga(p) \/ DisputeMatchRead(p) \/ DisputeExistsRead(p)
  BY <1>3 DEF CancelWrite, RunSaga, DisputeMatchRead, DisputeExistsRead
<1>4. CASE ConfirmAndApplyToMatch(p)
  BY <1>4 DEF ConfirmAndApplyToMatch, AfterCommit
<1>5. CASE RaiseAtomic(p) \/ AssignWrite(p)
  BY <1>5 DEF RaiseAtomic, AssignWrite
<1>6. CASE UpholdWrite(p) \/ OverturnWrite(p) \/ RematchWrite(p) \/ DoubleDqWrite(p)
           \/ CancelDisputeWrite(p)
  BY <1>6 DEF UpholdWrite, OverturnWrite, RematchWrite, DoubleDqWrite, CancelDisputeWrite,
              EndDispute
<1>7. CASE OverrideWrite(p) \/ ForfeitWrite(p)
  BY <1>7 DEF OverrideWrite, ForfeitWrite
<1> QED BY <1>1, <1>2, <1>3, <1>4, <1>5, <1>6, <1>7 DEF Statement

\* No other statement makes a claim pending.
LEMMA OthersCreateNothing ==
    ASSUME TypeInv, NEW p \in Procs, Statement(p), ~CreateClaim(p),
           NEW c \in ClaimIds, claims'[c].status = "pending"
    PROVE  claims[c].status = "pending"
<1> USE DEF TypeInv, TypeOK
<1>1. CASE UNCHANGED claims
  BY <1>1
<1>2. ASSUME NEW k, NEW st \in {"cancelled", "disputed"}, k \in ClaimIds,
             claims' = [claims EXCEPT ![k].status = st]
      PROVE  claims[c].status = "pending"
  BY <1>2 DEF Claims
<1>3. CASE CancelWrite(p)
  BY <1>1, <1>2, <1>3 DEF CancelWrite
<1>4. CASE RaiseAtomic(p)
  BY <1>1, <1>2, <1>4 DEF RaiseAtomic, RetireClaim, Requests
<1>5. CASE ConfirmAndApplyToMatch(p)
  BY <1>5 DEF ConfirmAndApplyToMatch, ApplyClaim, Claims
<1>6. CASE RunSaga(p)
  BY <1>6 DEF RunSaga, Claims
<1>7. CASE CurrentRead(p) \/ SupersedePending(p) \/ TransitionRead(p) \/ TransitionWrite(p)
           \/ DisputeMatchRead(p) \/ DisputeExistsRead(p) \/ AssignWrite(p)
           \/ OverrideWrite(p) \/ ForfeitWrite(p)
  BY <1>1, <1>7 DEF CurrentRead, SupersedePending, TransitionRead, TransitionWrite,
     DisputeMatchRead, DisputeExistsRead, AssignWrite, OverrideWrite, ForfeitWrite
<1>8. CASE UpholdWrite(p) \/ OverturnWrite(p) \/ RematchWrite(p) \/ DoubleDqWrite(p)
           \/ CancelDisputeWrite(p)
  BY <1>1, <1>8 DEF UpholdWrite, OverturnWrite, RematchWrite, DoubleDqWrite,
     CancelDisputeWrite, EndDispute
<1> QED BY <1>3, <1>4, <1>5, <1>6, <1>7, <1>8 DEF Statement

\* The statement that creates a claim leaves it as the only pending one.
LEMMA StatementPending ==
    ASSUME TypeInv, SerialInv, NEW p \in Procs, Statement(p)
    PROVE  OnePendingClaim'
<1> USE DEF SerialInv, OnePendingClaim, PendingClaims, is_pending
<1>1. CASE \A c \in ClaimIds : claims'[c].status = "pending" => claims[c].status = "pending"
  BY <1>1
<1>2. CASE CreateClaim(p)
  <2>1. CASE UNCHANGED claims
    BY <2>1
  <2>2. ASSUME NEW c \in ClaimIds,
               claims' = [d \in ClaimIds |->
                 CASE d = c -> NewClaim(p)
                   [] d # c /\ d \in req[p].ids /\ is_pending(d)
                        -> [claims[d] EXCEPT !.status = "superseded"]
                   [] OTHER -> claims[d]]
        PROVE  OnePendingClaim'
    <3>1. PendingClaims \subseteq req[p].ids
      BY <1>2 DEF CreateClaim, ReadHolds
    <3>2. ASSUME NEW d \in ClaimIds, d # c PROVE claims'[d].status # "pending"
      <4>1. CASE d \in req[p].ids /\ is_pending(d)
        <5>1. claims'[d] = [claims[d] EXCEPT !.status = "superseded"]
          BY <2>2, <3>2, <4>1
        <5> QED BY <5>1 DEF TypeInv, TypeOK, Claims
      <4>2. CASE ~(d \in req[p].ids /\ is_pending(d))
        <5>1. claims'[d] = claims[d]
          BY <2>2, <3>2, <4>2
        <5> QED BY <3>1, <4>2, <5>1
      <4> QED BY <4>1, <4>2
    <3> QED BY <3>2
  <2> QED BY <1>2, <2>1, <2>2 DEF CreateClaim
<1>3. CASE ~CreateClaim(p)
  BY <1>1, <1>3, OthersCreateNothing
<1> QED BY <1>2, <1>3

\* No statement of a request served alone opens a second dispute.
LEMMA StatementOpen ==
    ASSUME TypeInv, SerialInv, NEW p \in Procs, Statement(p)
    PROVE  OneOpenDispute'
<1> USE DEF TypeInv, TypeOK, SerialInv, OneOpenDispute, can_resolve
<1>1. CASE \A d \in DisputeIds : can_resolve(d)' => can_resolve(d)
  BY <1>1
<1>2. CASE RaiseAtomic(p)
  <2>1. \A d \in DisputeIds : ~can_resolve(d)
    BY <1>2 DEF RaiseAtomic, ReadHolds, OpenDispute
  <2>2. ASSUME NEW d \in DisputeIds,
               disputes' = [disputes EXCEPT ![d] =
                              [status |-> "pending", original |-> Original(p)]]
        PROVE  OneOpenDispute'
    BY <2>1, <2>2
  <2> QED BY <1>1, <1>2, <2>2 DEF RaiseAtomic
<1>3. CASE AssignWrite(p)
  <2>1. req[p].dispute \in DisputeIds /\ can_resolve(req[p].dispute)
    BY <1>3 DEF AssignWrite, RequestOK, ReadHolds, At
  <2>2. \A d \in DisputeIds : can_resolve(d)' => can_resolve(d)
    BY <1>3, <2>1 DEF AssignWrite
  <2> QED BY <1>1, <2>2
<1>4. CASE UpholdWrite(p) \/ OverturnWrite(p) \/ RematchWrite(p) \/ DoubleDqWrite(p)
           \/ CancelDisputeWrite(p)
  <2>1. PICK to \in {"resolved", "cancelled"} :
          disputes' = [disputes EXCEPT ![req[p].dispute].status = to]
    BY <1>4 DEF UpholdWrite, OverturnWrite, RematchWrite, DoubleDqWrite, CancelDisputeWrite,
                EndDispute
  <2>2. \A d \in DisputeIds : can_resolve(d)' => can_resolve(d)
    BY <2>1 DEF Disputes
  <2> QED BY <1>1, <2>2
<1>5. CASE UNCHANGED disputes
  BY <1>5
<1>6. CASE CurrentRead(p) \/ SupersedePending(p) \/ CreateClaim(p) \/ TransitionRead(p)
           \/ TransitionWrite(p) \/ CancelWrite(p) \/ ConfirmAndApplyToMatch(p) \/ RunSaga(p)
           \/ DisputeMatchRead(p) \/ DisputeExistsRead(p) \/ OverrideWrite(p)
           \/ ForfeitWrite(p)
  BY <1>5, <1>6 DEF CurrentRead, SupersedePending, CreateClaim, TransitionRead,
     TransitionWrite, CancelWrite, ConfirmAndApplyToMatch, RunSaga, DisputeMatchRead,
     DisputeExistsRead, OverrideWrite, ForfeitWrite
<1> QED BY <1>2, <1>3, <1>4, <1>6 DEF Statement

\* What the next statement of the request relies on, its last one has just seen.
LEMMA StatementReads ==
    ASSUME TypeInv, NEW p \in Procs, Statement(p)
    PROVE  ReadHolds(p)'
<1> USE DEF TypeInv, TypeOK, ReadHolds, At, Continue, Finish, NoRequest, Requests
<1>1. CASE SupersedePending(p)
  BY <1>1 DEF SupersedePending, PendingClaims, is_pending
<1>2. CASE DisputeExistsRead(p)
  BY <1>2 DEF DisputeExistsRead, OpenDispute, can_resolve
<1>3. CASE req'[p].pc \notin {"create", "dispute_raise", "assign_write"}
  BY <1>3
<1>4. CASE CurrentRead(p) \/ TransitionRead(p) \/ TransitionWrite(p)
  BY <1>3, <1>4 DEF CurrentRead, TransitionRead, TransitionWrite
<1>5. CASE CreateClaim(p)
  BY <1>3, <1>5 DEF CreateClaim, AfterCreate
<1>6. CASE CancelWrite(p) \/ RunSaga(p) \/ DisputeMatchRead(p)
  BY <1>3, <1>6 DEF CancelWrite, RunSaga, DisputeMatchRead
<1>7. CASE ConfirmAndApplyToMatch(p)
  BY <1>3, <1>7 DEF ConfirmAndApplyToMatch, AfterCommit
<1>8. CASE RaiseAtomic(p) \/ AssignWrite(p)
  BY <1>3, <1>8 DEF RaiseAtomic, AssignWrite
<1>9. CASE UpholdWrite(p) \/ OverturnWrite(p) \/ RematchWrite(p) \/ DoubleDqWrite(p)
           \/ CancelDisputeWrite(p)
  BY <1>3, <1>9 DEF UpholdWrite, OverturnWrite, RematchWrite, DoubleDqWrite,
     CancelDisputeWrite, EndDispute
<1>10. CASE OverrideWrite(p) \/ ForfeitWrite(p)
  BY <1>3, <1>10 DEF OverrideWrite, ForfeitWrite
<1> QED BY <1>1, <1>2, <1>4, <1>5, <1>6, <1>7, <1>8, <1>9, <1>10 DEF Statement

\* Served one at a time, requests keep the invariant.
LEMMA SerialStep ==
    ASSUME Serial, TypeInv, SerialInv, [Next]_vars
    PROVE  SerialInv'
<1> USE DEF TypeInv, TypeOK, Idle
<1>1. ASSUME NEW p \in Users, UserRequest(p) PROVE SerialInv'
  <2>1. /\ \A q \in Procs : Idle(q)
        /\ \A q \in Procs : q # p => req'[q] = req[q]
        /\ UNCHANGED <<claims, disputes>>
        /\ req'[p].pc \notin {"create", "dispute_raise"}
        /\ req'[p].pc = "assign_write" => can_resolve(req'[p].dispute)
    BY <1>1, UserRequestAlone DEF Quiescent
  <2>2. OneInFlight'
    BY <2>1 DEF OneInFlight
  <2>3. \A q \in Procs : ReadHolds(q)'
    BY <2>1 DEF ReadHolds, At, can_resolve
  <2>4. OnePendingClaim' /\ OneOpenDispute'
    BY <2>1 DEF SerialInv, OnePendingClaim, PendingClaims, is_pending, OneOpenDispute,
                can_resolve
  <2> QED BY <2>2, <2>3, <2>4 DEF SerialInv
<1>2. ASSUME NEW p \in Procs, Statement(p) PROVE SerialInv'
  <2>1. ~Idle(p) /\ \A q \in Procs : q # p => req'[q] = req[q]
    BY <1>2, StatementOwnRequest
  <2>2. \A q \in Procs : q # p => req'[q].pc = "idle"
    BY <2>1 DEF SerialInv, OneInFlight
  <2>3. OneInFlight'
    BY <2>2 DEF OneInFlight
  <2>4. \A q \in Procs : ReadHolds(q)'
    BY <1>2, <2>2, StatementReads DEF ReadHolds, At
  <2> QED BY <1>2, <2>3, <2>4, StatementPending, StatementOpen DEF SerialInv
<1>3. CASE AutoConfirmations
  <2>1. /\ \A q \in Procs : Idle(q)
        /\ \A q \in Procs : q # Sweeper => req'[q] = req[q]
        /\ UNCHANGED <<claims, disputes>>
        /\ req'[Sweeper].pc = "commit"
    BY <1>3 DEF AutoConfirmations, Enter, Request, Quiescent
  <2>2. OneInFlight'
    BY <2>1 DEF OneInFlight
  <2>3. \A q \in Procs : ReadHolds(q)'
    BY <2>1 DEF ReadHolds, At
  <2>4. OnePendingClaim' /\ OneOpenDispute'
    BY <2>1 DEF SerialInv, OnePendingClaim, PendingClaims, is_pending, OneOpenDispute,
                can_resolve
  <2> QED BY <2>2, <2>3, <2>4 DEF SerialInv
<1>4. CASE PlayMatch \/ UNCHANGED vars
  BY <1>4 DEF PlayMatch, vars, SerialInv, OneInFlight, ReadHolds, At, OnePendingClaim,
              PendingClaims, is_pending, OneOpenDispute, OpenDispute, can_resolve
<1>5. ASSUME NEW c \in ClaimIds, ClaimFallsDue(c) PROVE SerialInv'
  <2>1. PendingClaims' = PendingClaims
    BY <1>5 DEF ClaimFallsDue, PendingClaims, is_pending, Claims
  <2> QED BY <1>5, <2>1 DEF ClaimFallsDue, SerialInv, OneInFlight, ReadHolds, At,
              OnePendingClaim, OneOpenDispute, OpenDispute, can_resolve
<1>6. ASSUME NEW p \in Procs, Die(p) PROVE SerialInv'
  BY <1>6 DEF Die, Finish, NoRequest, SerialInv, OneInFlight, ReadHolds, At, OnePendingClaim,
              PendingClaims, is_pending, OneOpenDispute, OpenDispute, can_resolve
<1> QED BY <1>1, <1>2, <1>3, <1>4, <1>5, <1>6 DEF Next

\* One request at a time is an invariant of a serial scenario.
LEMMA SerialAlways == ASSUME Serial PROVE Spec => []SerialInv
<1>1. Init => SerialInv
  BY DEF Init, SerialInv, OneInFlight, Idle, NoRequest, ReadHolds, At, OnePendingClaim,
         PendingClaims, is_pending, NoClaim, OneOpenDispute, can_resolve, NoDispute
<1>2. TypeInv /\ SerialInv /\ [Next]_vars => SerialInv'
  BY SerialStep
<1> QED BY <1>1, <1>2, TypeCorrect, PTL DEF Spec

\* Requests that do not overlap leave one claim to answer and one dispute to
\* decide (create_and_supersede_pending, exists_pending_for_match), though any
\* of them may die between two statements.
THEOREM NothingOpenTwice == ASSUME Serial PROVE Spec => []NothingIsOpenTwice
<1>1. TypeOK /\ SerialInv => NothingIsOpenTwice
  BY DEF SerialInv, NothingIsOpenTwice
<1> QED BY <1>1, TypeInvariant, SerialAlways, PTL

-----------------------------------------------------------------------------
(* Completed matches have a winner *)

\* What a request about a dispute names is a result: the claim exists, or the
\* match had a winner when it was read, or was disputed already; an overturn
\* names a winner, a resolution a dispute that was raised.
NamesResult(p) ==
    /\ req[p].pc \in {"dispute_match", "dispute_exists", "dispute_raise"}
         => \/ req[p].claim # None /\ claims[req[p].claim].status # "absent"
            \/ At(p, "dispute_exists") /\ req[p].claim = None
                 /\ (req[p].win # 0 \/ status = "disputed")
            \/ At(p, "dispute_raise") /\ req[p].claim = None /\ req[p].win # 0
    /\ req[p].pc \in {"assign_write", "resolve_write"}
         => disputes[req[p].dispute].status # "absent"
    /\ At(p, "resolve_write") /\ req[p].op = "overturn" => req[p].win # 0
    /\ ~At(p, "dispute_cancel_write")

DisputesAreAboutResults ==
    \A d \in DisputeIds : disputes[d].status # "absent" => disputes[d].original # 0

WinnerInv ==
    (\A p \in Procs : NamesResult(p)) /\ DisputesAreAboutResults /\ CompletedHasWinner

\* All of it holds until an admin completes the match, or makes it disputed, by
\* hand.
ByHand == forced \cap {"completed", "disputed"} # {}

WinnerUnlessByHand == ByHand \/ WinnerInv

\* A request that is taken up names a result.
LEMMA UserRequestNames ==
    ASSUME "cancel" \notin Features, TypeInv, WinnerInv, ~ByHand,
           NEW p \in Users, UserRequest(p)
    PROVE  NamesResult(p)' /\ UNCHANGED <<status, winner, forced>>
<1> DEFINE Named == NamesResult(p)' /\ UNCHANGED <<status, winner, forced>>
<1> USE ClaimsAssumption DEF ClaimsAssumption, TypeInv, TypeOK, Arrive, Enter, Request,
        NamesResult, At
<1>1. ASSUME NEW s \in Slots, NEW w \in Slots, SubmitClaim(p, s, w) PROVE Named
  BY <1>1 DEF SubmitClaim
<1>2. ASSUME NEW w \in Slots, SubmitServerClaim(p, w) PROVE Named
  BY <1>2 DEF SubmitServerClaim
<1>3. ASSUME NEW c \in ClaimIds, NEW s \in Slots, ConfirmClaim(p, c, s) PROVE Named
  BY <1>3 DEF ConfirmClaim
<1>4. ASSUME NEW c \in ClaimIds, CancelClaim(p, c) PROVE Named
  BY <1>4 DEF CancelClaim
<1>5. ASSUME NEW c \in ClaimIds, NEW s \in Slots, DisputeClaim(p, c, s) PROVE Named
  BY <1>5 DEF DisputeClaim, is_pending
<1>6. ASSUME NEW c \in ClaimIds \cup {None}, NEW s \in Slots, RaiseDispute(p, c, s)
      PROVE  Named
  BY <1>6 DEF RaiseDispute, CanDispute, WinnerInv, CompletedHasWinner, ByHand
<1>7. ASSUME NEW d \in DisputeIds, AssignForReview(p, d) PROVE Named
  BY <1>7 DEF AssignForReview
<1>8. ASSUME NEW d \in DisputeIds, NEW o \in Outcomes, NEW w \in 0..2, Resolve(p, d, o, w)
      PROVE  Named
  BY <1>8 DEF Resolve, can_resolve
<1>9. ASSUME NEW d \in DisputeIds, CancelDispute(p, d) PROVE Named
  BY <1>9 DEF CancelDispute
<1>10. ASSUME NEW w \in Slots, OverrideResult(p, w) PROVE Named
  BY <1>10 DEF OverrideResult
<1>11. ASSUME NEW s \in Slots, Forfeit(p, s) PROVE Named
  BY <1>11 DEF Forfeit
<1>12. ASSUME NEW t \in TournamentMatchStatus, AdminTransition(p, t) PROVE Named
  BY <1>12 DEF AdminTransition
<1> QED
  BY <1>1, <1>2, <1>3, <1>4, <1>5, <1>6, <1>7, <1>8, <1>9, <1>10, <1>11, <1>12
     DEF UserRequest

\* Between its statements a request still names a result: a match that is
\* disputed has an open dispute, and the request that finds none saw a winner.
LEMMA StatementNames ==
    ASSUME TypeInv, WinnerInv, ~ByHand, DisputedHasOpenDispute,
           NEW p \in Procs, Statement(p)
    PROVE  NamesResult(p)'
<1> USE DEF TypeInv, TypeOK, NamesResult, At, Continue, Finish, NoRequest, Requests
<1>1. CASE DisputeMatchRead(p)
  BY <1>1 DEF DisputeMatchRead, WinnerInv
<1>2. CASE DisputeExistsRead(p)
  BY <1>2 DEF DisputeExistsRead, WinnerInv, DisputedHasOpenDispute, ByHand
<1>3. CASE req'[p].pc \notin {"dispute_match", "dispute_exists", "dispute_raise",
                              "assign_write", "resolve_write", "dispute_cancel_write"}
  BY <1>3
<1>4. CASE CurrentRead(p) \/ SupersedePending(p) \/ TransitionRead(p) \/ TransitionWrite(p)
  BY <1>3, <1>4 DEF CurrentRead, SupersedePending, TransitionRead, TransitionWrite
<1>5. CASE CreateClaim(p)
  BY <1>3, <1>5 DEF CreateClaim, AfterCreate
<1>6. CASE CancelWrite(p) \/ RunSaga(p)
  BY <1>3, <1>6 DEF CancelWrite, RunSaga
<1>7. CASE ConfirmAndApplyToMatch(p)
  BY <1>3, <1>7 DEF ConfirmAndApplyToMatch, AfterCommit
<1>8. CASE RaiseAtomic(p) \/ AssignWrite(p)
  BY <1>3, <1>8 DEF RaiseAtomic, AssignWrite
<1>9. CASE UpholdWrite(p) \/ OverturnWrite(p) \/ RematchWrite(p) \/ DoubleDqWrite(p)
           \/ CancelDisputeWrite(p)
  BY <1>3, <1>9 DEF UpholdWrite, OverturnWrite, RematchWrite, DoubleDqWrite,
     CancelDisputeWrite, EndDispute
<1>10. CASE OverrideWrite(p) \/ ForfeitWrite(p)
  BY <1>3, <1>10 DEF OverrideWrite, ForfeitWrite
<1> QED BY <1>1, <1>2, <1>4, <1>5, <1>6, <1>7, <1>8, <1>9, <1>10 DEF Statement

\* The statement that raises a dispute records the result it is about.
LEMMA StatementOriginal ==
    ASSUME TypeInv, WinnerInv, NEW p \in Procs, Statement(p)
    PROVE  DisputesAreAboutResults'
<1> USE DEF TypeInv, TypeOK, WinnerInv, DisputesAreAboutResults
<1>1. CASE \A d \in DisputeIds : /\ disputes'[d].original = disputes[d].original
                                 /\ disputes'[d].status # "absent"
                                      => disputes[d].status # "absent"
  BY <1>1
<1>2. CASE RaiseAtomic(p)
  <2>1. Original(p) # 0
    <3>1. NamesResult(p) /\ At(p, "dispute_raise")
      BY <1>2 DEF RaiseAtomic
    <3>2. CASE req[p].claim = None
      BY <3>1, <3>2 DEF NamesResult, At, Original
    <3>3. CASE req[p].claim # None
      <4>1. req[p].claim \in ClaimIds /\ claims[req[p].claim].status # "absent"
        BY <3>1, <3>3 DEF NamesResult, At, Requests
      <4> QED BY <3>3, <4>1 DEF ClaimOK, Original
    <3> QED BY <3>2, <3>3
  <2>2. CASE UNCHANGED disputes
    BY <2>2
  <2>3. ASSUME NEW d \in DisputeIds,
               disputes' = [disputes EXCEPT ![d] =
                              [status |-> "pending", original |-> Original(p)]]
        PROVE  DisputesAreAboutResults'
    BY <2>1, <2>3
  <2> QED BY <1>2, <2>2, <2>3 DEF RaiseAtomic
<1>3. CASE AssignWrite(p)
  <2>1. req[p].dispute \in DisputeIds /\ disputes[req[p].dispute].status # "absent"
    BY <1>3 DEF AssignWrite, RequestOK, NamesResult, At
  <2> QED BY <1>1, <1>3, <2>1 DEF AssignWrite, Disputes
<1>4. CASE UpholdWrite(p) \/ OverturnWrite(p) \/ RematchWrite(p) \/ DoubleDqWrite(p)
  <2>1. req[p].dispute \in DisputeIds /\ disputes[req[p].dispute].status # "absent"
    BY <1>4 DEF UpholdWrite, OverturnWrite, RematchWrite, DoubleDqWrite, EndDispute,
                NamesResult, RequestOK, At
  <2>2. disputes' = [disputes EXCEPT ![req[p].dispute].status = "resolved"]
    BY <1>4 DEF UpholdWrite, OverturnWrite, RematchWrite, DoubleDqWrite, EndDispute
  <2> QED BY <1>1, <2>1, <2>2 DEF Disputes
<1>5. CASE CancelDisputeWrite(p)
  BY <1>5 DEF CancelDisputeWrite, EndDispute, NamesResult
<1>6. CASE UNCHANGED disputes
  BY <1>6
<1>7. CASE CurrentRead(p) \/ SupersedePending(p) \/ CreateClaim(p) \/ TransitionRead(p)
           \/ TransitionWrite(p) \/ CancelWrite(p) \/ ConfirmAndApplyToMatch(p) \/ RunSaga(p)
           \/ DisputeMatchRead(p) \/ DisputeExistsRead(p) \/ OverrideWrite(p)
           \/ ForfeitWrite(p)
  BY <1>6, <1>7 DEF CurrentRead, SupersedePending, CreateClaim, TransitionRead,
     TransitionWrite, CancelWrite, ConfirmAndApplyToMatch, RunSaga, DisputeMatchRead,
     DisputeExistsRead, OverrideWrite, ForfeitWrite
<1> QED BY <1>2, <1>3, <1>4, <1>5, <1>7 DEF Statement

\* Every statement that completes the match writes a winner with it.
LEMMA StatementWinner ==
    ASSUME TypeInv, WinnerInv, ~ByHand, ~ByHand', NEW p \in Procs, Statement(p)
    PROVE  CompletedHasWinner'
<1> USE DEF TypeInv, TypeOK, WinnerInv, CompletedHasWinner
<1>1. CASE UNCHANGED <<status, winner>>
  BY <1>1 DEF ByHand
<1>2. CASE TransitionWrite(p)
  BY <1>2 DEF TransitionWrite, RequestOK, At, ByHand
<1>10. CASE RaiseAtomic(p)
  BY <1>1, <1>10 DEF RaiseAtomic
<1>3. CASE ConfirmAndApplyToMatch(p)
  <2>1. PICK c \in req[p].ids : \/ is_pending(c) /\ ApplyClaim(p, c)
                                \/ UNCHANGED <<status, winner>>
    BY <1>3 DEF ConfirmAndApplyToMatch
  <2>2. c \in ClaimIds
    BY DEF Requests
  <2>3. CASE is_pending(c) /\ ApplyClaim(p, c)
    BY <2>2, <2>3 DEF ApplyClaim, is_pending, ClaimOK
  <2> QED BY <1>1, <2>1, <2>3
<1>4. CASE UpholdWrite(p)
  BY <1>4 DEF UpholdWrite, EndDispute, NamesResult, RequestOK, At, DisputesAreAboutResults
<1>5. CASE OverturnWrite(p)
  BY <1>5 DEF OverturnWrite, EndDispute, NamesResult
<1>6. CASE RematchWrite(p) \/ DoubleDqWrite(p) \/ CancelDisputeWrite(p)
  BY <1>6 DEF RematchWrite, DoubleDqWrite, CancelDisputeWrite, EndDispute, NamesResult
<1>7. CASE OverrideWrite(p)
  BY <1>7 DEF OverrideWrite, RequestOK, At
<1>8. CASE ForfeitWrite(p)
  BY <1>8 DEF ForfeitWrite
<1>9. CASE CurrentRead(p) \/ SupersedePending(p) \/ CreateClaim(p) \/ TransitionRead(p)
           \/ CancelWrite(p) \/ RunSaga(p) \/ DisputeMatchRead(p) \/ DisputeExistsRead(p)
           \/ AssignWrite(p)
  BY <1>1, <1>9 DEF CurrentRead, SupersedePending, CreateClaim, TransitionRead, CancelWrite,
     RunSaga, DisputeMatchRead, DisputeExistsRead, AssignWrite
<1> QED
  BY <1>2, <1>3, <1>4, <1>5, <1>6, <1>7, <1>8, <1>9, <1>10 DEF Statement

\* What an admin has done by hand is never forgotten.
LEMMA ForcedGrows == ASSUME TypeInv, [Next]_vars PROVE forced \subseteq forced'
<1>1. ASSUME NEW p \in Users, UserRequest(p) PROVE forced \subseteq forced'
  BY <1>1, UserRequestReads
<1>2. ASSUME NEW p \in Procs, Statement(p) PROVE forced \subseteq forced'
  <2>1. CASE RaiseAtomic(p) \/ AssignWrite(p)
    BY <2>1 DEF RaiseAtomic, AssignWrite
  <2> QED BY <1>2, <2>1, OtherStatementDispute
<1>3. CASE AutoConfirmations \/ PlayMatch \/ UNCHANGED vars
  BY <1>3 DEF AutoConfirmations, Enter, PlayMatch, vars
<1>4. ASSUME NEW c \in ClaimIds, ClaimFallsDue(c) PROVE forced \subseteq forced'
  BY <1>4 DEF ClaimFallsDue
<1>5. ASSUME NEW p \in Procs, Die(p) PROVE forced \subseteq forced'
  BY <1>5 DEF Die
<1> QED BY <1>1, <1>2, <1>3, <1>4, <1>5 DEF Next

\* Every step leaves a completed match with its winner.
LEMMA WinnerStep ==
    ASSUME Serial, "cancel" \notin Features, TypeInv, SerialInv, DisputedHasOpenDispute,
           WinnerUnlessByHand, [Next]_vars
    PROVE  WinnerUnlessByHand'
<1> SUFFICES ASSUME ~ByHand' PROVE WinnerInv'
  BY DEF WinnerUnlessByHand
<1>8. forced \subseteq forced'
  BY ForcedGrows
<1>9. ~ByHand /\ WinnerInv
  BY <1>8 DEF ByHand, WinnerUnlessByHand
<1> USE DEF TypeInv, TypeOK, Idle
<1>1. ASSUME NEW p \in Users, UserRequest(p) PROVE WinnerInv'
  <2>1. /\ \A q \in Procs : Idle(q)
        /\ \A q \in Procs : q # p => req'[q] = req[q]
        /\ UNCHANGED <<claims, disputes>>
    BY <1>1, UserRequestAlone DEF Quiescent
  <2>2. NamesResult(p)' /\ UNCHANGED <<status, winner, forced>>
    BY <1>1, <1>9, UserRequestNames
  <2>3. \A q \in Procs : NamesResult(q)'
    BY <2>1, <2>2 DEF NamesResult, At
  <2> QED BY <1>9, <2>1, <2>2, <2>3 DEF WinnerInv, DisputesAreAboutResults, CompletedHasWinner
<1>2. ASSUME NEW p \in Procs, Statement(p) PROVE WinnerInv'
  <2>1. \A q \in Procs : q # p => req'[q].pc = "idle"
    BY <1>2, StatementOwnRequest DEF SerialInv, OneInFlight
  <2>2. \A q \in Procs : NamesResult(q)'
    BY <1>2, <1>9, <2>1, StatementNames DEF NamesResult, At
  <2> QED BY <1>2, <1>9, <2>2, StatementOriginal, StatementWinner DEF WinnerInv
<1>3. CASE AutoConfirmations
  BY <1>9, <1>3 DEF AutoConfirmations, Enter, Request, Quiescent, WinnerInv, NamesResult, At,
              DisputesAreAboutResults, CompletedHasWinner
<1>4. CASE PlayMatch
  BY <1>9, <1>4 DEF PlayMatch, Quiescent, WinnerInv, NamesResult, At, DisputesAreAboutResults,
              CompletedHasWinner
<1>5. ASSUME NEW c \in ClaimIds, ClaimFallsDue(c) PROVE WinnerInv'
  <2>1. /\ \A k \in ClaimIds : claims'[k].status = claims[k].status
        /\ UNCHANGED <<status, winner, disputes, req, forced>>
    BY <1>5 DEF ClaimFallsDue, Claims
  <2> QED BY <1>9, <2>1 DEF WinnerInv, NamesResult, At, DisputesAreAboutResults,
              CompletedHasWinner, Requests
<1>6. ASSUME NEW p \in Procs, Die(p) PROVE WinnerInv'
  BY <1>9, <1>6 DEF Die, Finish, NoRequest, WinnerInv, NamesResult, At, DisputesAreAboutResults,
              CompletedHasWinner
<1>7. CASE UNCHANGED vars
  BY <1>9, <1>7 DEF vars, WinnerInv, NamesResult, At, DisputesAreAboutResults, CompletedHasWinner
<1> QED BY <1>1, <1>2, <1>3, <1>4, <1>5, <1>6, <1>7 DEF Next

\* Served one at a time, with disputes resolved and not cancelled, and as long as
\* no admin completes it or makes it disputed by hand, a match is never completed
\* without a winner: upholding a result restores the disputed one, even when the
\* row had none.
THEOREM CompletedMatchHasWinner ==
    ASSUME Serial, "cancel" \notin Features
    PROVE  Spec => []CompletedHasWinner
<1>1. Init => WinnerUnlessByHand
  BY DEF Init, WinnerUnlessByHand, WinnerInv, NamesResult, At, NoRequest, DisputesAreAboutResults, NoDispute,
         CompletedHasWinner
<1>2. TypeInv /\ SerialInv /\ DisputedHasOpenDispute /\ WinnerUnlessByHand
        /\ [Next]_vars => WinnerUnlessByHand'
  BY WinnerStep
<1>3. WinnerUnlessByHand => CompletedHasWinner
  BY DEF WinnerUnlessByHand, WinnerInv, ByHand, CompletedHasWinner
<1> QED
  BY <1>1, <1>2, <1>3, TypeCorrect, SerialAlways, DisputedMatchHasOpenDispute, PTL DEF Spec

=============================================================================
