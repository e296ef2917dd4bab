----------------------- MODULE MatchLifecycle_proofs -----------------------
(***************************************************************************)
(* Proofs about MatchLifecycle, for any number of concurrent requests and  *)
(* any bounds.                                                             *)
(***************************************************************************)
EXTENDS MatchLifecycle, TLAPS

USE DEF Procs, Slots

-----------------------------------------------------------------------------
(* Type correctness *)

\* What a request in flight is about: the statements of a check-in or of a
\* forfeit run for a participant slot, never for none.
RequestOK ==
    \A p \in Procs :
        /\ req[p].op \in {"check_in", "forfeit", "process_forfeit"}
             => req[p].slot \in Slots
        /\ req[p].pc \in {"check_in_read", "check_in_write"} => req[p].op = "check_in"
        /\ req[p].pc \in {"forfeit_read", "forfeit_record", "forfeit_write"}
             => req[p].op \in {"forfeit", "process_forfeit"}

TypeInv == TypeOK /\ RequestOK

\* Taking up a request keeps the invariant.
LEMMA UserRequestType ==
    ASSUME TypeInv, NEW p \in Users, UserRequest(p)
    PROVE  TypeInv'
<1> USE DEF TypeInv, TypeOK, RequestOK, Requests, Ops, PCs, TournamentMatchStatus,
            Arrive, Enter, row
<1> USE LifecycleAssumption DEF LifecycleAssumption
<1>1. CASE MarkReady(p)
  BY <1>1 DEF MarkReady
<1>2. CASE Schedule(p)
  BY <1>2 DEF Schedule
<1>3. ASSUME NEW s \in Slots, CheckIn(p, s) PROVE TypeInv'
  <2>1. CASE Arrive(p, "check_in", "transition_read", s, "checking_in")
    BY <1>3, <2>1
  <2>2. CASE Arrive(p, "check_in", "check_in_read", s, "checking_in")
    BY <1>3, <2>2
  <2> QED BY <1>3, <2>1, <2>2 DEF CheckIn
<1>4. CASE StartMatch(p)
  BY <1>4 DEF StartMatch
<1>5. ASSUME NEW t \in AdminTargets, AdminTransition(p, t) PROVE TypeInv'
  BY <1>5 DEF AdminTransition
<1>6. CASE ServerGoingLive(p)
  BY <1>6 DEF ServerGoingLive
<1>7. ASSUME NEW s \in Slots, Forfeit(p, s) PROVE TypeInv'
  BY <1>7 DEF Forfeit
<1>8. ASSUME NEW s \in Slots, ProcessForfeit(p, s) PROVE TypeInv'
  BY <1>8 DEF ProcessForfeit
<1>9. CASE ProcessDoubleForfeit(p)
  BY <1>9 DEF ProcessDoubleForfeit
<1> QED
  BY <1>1, <1>2, <1>3, <1>4, <1>5, <1>6, <1>7, <1>8, <1>9 DEF UserRequest

\* So does a phase of the background pass that lists the match.
LEMMA SweepPhaseType ==
    ASSUME TypeInv, SweepPhase
    PROVE  TypeInv'
<1> USE DEF TypeInv, TypeOK, RequestOK, Requests, Ops, PCs, TournamentMatchStatus,
            Sweep, Enter, row
<1>1. CASE OpenCheckInWindow
  BY <1>1 DEF OpenCheckInWindow
<1>2. CASE RepairCheckInDeadline
  BY <1>2 DEF RepairCheckInDeadline
<1>3. CASE ProcessCheckInTimeout
  <2>1. CASE Sweep("double_forfeit", "double_read", 0, "cancelled")
    BY <2>1
  <2>2. ASSUME NEW s \in Slots, Sweep("process_forfeit", "forfeit_read", s, "forfeit")
        PROVE  TypeInv'
    BY <2>2
  <2> QED BY <1>3, <2>1, <2>2 DEF ProcessCheckInTimeout
<1> QED BY <1>1, <1>2, <1>3 DEF SweepPhase

\* Every statement of a request in flight keeps the invariant.
LEMMA StatementType ==
    ASSUME TypeInv, NEW p \in Procs, Statement(p)
    PROVE  TypeInv'
<1> USE DEF TypeInv, TypeOK, RequestOK, Requests, Ops, PCs, TournamentMatchStatus,
            NoRequest, Continue, Finish, At, row
<1>1. CASE TransitionRead(p)
  <2>1. CASE can_transition_to(status, req[p].to)
    BY <1>1, <2>1 DEF TransitionRead
  <2>2. CASE ~can_transition_to(status, req[p].to)
    BY <1>1, <2>2 DEF TransitionRead
  <2> QED BY <2>1, <2>2
<1>2. CASE TransitionWrite(p)
  BY <1>2 DEF TransitionWrite
<1>3. CASE TransitionLog(p)
  <2>1. log' \in Seq([from : TournamentMatchStatus, to : TournamentMatchStatus])
    BY <1>3 DEF TransitionLog
  <2>2. req' \in [Procs -> Requests] /\ RequestOK'
    BY <1>3 DEF TransitionLog
  <2> QED BY <1>3, <2>1, <2>2 DEF TransitionLog
<1>4. CASE ScheduleWrite(p)
  BY <1>4 DEF ScheduleWrite
<1>5. CASE CheckInRead(p)
  BY <1>5 DEF CheckInRead
<1>6. CASE CheckInWrite(p)
  BY <1>6 DEF CheckInWrite
<1>7. CASE StartWrite(p)
  BY <1>7 DEF StartWrite
<1>8. CASE ForfeitWrite(p)
  BY <1>8 DEF ForfeitWrite, Opponent
<1>9. CASE ForfeitRead(p)
  BY <1>9 DEF ForfeitRead
<1>10. CASE ForfeitRecord(p)
  BY <1>10 DEF ForfeitRecord
<1>11. CASE DoubleRead(p)
  BY <1>11 DEF DoubleRead
<1>12. CASE DoubleRecord(p, 1, "double_record1", "double_record2")
  BY <1>12 DEF DoubleRecord
<1>13. CASE DoubleRecord(p, 2, "double_record2", "double_write")
  BY <1>13 DEF DoubleRecord
<1>14. CASE DoubleWrite(p)
  BY <1>14 DEF DoubleWrite
<1>15. CASE OpenDeadline(p)
  BY <1>15 DEF OpenDeadline
<1>16. CASE RepairWrite(p)
  BY <1>16 DEF RepairWrite
<1> QED
  BY <1>1, <1>2, <1>3, <1>4, <1>5, <1>6, <1>7, <1>8, <1>9, <1>10, <1>11, <1>12, <1>13, <1>14, <1>15, <1>16
     DEF Statement

\* So do bracket progression, dispute outcomes, time and failures.
LEMMA EnvironmentType ==
    ASSUME TypeInv,
           Environment \/ \E p \in Procs : Die(p)
    PROVE  TypeInv'
<1> USE DEF TypeInv, TypeOK, RequestOK, Requests, Ops, PCs, TournamentMatchStatus,
            NoRequest, Finish, row
<1>1. ASSUME NEW s \in Slots, AssignParticipant(s) PROVE TypeInv'
  BY <1>1 DEF AssignParticipant
<1>2. CASE MarkPendingAsReadyBulk
  BY <1>2 DEF MarkPendingAsReadyBulk
<1>3. CASE CheckInLeadReached
  BY <1>3 DEF CheckInLeadReached
<1>4. CASE DeadlinePasses
  BY <1>4 DEF DeadlinePasses
<1>5. ASSUME NEW p \in Procs, Die(p) PROVE TypeInv'
  BY <1>5, LifecycleAssumption DEF Die, LifecycleAssumption
<1>6. CASE RaiseDispute
  BY <1>6 DEF RaiseDispute
<1>7. CASE ResolveRematch
  BY <1>7 DEF ResolveRematch
<1> QED BY <1>1, <1>2, <1>3, <1>4, <1>5, <1>6, <1>7 DEF Environment

\* Every reachable state is well typed, whatever requests overlap or die.
THEOREM TypeCorrect == Spec => []TypeInv
<1>1. Init => TypeInv
  <2> SUFFICES ASSUME Init PROVE TypeInv
    OBVIOUS
  <2>1. NoRequest \in Requests
    BY DEF NoRequest, Requests, Ops, PCs, TournamentMatchStatus
  <2>2. req \in [Procs -> Requests]
    BY <2>1 DEF Init
  <2>3. RequestOK
    BY DEF Init, RequestOK, NoRequest
  <2>4. requests \in 0..MaxRequests /\ faults \in 0..MaxFaults
    BY LifecycleAssumption DEF Init, LifecycleAssumption
  <2>5. log \in Seq([from : TournamentMatchStatus, to : TournamentMatchStatus])
    BY DEF Init
  <2>6. startedAt \in BOOLEAN
    BY DEF Init
  <2>7. /\ status \in TournamentMatchStatus
        /\ participants \in SUBSET Slots
        /\ scheduledAt \in {"null", "future", "due"}
        /\ deadline \in {"null", "future", "past"}
    BY DEF Init, TournamentMatchStatus
  <2>8. /\ checkedIn \in SUBSET Slots
        /\ forfeitRecords \in SUBSET Slots
        /\ winner \in 0..2
        /\ loser \in 0..2
    BY DEF Init
  <2> QED BY <2>2, <2>3, <2>4, <2>5, <2>6, <2>7, <2>8 DEF TypeInv, TypeOK
<1>2. TypeInv /\ [Next]_vars => TypeInv'
  <2> SUFFICES ASSUME TypeInv, [Next]_vars PROVE TypeInv'
    OBVIOUS
  <2>1. ASSUME NEW p \in Users, UserRequest(p) PROVE TypeInv'
    BY <2>1, UserRequestType
  <2>2. ASSUME NEW p \in Procs, Statement(p) PROVE TypeInv'
    BY <2>2, StatementType
  <2>3. CASE SweepPhase
    BY <2>3, SweepPhaseType
  <2>4. CASE Environment \/ \E p \in Procs : Die(p)
    BY <2>4, EnvironmentType
  <2>5. CASE UNCHANGED vars
    BY <2>5 DEF TypeInv, TypeOK, RequestOK, vars, row
  <2> QED BY <2>1, <2>2, <2>3, <2>4, <2>5 DEF Next
<1> QED BY <1>1, <1>2, PTL DEF Spec

\* In particular every column of the match and every request is well typed:
\* for instance a forfeit never records a participant slot that does not exist.
THEOREM TypeInvariant == Spec => []TypeOK
<1>1. TypeInv => TypeOK
  BY DEF TypeInv
<1> QED BY <1>1, TypeCorrect, PTL

-----------------------------------------------------------------------------
(* A scheduled match has a time *)

\* Until scheduled_at is stamped, no request is about to write "scheduled".
ScheduleInv ==
    scheduledAt = "null" =>
        /\ status # "scheduled"
        /\ \A p \in Procs :
             req[p].pc \in {"open_deadline", "transition_read", "transition_write"}
                => req[p].to # "scheduled"

\* With admins who schedule through schedule(), no scheduled match is without
\* a time, whatever requests overlap or die between their two writes.
THEOREM ScheduledMatchHasTime ==
    ASSUME "scheduled" \notin AdminTargets
    PROVE  Spec => []ScheduledHasTime
<1>1. Init => ScheduleInv
  BY DEF Init, ScheduleInv, NoRequest
<1>2. TypeInv /\ ScheduleInv /\ [Next]_vars => ScheduleInv'
  <2> SUFFICES ASSUME TypeInv, ScheduleInv, [Next]_vars PROVE ScheduleInv'
    OBVIOUS
  <2>0. req \in [Procs -> Requests]
    BY DEF TypeInv, TypeOK
  <2> USE <2>0 DEF ScheduleInv, Requests
  <2>1. ASSUME NEW p \in Users, UserRequest(p) PROVE ScheduleInv'
    <3> USE DEF Arrive, Enter, row
    <3>1. CASE MarkReady(p)
      BY <3>1 DEF MarkReady
    <3>2. CASE Schedule(p)
      BY <3>2 DEF Schedule
    <3>3. ASSUME NEW s \in Slots, CheckIn(p, s) PROVE ScheduleInv'
      BY <3>3 DEF CheckIn
    <3>4. CASE StartMatch(p)
      BY <3>4 DEF StartMatch
    <3>5. ASSUME NEW t \in AdminTargets, AdminTransition(p, t) PROVE ScheduleInv'
      BY <3>5 DEF AdminTransition
    <3>6. CASE ServerGoingLive(p)
      BY <3>6 DEF ServerGoingLive
    <3>7. ASSUME NEW s \in Slots, Forfeit(p, s) PROVE ScheduleInv'
      BY <3>7 DEF Forfeit
    <3>8. ASSUME NEW s \in Slots, ProcessForfeit(p, s) PROVE ScheduleInv'
      BY <3>8 DEF ProcessForfeit
    <3>9. CASE ProcessDoubleForfeit(p)
      BY <3>9 DEF ProcessDoubleForfeit
    <3> QED
      BY <2>1, <3>1, <3>2, <3>3, <3>4, <3>5, <3>6, <3>7, <3>8, <3>9 DEF UserRequest
  <2>2. ASSUME NEW p \in Procs, Statement(p) PROVE ScheduleInv'
    <3> USE DEF At, Continue, Finish, NoRequest, row
    <3>1. CASE TransitionRead(p)
      BY <3>1 DEF TransitionRead
    <3>2. CASE TransitionWrite(p)
      BY <3>2 DEF TransitionWrite
    <3>3. CASE TransitionLog(p)
      BY <3>3 DEF TransitionLog
    <3>4. CASE ScheduleWrite(p)
      BY <3>4 DEF ScheduleWrite
    <3>5. CASE CheckInRead(p) \/ CheckInWrite(p)
      BY <3>5 DEF CheckInRead, CheckInWrite
    <3>6. CASE StartWrite(p) \/ ForfeitWrite(p) \/ DoubleWrite(p)
      BY <3>6 DEF StartWrite, ForfeitWrite, DoubleWrite
    <3>7. CASE ForfeitRead(p) \/ ForfeitRecord(p) \/ DoubleRead(p)
      BY <3>7 DEF ForfeitRead, ForfeitRecord, DoubleRead
    <3>8. CASE \/ DoubleRecord(p, 1, "double_record1", "double_record2")
               \/ DoubleRecord(p, 2, "double_record2", "double_write")
      BY <3>8 DEF DoubleRecord
    <3>9. CASE OpenDeadline(p) \/ RepairWrite(p)
      BY <3>9 DEF OpenDeadline, RepairWrite
    <3> QED
      BY <2>2, <3>1, <3>2, <3>3, <3>4, <3>5, <3>6, <3>7, <3>8, <3>9 DEF Statement
  <2>3. CASE SweepPhase
    BY <2>3 DEF SweepPhase, OpenCheckInWindow, RepairCheckInDeadline,
                ProcessCheckInTimeout, Sweep, Enter, row
  <2>4. ASSUME NEW s \in Slots, AssignParticipant(s) PROVE ScheduleInv'
    BY <2>4 DEF AssignParticipant
  <2>5. CASE MarkPendingAsReadyBulk \/ CheckInLeadReached \/ DeadlinePasses
    BY <2>5 DEF MarkPendingAsReadyBulk, CheckInLeadReached, DeadlinePasses
  <2>8. CASE RaiseDispute \/ ResolveRematch
    BY <2>8 DEF RaiseDispute, ResolveRematch
  <2>6. ASSUME NEW p \in Procs, Die(p) PROVE ScheduleInv'
    BY <2>6 DEF Die, Finish, NoRequest, row
  <2>7. CASE UNCHANGED vars
    BY <2>7 DEF vars, row
  <2> QED BY <2>1, <2>2, <2>3, <2>4, <2>5, <2>6, <2>7, <2>8 DEF Next, Environment
<1>3. ScheduleInv => ScheduledHasTime
  BY DEF ScheduleInv, ScheduledHasTime
<1> QED BY <1>1, <1>2, <1>3, TypeCorrect, PTL DEF Spec

-----------------------------------------------------------------------------
(* Winner and loser *)

\* The columns winner and loser are written together, and name the two sides.
THEOREM WinnerComesWithLoser == Spec => []WinnerHasLoser
<1>1. Init => WinnerHasLoser
  BY DEF Init, WinnerHasLoser
<1>2. TypeInv /\ WinnerHasLoser /\ [Next]_vars => WinnerHasLoser'
  <2> SUFFICES ASSUME TypeInv, WinnerHasLoser, [Next]_vars PROVE WinnerHasLoser'
    OBVIOUS
  <2>1. ASSUME NEW p \in Procs, ForfeitWrite(p) PROVE WinnerHasLoser'
    <3>1. req[p].slot \in Slots
      BY <2>1 DEF TypeInv, RequestOK, ForfeitWrite, At
    <3> QED BY <2>1, <3>1 DEF ForfeitWrite, WinnerHasLoser, Opponent
  <2>2. CASE UNCHANGED <<winner, loser>>
    BY <2>2 DEF WinnerHasLoser
  <2>3. ASSUME NEW p \in Users, UserRequest(p) PROVE UNCHANGED <<winner, loser>>
    BY <2>3 DEF UserRequest, MarkReady, Schedule, CheckIn, StartMatch, AdminTransition,
                ServerGoingLive, Forfeit, ProcessForfeit, ProcessDoubleForfeit, Arrive, row
  <2>4. ASSUME NEW p \in Procs, Statement(p), ~ForfeitWrite(p)
        PROVE  UNCHANGED <<winner, loser>>
    BY <2>4 DEF Statement, TransitionRead, TransitionWrite, TransitionLog, ScheduleWrite,
                CheckInRead, CheckInWrite, StartWrite, ForfeitRead, ForfeitRecord,
                DoubleRead, DoubleRecord, DoubleWrite, OpenDeadline, RepairWrite, row
  <2>5. CASE SweepPhase
    BY <2>2, <2>5 DEF SweepPhase, OpenCheckInWindow, RepairCheckInDeadline,
                      ProcessCheckInTimeout, Sweep, row
  <2>6. ASSUME NEW s \in Slots, AssignParticipant(s) PROVE UNCHANGED <<winner, loser>>
    BY <2>6 DEF AssignParticipant
  <2>7. CASE MarkPendingAsReadyBulk \/ CheckInLeadReached \/ DeadlinePasses
    BY <2>2, <2>7 DEF MarkPendingAsReadyBulk, CheckInLeadReached, DeadlinePasses
  <2>10. CASE RaiseDispute \/ ResolveRematch
    BY <2>10 DEF RaiseDispute, ResolveRematch, WinnerHasLoser
  <2>8. ASSUME NEW p \in Procs, Die(p) PROVE UNCHANGED <<winner, loser>>
    BY <2>8 DEF Die, row
  <2>9. CASE UNCHANGED vars
    BY <2>2, <2>9 DEF vars, row
  <2> QED BY <2>1, <2>2, <2>3, <2>4, <2>5, <2>6, <2>7, <2>8, <2>9, <2>10 DEF Next, Environment
<1> QED BY <1>1, <1>2, TypeCorrect, PTL DEF Spec

\* All of it together.
THEOREM RowStaysCoherent ==
    ASSUME "scheduled" \notin AdminTargets
    PROVE  Spec => []RowIsCoherent
BY TypeInvariant, ScheduledMatchHasTime, WinnerComesWithLoser, PTL DEF RowIsCoherent

-----------------------------------------------------------------------------
(* Requests that do not overlap *)

OneInFlight == \A p, q \in Procs : Idle(p) \/ Idle(q) \/ p = q

\* What a request has read still holds when it writes, except that the bulk
\* statement may have made a pending match ready.
ReadIsCurrent(p) ==
    req[p].from = status \/ (req[p].from = "pending" /\ status = "ready" /\ log = <<>>)

\* ForfeitService has recorded a forfeit and not yet written the status.
Forfeiting(p) ==
    \/ req[p].pc \in {"double_record2", "double_write"}
    \/ At(p, "forfeit_write") /\ req[p].op = "process_forfeit"

RequestHolds(p) ==
    /\ At(p, "transition_write")
         => can_transition_to(req[p].from, req[p].to) /\ ReadIsCurrent(p)
    /\ At(p, "transition_log") => status = req[p].to /\ req[p].to # "pending"
    /\ At(p, "start_write")
         => req[p].to = "in_progress" /\ can_start(status) /\ req[p].from = status
    /\ At(p, "forfeit_write") /\ req[p].op = "forfeit"
         => req[p].to = "forfeit" /\ can_forfeit(status) /\ req[p].from = status
    /\ req[p].pc \in {"check_in_read", "check_in_write"} => status = "checking_in"
    /\ req[p].pc \in {"forfeit_read", "forfeit_record"} => req[p].op = "process_forfeit"
    /\ Forfeiting(p) => forfeitRecords # {}

SerialInv ==
    /\ OneInFlight
    /\ \A p \in Procs : RequestHolds(p)
    /\ status = "pending" => log = <<>>
    /\ status \in {"pending", "ready", "scheduled"} => checkedIn = {}

Chained == \A i \in 1..(Len(log) - 1) : log[i].to = log[i + 1].from

LogEndsIn(s) == IF log = <<>> THEN s \in {"pending", "ready"} ELSE s = log[Len(log)].to

\* The request is about to write what log_transition will record, or has.
WillLog(p) ==
    \/ req[p].pc \in {"transition_write", "transition_log", "start_write"}
    \/ At(p, "forfeit_write") /\ req[p].op = "forfeit"

LogInv ==
    faults = 0 =>
        /\ Chained
        /\ IF forfeitRecords = {}
             THEN /\ \A p \in Procs : At(p, "transition_log") => LogEndsIn(req[p].from)
                  /\ (\A p \in Procs : ~At(p, "transition_log")) => LogEndsIn(status)
             ELSE \/ is_terminal(status) /\ \A p \in Procs : ~WillLog(p)
                  \/ \E p \in Procs : Forfeiting(p)

\* Somebody who completed the pair of check-ins is about to advance the match.
AdvanceInv ==
    faults = 0 /\ checkedIn = Slots /\ status = "checking_in" =>
        \E p \in Procs : /\ req[p].pc \in {"transition_read", "transition_write"}
                         /\ req[p].to \in {"pick_ban", "in_progress"}

\* The edges of the state machine the proof uses.
LEMMA Edges ==
    ASSUME NEW s \in TournamentMatchStatus, NEW t, can_transition_to(s, t)
    PROVE  /\ ~is_terminal(s) /\ t # "pending"
           /\ t = "ready" => s = "pending"
           /\ t = "scheduled" => s = "ready"
           /\ t = "checking_in" => s = "scheduled"
BY DEF can_transition_to, allowed_transitions, TournamentMatchStatus, is_terminal

\* A request is taken up only when nobody else is served.
LEMMA UserRequestAlone ==
    ASSUME Serial, TypeInv, NEW p \in Users, UserRequest(p)
    PROVE  /\ \A q \in Procs : Idle(q)
           /\ \A q \in Procs : q # p => req'[q] = req[q]
           /\ UNCHANGED <<row, log, faults>>
           /\ RequestHolds(p)' /\ ~At(p, "transition_log")'
           /\ req'[p].pc \in {"start_write", "forfeit_write"} => ~is_terminal(status)
           /\ ~At(p, "transition_write")'
<1> DEFINE Alone ==
    /\ \A q \in Procs : Idle(q)
    /\ \A q \in Procs : q # p => req'[q] = req[q]
    /\ UNCHANGED <<row, log, faults>>
    /\ RequestHolds(p)' /\ ~At(p, "transition_log")'
    /\ req'[p].pc \in {"start_write", "forfeit_write"} => ~is_terminal(status)
    /\ ~At(p, "transition_write")'
<1> USE DEF TypeInv, TypeOK, Arrive, Enter, Quiescent, RequestHolds, Forfeiting, At, row, is_terminal
<1>1. CASE MarkReady(p)
  BY <1>1 DEF MarkReady
<1>2. CASE Schedule(p)
  BY <1>2 DEF Schedule
<1>3. ASSUME NEW s \in Slots, CheckIn(p, s) PROVE Alone
  BY <1>3 DEF CheckIn
<1>4. CASE StartMatch(p)
  BY <1>4 DEF StartMatch, can_start
<1>5. ASSUME NEW t \in AdminTargets, AdminTransition(p, t) PROVE Alone
  BY <1>5 DEF AdminTransition
<1>6. CASE ServerGoingLive(p)
  BY <1>6 DEF ServerGoingLive
<1>7. ASSUME NEW s \in Slots, Forfeit(p, s) PROVE Alone
  BY <1>7 DEF Forfeit, can_forfeit
<1>8. ASSUME NEW s \in Slots, ProcessForfeit(p, s) PROVE Alone
  BY <1>8 DEF ProcessForfeit
<1>9. CASE ProcessDoubleForfeit(p)
  BY <1>9 DEF ProcessDoubleForfeit
<1> QED
  BY <1>1, <1>2, <1>3, <1>4, <1>5, <1>6, <1>7, <1>8, <1>9 DEF UserRequest

\* So is a phase of the background pass.
LEMMA SweepAlone ==
    ASSUME Serial, TypeInv, SweepPhase
    PROVE  /\ \A q \in Procs : Idle(q)
           /\ \A q \in Procs : q # Sweeper => req'[q] = req[q]
           /\ UNCHANGED <<row, log, faults>>
           /\ req'[Sweeper].pc \in {"open_deadline", "repair_write", "double_read",
                                    "forfeit_read"}
           /\ At(Sweeper, "forfeit_read")' => req'[Sweeper].op = "process_forfeit"
BY DEF At, SweepPhase, OpenCheckInWindow, RepairCheckInDeadline, ProcessCheckInTimeout, Sweep,
       Enter, Quiescent, TypeInv, TypeOK

\* A statement is run by a request in flight and concerns no other one.
LEMMA StatementOwnRequest ==
    ASSUME TypeInv, NEW p \in Procs, Statement(p)
    PROVE  ~Idle(p) /\ (\A q \in Procs : q # p => req'[q] = req[q]) /\ UNCHANGED faults
<1> USE DEF TypeInv, TypeOK, At, Idle, Continue, Finish
<1>1. CASE TransitionRead(p) \/ TransitionWrite(p) \/ TransitionLog(p)
  BY <1>1 DEF TransitionRead, TransitionWrite, TransitionLog
<1>2. CASE ScheduleWrite(p) \/ CheckInRead(p) \/ CheckInWrite(p) \/ StartWrite(p)
  BY <1>2 DEF ScheduleWrite, CheckInRead, CheckInWrite, StartWrite
<1>3. CASE ForfeitWrite(p) \/ ForfeitRead(p) \/ ForfeitRecord(p)
  BY <1>3 DEF ForfeitWrite, ForfeitRead, ForfeitRecord
<1>4. CASE \/ DoubleRead(p) \/ DoubleWrite(p)
           \/ DoubleRecord(p, 1, "double_record1", "double_record2")
           \/ DoubleRecord(p, 2, "double_record2", "double_write")
  BY <1>4 DEF DoubleRead, DoubleRecord, DoubleWrite
<1>5. CASE OpenDeadline(p) \/ RepairWrite(p)
  BY <1>5 DEF OpenDeadline, RepairWrite
<1> QED BY <1>1, <1>2, <1>3, <1>4, <1>5 DEF Statement

\* What the next statement of the request relies on, its last one left so.
LEMMA StatementHolds ==
    ASSUME TypeInv, SerialInv, NEW p \in Procs, Statement(p)
    PROVE  /\ RequestHolds(p)'
           /\ status' = "pending" => log' = <<>>
           /\ status' \in {"pending", "ready", "scheduled"} => checkedIn' = {}
<1> DEFINE Holds == /\ RequestHolds(p)'
                    /\ status' = "pending" => log' = <<>>
                    /\ status' \in {"pending", "ready", "scheduled"} => checkedIn' = {}
<1> USE DEF TypeInv, TypeOK, Requests, SerialInv, RequestHolds, Forfeiting, ReadIsCurrent, At,
        Continue, Finish, NoRequest, row
<1>1. CASE TransitionRead(p)
  BY <1>1 DEF TransitionRead
<1>2. CASE TransitionWrite(p)
  BY <1>2, Edges DEF TransitionWrite
<1>3. CASE TransitionLog(p)
  BY <1>3 DEF TransitionLog
<1>4. CASE ScheduleWrite(p) \/ CheckInRead(p)
  BY <1>4 DEF ScheduleWrite, CheckInRead
<1>5. CASE CheckInWrite(p)
  BY <1>5 DEF CheckInWrite
<1>6. CASE StartWrite(p)
  BY <1>6 DEF StartWrite
<1>7. CASE ForfeitWrite(p)
  BY <1>7 DEF ForfeitWrite
<1>8. CASE ForfeitRead(p) \/ ForfeitRecord(p)
  <2>1. ForfeitRecord(p) => req[p].slot \in forfeitRecords'
    BY DEF ForfeitRecord
  <2> QED BY <1>8, <2>1 DEF ForfeitRead, ForfeitRecord
<1>9. CASE \/ DoubleRead(p) \/ DoubleWrite(p)
           \/ DoubleRecord(p, 1, "double_record1", "double_record2")
           \/ DoubleRecord(p, 2, "double_record2", "double_write")
  <2>1. ASSUME NEW s, NEW l, NEW next, DoubleRecord(p, s, l, next)
        PROVE  s \in forfeitRecords'
    BY <2>1 DEF DoubleRecord
  <2>2. CASE DoubleRead(p) \/ DoubleWrite(p)
    BY <2>2 DEF DoubleRead, DoubleWrite
  <2>3. CASE DoubleRecord(p, 1, "double_record1", "double_record2")
    BY <2>1, <2>3 DEF DoubleRecord
  <2>4. CASE DoubleRecord(p, 2, "double_record2", "double_write")
    BY <2>1, <2>4 DEF DoubleRecord
  <2> QED BY <1>9, <2>2, <2>3, <2>4
<1>10. CASE OpenDeadline(p) \/ RepairWrite(p)
  BY <1>10 DEF OpenDeadline, RepairWrite
<1> QED
  BY <1>1, <1>2, <1>3, <1>4, <1>5, <1>6, <1>7, <1>8, <1>9, <1>10 DEF Statement

\* Served one at a time, and without rematches, requests keep the invariant.
LEMMA SerialStep ==
    ASSUME Serial, ~AllowRematch, TypeInv, SerialInv, [Next]_vars
    PROVE  SerialInv'
<1> USE DEF TypeInv, TypeOK, Idle
<1>1. ASSUME NEW p \in Users, UserRequest(p) PROVE SerialInv'
  <2>1. \A q \in Procs : q # p => req'[q].pc = "idle"
    BY <1>1, UserRequestAlone
  <2>2. \A q \in Procs : RequestHolds(q)'
    BY <1>1, <2>1, UserRequestAlone DEF RequestHolds, Forfeiting, At
  <2> QED BY <1>1, <2>1, <2>2, UserRequestAlone DEF SerialInv, OneInFlight, row
<1>2. ASSUME NEW p \in Procs, Statement(p) PROVE SerialInv'
  <2>1. \A q \in Procs : q # p => req'[q].pc = "idle"
    BY <1>2, StatementOwnRequest DEF SerialInv, OneInFlight
  <2>2. \A q \in Procs : RequestHolds(q)'
    BY <1>2, <2>1, StatementHolds DEF RequestHolds, Forfeiting, At
  <2> QED BY <1>2, <2>1, <2>2, StatementHolds DEF SerialInv, OneInFlight
<1>3. CASE SweepPhase
  <2>1. \A q \in Procs : q # Sweeper => req'[q].pc = "idle"
    BY <1>3, SweepAlone
  <2>2. \A q \in Procs : RequestHolds(q)'
    BY <1>3, <2>1, SweepAlone DEF RequestHolds, Forfeiting, At
  <2> QED BY <1>3, <2>1, <2>2, SweepAlone DEF SerialInv, OneInFlight, row
<1>4. CASE Environment
  <2>1. CASE CheckInLeadReached \/ DeadlinePasses
    BY <2>1 DEF CheckInLeadReached, DeadlinePasses, SerialInv, OneInFlight, RequestHolds,
                Forfeiting, ReadIsCurrent, At
  <2>2. ASSUME NEW s \in Slots, AssignParticipant(s) PROVE SerialInv'
    BY <2>2 DEF AssignParticipant, SerialInv, OneInFlight, RequestHolds,
              Forfeiting, ReadIsCurrent, At
  <2>3. CASE MarkPendingAsReadyBulk
    <3>1. /\ status = "pending" /\ status' = "ready"
          /\ UNCHANGED <<req, log, checkedIn, forfeitRecords>>
      BY <2>3 DEF MarkPendingAsReadyBulk
    <3>2. \A q \in Procs : RequestHolds(q)'
      BY <3>1 DEF SerialInv, RequestHolds, Forfeiting, ReadIsCurrent, At,
                    can_start, can_forfeit
    <3> QED BY <3>1, <3>2 DEF SerialInv, OneInFlight
  <2> QED BY <1>4, <2>1, <2>2, <2>3 DEF Environment, RaiseDispute, ResolveRematch
<1>5. ASSUME NEW p \in Procs, Die(p) PROVE SerialInv'
  BY <1>5 DEF Die, Finish, NoRequest, SerialInv, OneInFlight, RequestHolds, Forfeiting,
              ReadIsCurrent, At, row
<1>6. CASE UNCHANGED vars
  BY <1>6 DEF vars, row, SerialInv, OneInFlight, RequestHolds,
              Forfeiting, ReadIsCurrent, At
<1> QED BY <1>1, <1>2, <1>3, <1>4, <1>5, <1>6 DEF Next

\* One request at a time is an invariant of a serial scenario.
LEMMA SerialAlways == ASSUME Serial, ~AllowRematch PROVE Spec => []SerialInv
<1>1. Init => SerialInv
  BY DEF Init, SerialInv, OneInFlight, Idle, NoRequest, RequestHolds, Forfeiting, At
<1>2. TypeInv /\ SerialInv /\ [Next]_vars => SerialInv'
  BY SerialStep
<1> QED BY <1>1, <1>2, TypeCorrect, PTL DEF Spec

-----------------------------------------------------------------------------
(* The audit log *)

\* A statement of the only request in flight keeps the log a chain.
LEMMA StatementLogs ==
    ASSUME TypeInv, SerialInv, LogInv, faults = 0, NEW p \in Procs, Statement(p),
           \A q \in Procs : q # p => req[q].pc = "idle" /\ req'[q].pc = "idle"
    PROVE  LogInv'
<1> USE DEF TypeInv, TypeOK, Requests, LogInv, WillLog, Forfeiting, LogEndsIn, At, row
<1>1. ASSUME UNCHANGED <<status, forfeitRecords, log>>, ~At(p, "transition_log"),
             ~Forfeiting(p), ~WillLog(p)'
      PROVE  LogInv'
  BY <1>1 DEF Chained
<1>2. ASSUME UNCHANGED <<forfeitRecords, log>>,
             At(p, "transition_write") \/ At(p, "start_write")
                \/ (At(p, "forfeit_write") /\ req[p].op = "forfeit"),
             At(p, "transition_log")', req'[p].from = req[p].from
      PROVE  LogInv'
  <2>1. forfeitRecords = {} /\ LogEndsIn(status)
    BY <1>2
  <2>2. LogEndsIn(req[p].from)
    BY <1>2, <2>1 DEF SerialInv, RequestHolds, ReadIsCurrent
  <2> QED BY <1>2, <2>1, <2>2 DEF Chained
<1>3. ASSUME UNCHANGED log, forfeitRecords' # {},
             (is_terminal(status') /\ ~WillLog(p)') \/ Forfeiting(p)'
      PROVE  LogInv'
  BY <1>3 DEF Chained
<1>4. CASE TransitionRead(p)
  <2>1. CASE ~can_transition_to(status, req[p].to)
    BY <1>1, <1>4, <2>1 DEF TransitionRead, Finish, NoRequest
  <2>2. CASE can_transition_to(status, req[p].to)
    <3>1. ~is_terminal(status)
      BY <2>2, Edges
    <3>2. forfeitRecords = {} /\ LogEndsIn(status)
      BY <1>4, <3>1 DEF TransitionRead
    <3> QED BY <1>4, <2>2, <3>2 DEF TransitionRead, Chained
  <2> QED BY <2>1, <2>2
<1>5. CASE TransitionWrite(p) \/ StartWrite(p)
  BY <1>2, <1>5 DEF TransitionWrite, StartWrite, Continue
<1>6. CASE TransitionLog(p)
  <2>1. forfeitRecords = {} /\ LogEndsIn(req[p].from) /\ status = req[p].to
    BY <1>6 DEF TransitionLog, SerialInv, RequestHolds
  <2>2. /\ Len(log') = Len(log) + 1 /\ log' # <<>> /\ Len(log) \in Nat
        /\ log'[Len(log')] = [from |-> req[p].from, to |-> req[p].to]
        /\ \A i \in 1..Len(log) : log'[i] = log[i]
    BY <1>6 DEF TransitionLog
  <2>3. Chained'
    <3> SUFFICES ASSUME NEW i \in 1..(Len(log') - 1) PROVE log'[i].to = log'[i + 1].from
      BY DEF Chained
    <3>1. CASE i = Len(log)
      BY <2>1, <2>2, <3>1
    <3>2. CASE i # Len(log)
      BY <2>2, <3>2 DEF Chained
    <3> QED BY <3>1, <3>2
  <2>4. LogEndsIn(status)' /\ forfeitRecords' = {} /\ ~At(p, "transition_log")'
    BY <1>6, <2>1, <2>2 DEF TransitionLog, Continue, Finish, NoRequest
  <2> QED BY <2>3, <2>4
<1>7. CASE ScheduleWrite(p) \/ CheckInRead(p)
  BY <1>1, <1>7 DEF ScheduleWrite, CheckInRead, Continue, Finish, NoRequest
<1>8. CASE CheckInWrite(p) \/ OpenDeadline(p) \/ RepairWrite(p)
  BY <1>1, <1>8 DEF CheckInWrite, OpenDeadline, RepairWrite, Continue, Finish, NoRequest
<1>9. CASE ForfeitWrite(p)
  <2>1. CASE req[p].op = "forfeit"
    BY <1>2, <1>9, <2>1 DEF ForfeitWrite, Continue
  <2>2. CASE req[p].op # "forfeit"
    <3>1. forfeitRecords # {}
      BY <1>9, <2>2 DEF ForfeitWrite, RequestOK, SerialInv, RequestHolds
    <3> QED BY <1>3, <1>9, <2>2, <3>1 DEF ForfeitWrite, Finish, NoRequest, is_terminal
  <2> QED BY <2>1, <2>2
<1>10. CASE ForfeitRead(p) \/ DoubleRead(p)
  BY <1>1, <1>10 DEF ForfeitRead, DoubleRead, Continue, Finish, NoRequest
<1>11. CASE ForfeitRecord(p)
  <2>1. req[p].slot \in forfeitRecords'
    BY <1>11 DEF ForfeitRecord
  <2>2. forfeitRecords' # {} /\ UNCHANGED log
    BY <1>11, <2>1 DEF ForfeitRecord
  <2>3. req[p].op = "process_forfeit"
    BY <1>11 DEF ForfeitRecord, SerialInv, RequestHolds
  <2>4. Forfeiting(p)'
    BY <1>11, <2>3 DEF ForfeitRecord, Continue
  <2> QED BY <1>3, <2>2, <2>4
<1>12. CASE \/ DoubleRecord(p, 1, "double_record1", "double_record2")
            \/ DoubleRecord(p, 2, "double_record2", "double_write")
  <2>1. ASSUME NEW s, NEW l, NEW next, DoubleRecord(p, s, l, next)
        PROVE  s \in forfeitRecords'
    BY <2>1 DEF DoubleRecord
  <2>2. forfeitRecords' # {} /\ UNCHANGED log
    BY <1>12, <2>1 DEF DoubleRecord
  <2>3. Forfeiting(p)'
    BY <1>12 DEF DoubleRecord, Continue
  <2> QED BY <1>3, <2>2, <2>3
<1>13. CASE DoubleWrite(p)
  <2>1. forfeitRecords # {}
    BY <1>13 DEF DoubleWrite, SerialInv, RequestHolds
  <2> QED BY <1>3, <1>13, <2>1 DEF DoubleWrite, Finish, NoRequest, is_terminal
<1> QED
  BY <1>4, <1>5, <1>6, <1>7, <1>8, <1>9, <1>10, <1>11, <1>12, <1>13 DEF Statement

\* Every step explains in the log what it does to the status.
LEMMA LogStep ==
    ASSUME Serial, ~AllowRematch, TypeInv, SerialInv, LogInv, [Next]_vars
    PROVE  LogInv'
<1> USE DEF TypeInv, TypeOK, Idle
<1>1. CASE faults' # 0
  BY <1>1 DEF LogInv
<1>2. ASSUME NEW p \in Users, UserRequest(p) PROVE LogInv'
  BY <1>2, UserRequestAlone DEF LogInv, Chained, LogEndsIn, WillLog, Forfeiting, At, row
<1>3. ASSUME NEW p \in Procs, Statement(p), faults' = 0 PROVE LogInv'
  <2>1. \A q \in Procs : q # p => req[q].pc = "idle" /\ req'[q].pc = "idle"
    BY <1>3, StatementOwnRequest DEF SerialInv, OneInFlight
  <2> QED BY <1>3, <2>1, StatementOwnRequest, StatementLogs
<1>4. CASE SweepPhase
  BY <1>4, SweepAlone DEF LogInv, Chained, LogEndsIn, WillLog, Forfeiting, At, row
<1>5. CASE CheckInLeadReached \/ DeadlinePasses \/ UNCHANGED vars
  BY <1>5 DEF CheckInLeadReached, DeadlinePasses, vars, row, LogInv, Chained, LogEndsIn,
              WillLog, Forfeiting, At
<1>6. ASSUME NEW s \in Slots, AssignParticipant(s) PROVE LogInv'
  BY <1>6 DEF AssignParticipant, LogInv, Chained, LogEndsIn, WillLog, Forfeiting, At
<1>7. CASE MarkPendingAsReadyBulk
  BY <1>7 DEF MarkPendingAsReadyBulk, SerialInv, LogInv, Chained, LogEndsIn, WillLog,
              Forfeiting, At, is_terminal
<1>8. ASSUME NEW p \in Procs, Die(p) PROVE faults' # 0
  BY <1>8 DEF Die
<1> QED
  BY <1>1, <1>2, <1>3, <1>4, <1>5, <1>6, <1>7, <1>8 DEF Next, Environment, RaiseDispute,
     ResolveRematch

\* Served one at a time, with no request that died half-way and no rematch, the
\* rows of match_status_log follow on one another and the last one names the
\* status of the match: the log explains it.
THEOREM LogExplainsTheStatus ==
    ASSUME Serial, ~AllowRematch
    PROVE  Spec => []LogExplainsStatus
<1>1. Init => LogInv
  BY DEF Init, LogInv, Chained, LogEndsIn, At, NoRequest
<1>2. TypeInv /\ SerialInv /\ LogInv /\ [Next]_vars => LogInv'
  BY LogStep
<1>3. LogInv => LogExplainsStatus
  BY DEF LogInv, LogExplainsStatus, LogEndsInStatus, LogEndsIn, Chained, Quiescent, Idle, At
<1> QED BY <1>1, <1>2, <1>3, TypeCorrect, SerialAlways, PTL DEF Spec

-----------------------------------------------------------------------------
(* Two check-ins *)

\* Served one at a time, with no request that died half-way and no rematch, two
\* recorded check-ins never leave the match waiting in checking_in.
THEOREM SecondCheckInAdvances ==
    ASSUME Serial, ~AllowRematch
    PROVE  Spec => []NoLostAdvance
<1>1. Init => AdvanceInv
  BY DEF Init, AdvanceInv
<1>2. TypeInv /\ SerialInv /\ AdvanceInv /\ [Next]_vars => AdvanceInv'
  <2> SUFFICES ASSUME TypeInv, SerialInv, AdvanceInv, [Next]_vars, faults' = 0
               PROVE  AdvanceInv'
    BY DEF AdvanceInv
  <2> USE DEF TypeInv, TypeOK, Requests, AdvanceInv
  <2>1. ASSUME NEW p \in Users, UserRequest(p) PROVE AdvanceInv'
    BY <2>1, UserRequestAlone DEF row, Idle
  <2>2. ASSUME NEW p \in Procs, Statement(p) PROVE AdvanceInv'
    <3>1. faults = 0 /\ \A q \in Procs : q # p => req[q].pc = "idle"
      BY <2>2, StatementOwnRequest DEF SerialInv, OneInFlight, Idle
    <3> USE DEF At, Continue, Finish, NoRequest, row
    <3>2. CASE TransitionRead(p)
      <4>1. CASE status = "checking_in" /\ req[p].to \in {"pick_ban", "in_progress"}
        <5>1. can_transition_to(status, req[p].to)
          BY <4>1 DEF can_transition_to, allowed_transitions
        <5> QED BY <3>2, <4>1, <5>1 DEF TransitionRead
      <4> QED BY <3>1, <3>2, <4>1 DEF TransitionRead
    <3>3. CASE TransitionWrite(p)
      BY <3>1, <3>3, Edges DEF TransitionWrite, SerialInv, RequestHolds, ReadIsCurrent
    <3>4. CASE TransitionLog(p) \/ ScheduleWrite(p) \/ CheckInRead(p)
      BY <3>1, <3>4 DEF TransitionLog, ScheduleWrite, CheckInRead
    <3>5. CASE CheckInWrite(p)
      BY <3>1, <3>5, LifecycleAssumption DEF CheckInWrite, LifecycleAssumption
    <3>6. CASE StartWrite(p) \/ ForfeitWrite(p) \/ DoubleWrite(p)
      BY <3>6 DEF StartWrite, ForfeitWrite, DoubleWrite
    <3>7. CASE ForfeitRead(p) \/ ForfeitRecord(p) \/ DoubleRead(p)
      BY <3>1, <3>7 DEF ForfeitRead, ForfeitRecord, DoubleRead
    <3>8. CASE \/ DoubleRecord(p, 1, "double_record1", "double_record2")
               \/ DoubleRecord(p, 2, "double_record2", "double_write")
      BY <3>1, <3>8 DEF DoubleRecord
    <3>9. CASE OpenDeadline(p) \/ RepairWrite(p)
      BY <3>1, <3>9 DEF OpenDeadline, RepairWrite
    <3> QED
      BY <2>2, <3>2, <3>3, <3>4, <3>5, <3>6, <3>7, <3>8, <3>9 DEF Statement
  <2>3. CASE SweepPhase
    BY <2>3, SweepAlone DEF row, Idle
  <2>4. CASE CheckInLeadReached \/ DeadlinePasses \/ UNCHANGED vars
    BY <2>4 DEF CheckInLeadReached, DeadlinePasses, vars, row
  <2>5. ASSUME NEW s \in Slots, AssignParticipant(s) PROVE AdvanceInv'
    BY <2>5 DEF AssignParticipant
  <2>6. CASE MarkPendingAsReadyBulk
    BY <2>6 DEF MarkPendingAsReadyBulk
  <2>7. ASSUME NEW p \in Procs, Die(p) PROVE FALSE
    BY <2>7 DEF Die
  <2> QED
    BY <2>1, <2>2, <2>3, <2>4, <2>5, <2>6, <2>7 DEF Next, Environment, RaiseDispute,
       ResolveRematch
<1>3. AdvanceInv => NoLostAdvance
  BY DEF AdvanceInv, NoLostAdvance, Quiescent, Idle
<1> QED BY <1>1, <1>2, <1>3, TypeCorrect, SerialAlways, PTL DEF Spec

=============================================================================
