--------------------------- MODULE MatchLifecycle ---------------------------
(***************************************************************************)
(* One tournament match row and the requests that move it through its      *)
(* lifecycle: MatchLifecycleService, ForfeitService and the check-in       *)
(* phases of the background lifecycle pass.                                *)
(*                                                                         *)
(* Every service method is a sequence of separate database statements on   *)
(* autocommit: it reads the row, decides on that snapshot, and then writes *)
(* with `UPDATE ... WHERE id = $1`.  Each statement is one action here, so *)
(* other requests interleave exactly where they can in the program, and a  *)
(* request may die (crash, database error) between any two of them.        *)
(*                                                                         *)
(* A request that a guard rejects changes nothing; such a request is a     *)
(* stuttering step and has no action.                                      *)
(***************************************************************************)
EXTENDS MatchStatus, Naturals, Sequences

CONSTANTS
    Users,              \* HTTP request handlers that may run at the same time
    Sweeper,            \* the background lifecycle task (there is one)
    VetoRequired,       \* tournament_matches.veto_required
    AdminTargets,       \* statuses an admin may force (admin_transition)
    AdminDoubleForfeit, \* whether admins use the double-forfeit endpoint
    AllowRematch,       \* whether results are disputed and rematches ordered
    Serial,             \* TRUE: requests never overlap
    MaxRequests,        \* bound on the number of user requests
    MaxFaults           \* bound on the number of requests that die half-way

ASSUME LifecycleAssumption ==
    /\ Sweeper \notin Users
    /\ VetoRequired \in BOOLEAN
    /\ AdminTargets \subseteq TournamentMatchStatus
    /\ AdminDoubleForfeit \in BOOLEAN
    /\ AllowRematch \in BOOLEAN
    /\ Serial \in BOOLEAN
    /\ MaxRequests \in Nat
    /\ MaxFaults \in Nat

Procs == Users \cup {Sweeper}

\* ParticipantSlot::One and ParticipantSlot::Two; 0 stands for NULL.
Slots == {1, 2}

\* The other participant of the match.
Opponent(s) == 3 - s

VARIABLES
    status,         \* tournament_matches.status
    participants,   \* the slots whose registration id is set
    scheduledAt,    \* scheduled_at: NULL, in the future, or within the check-in lead
    deadline,       \* check_in_deadline: NULL, in the future, or past
    checkedIn,      \* the slots whose checked_in_at is set
    startedAt,      \* whether started_at is set
    winner,         \* winner_registration_id, as a slot
    loser,          \* loser_registration_id, as a slot
    forfeitRecords, \* the slots with a row in forfeit_records
    log,            \* match_status_log, oldest row first
    req,            \* the state of each request in flight
    requests,       \* number of user requests accepted so far
    faults          \* number of requests that died

row == <<status, participants, scheduledAt, deadline, checkedIn, startedAt,
         winner, loser, forfeitRecords>>
vars == <<row, log, req, requests, faults>>

Ops == {"none", "mark_ready", "schedule", "check_in", "start", "admin", "server",
        "forfeit", "process_forfeit", "double_forfeit", "open_window", "repair"}

PCs == {"idle", "transition_read", "transition_write", "transition_log",
        "schedule_write", "check_in_read", "check_in_write", "start_write",
        "forfeit_read", "forfeit_record", "forfeit_write", "double_read",
        "double_record1", "double_record2", "double_write",
        "open_deadline", "repair_write"}

\* A request: the operation, the next statement it runs, the slot it is about,
\* the status it is moving to and the status it read.
Requests == [op : Ops, pc : PCs, slot : 0..2,
             to : TournamentMatchStatus, from : TournamentMatchStatus]

NoRequest == [op |-> "none", pc |-> "idle", slot |-> 0,
              to |-> "pending", from |-> "pending"]

Idle(p) == req[p].pc = "idle"
Quiescent == \A p \in Procs : Idle(p)

Init ==
    /\ status = "pending" /\ participants = {}
    /\ scheduledAt = "null" /\ deadline = "null"
    /\ checkedIn = {} /\ startedAt = FALSE
    /\ winner = 0 /\ loser = 0
    /\ forfeitRecords = {} /\ log = <<>>
    /\ req = [p \in Procs |-> NoRequest]
    /\ requests = 0 /\ faults = 0

-----------------------------------------------------------------------------
(* Bookkeeping of requests *)

At(p, l) == req[p].pc = l

Continue(p, l) == req' = [req EXCEPT ![p].pc = l]

Finish(p) == req' = [req EXCEPT ![p] = NoRequest]

\* Process p takes up a request and stops before the statement named l.
Enter(p, o, l, s, to) ==
    /\ Idle(p)
    /\ Serial => Quiescent
    /\ req' = [req EXCEPT ![p] = [op |-> o, pc |-> l, slot |-> s,
                                  to |-> to, from |-> status]]

\* A user request arrives; what it reads first is in the action that calls this.
Arrive(p, o, l, s, to) ==
    /\ p \in Users
    /\ requests < MaxRequests
    /\ requests' = requests + 1
    /\ Enter(p, o, l, s, to)
    /\ UNCHANGED <<row, log, faults>>

-----------------------------------------------------------------------------
(* MatchLifecycleService::transition: read and validate, write blindly, log *)

TransitionRead(p) ==
    /\ At(p, "transition_read")
    /\ IF can_transition_to(status, req[p].to)
         THEN req' = [req EXCEPT ![p].pc = "transition_write", ![p].from = status]
         ELSE Finish(p)
    /\ UNCHANGED <<row, log, requests, faults>>

TransitionWrite(p) ==
    /\ At(p, "transition_write")
    /\ status' = req[p].to
    /\ Continue(p, "transition_log")
    /\ UNCHANGED <<participants, scheduledAt, deadline, checkedIn, startedAt,
                   winner, loser, forfeitRecords, log, requests, faults>>

\* Mutant: the two columns of the log row are swapped.
TransitionLogSwapped(p) ==
    /\ At(p, "transition_log")
    /\ log' = Append(log, [from |-> req[p].to, to |-> req[p].from])
    /\ IF req[p].op = "check_in" /\ req[p].to = "checking_in"
         THEN Continue(p, "check_in_read")
         ELSE Finish(p)
    /\ UNCHANGED <<row, requests, faults>>

\* log_transition: the row carries the status that was read, not the one
\* that was overwritten.  A check-in goes on after it opened the window.
TransitionLog(p) ==
    /\ At(p, "transition_log")
    /\ log' = Append(log, [from |-> req[p].from, to |-> req[p].to])
    /\ IF req[p].op = "check_in" /\ req[p].to = "checking_in"
         THEN Continue(p, "check_in_read")
         ELSE Finish(p)
    /\ UNCHANGED <<row, requests, faults>>

-----------------------------------------------------------------------------
(* User operations of MatchLifecycleService *)

MarkReady(p) ==
    /\ status = "pending"
    /\ participants = Slots
    /\ Arrive(p, "mark_ready", "transition_read", 0, "ready")

\* Mutant: the status moves first and scheduled_at is left for later.
ScheduleStatusFirst(p) ==
    /\ can_schedule(status)
    /\ Arrive(p, "schedule", "transition_read", 0, "scheduled")

\* schedule: only a ready match; the time is written before the status moves.
Schedule(p) ==
    /\ can_schedule(status)
    /\ Arrive(p, "schedule", "schedule_write", 0, "scheduled")

\* match_repo.schedule: scheduled_at only; the status follows in transition.
ScheduleWrite(p) ==
    /\ At(p, "schedule_write")
    /\ scheduledAt' = "future"
    /\ Continue(p, "transition_read")
    /\ UNCHANGED <<status, participants, deadline, checkedIn, startedAt, winner,
                   loser, forfeitRecords, log, requests, faults>>

CheckIn(p, s) ==
    /\ s \in participants
    /\ \/ /\ status = "scheduled"
          /\ Arrive(p, "check_in", "transition_read", s, "checking_in")
       \/ /\ status = "checking_in"
          /\ Arrive(p, "check_in", "check_in_read", s, "checking_in")

\* The re-fetch: a side that is already in is done.
CheckInRead(p) ==
    /\ At(p, "check_in_read")
    /\ IF req[p].slot \in checkedIn THEN Finish(p) ELSE Continue(p, "check_in_write")
    /\ UNCHANGED <<row, log, requests, faults>>

\* Mutant: both_checked_in is asked of the row as it was before the update.
CheckInWriteStale(p) ==
    /\ At(p, "check_in_write")
    /\ checkedIn' = checkedIn \cup {req[p].slot}
    /\ IF checkedIn = Slots
         THEN req' = [req EXCEPT ![p].pc = "transition_read",
                                 ![p].to = IF VetoRequired THEN "pick_ban"
                                                           ELSE "in_progress"]
         ELSE Finish(p)
    /\ UNCHANGED <<status, participants, scheduledAt, deadline, startedAt, winner,
                   loser, forfeitRecords, log, requests, faults>>

\* check_in_participant returns the row as written, the other side included;
\* whoever completes the pair advances the match.
CheckInWrite(p) ==
    /\ At(p, "check_in_write")
    /\ checkedIn' = checkedIn \cup {req[p].slot}
    /\ IF checkedIn' = Slots
         THEN req' = [req EXCEPT ![p].pc = "transition_read",
                                 ![p].to = IF VetoRequired THEN "pick_ban"
                                                           ELSE "in_progress"]
         ELSE Finish(p)
    /\ UNCHANGED <<status, participants, scheduledAt, deadline, startedAt, winner,
                   loser, forfeitRecords, log, requests, faults>>

StartMatch(p) ==
    /\ can_start(status)
    /\ Arrive(p, "start", "start_write", 0, "in_progress")

StartWrite(p) ==
    /\ At(p, "start_write")
    /\ status' = "in_progress"
    /\ startedAt' = TRUE
    /\ Continue(p, "transition_log")
    /\ UNCHANGED <<participants, scheduledAt, deadline, checkedIn, winner, loser,
                   forfeitRecords, log, requests, faults>>

\* admin_transition validates on its own read and then calls transition.
AdminTransition(p, t) ==
    /\ can_transition_to(status, t)
    /\ Arrive(p, "admin", "transition_read", 0, t)

\* The game server's going_live event: transition to in_progress, refusal tolerated.
ServerGoingLive(p) == Arrive(p, "server", "transition_read", 0, "in_progress")

\* MatchLifecycleService::forfeit, a participant conceding.
Forfeit(p, s) ==
    /\ can_forfeit(status)
    /\ participants = Slots
    /\ Arrive(p, "forfeit", "forfeit_write", s, "forfeit")

\* match_repo.forfeit.  The lifecycle service logs afterwards; ForfeitService,
\* which reaches the same statement, does not.
ForfeitWrite(p) ==
    /\ At(p, "forfeit_write")
    /\ status' = "forfeit"
    /\ winner' = Opponent(req[p].slot)
    /\ loser' = req[p].slot
    /\ IF req[p].op = "forfeit" THEN Continue(p, "transition_log") ELSE Finish(p)
    /\ UNCHANGED <<participants, scheduledAt, deadline, checkedIn, startedAt,
                   forfeitRecords, log, requests, faults>>

-----------------------------------------------------------------------------
(* ForfeitService *)

\* process_forfeit, called by the admin endpoint, withdrawal and disqualification.
ProcessForfeit(p, s) == Arrive(p, "process_forfeit", "forfeit_read", s, "forfeit")

\* validate_can_forfeit and determine_winner, on a read of the match.
ForfeitRead(p) ==
    /\ At(p, "forfeit_read")
    /\ IF can_forfeit(status) /\ participants = Slots
         THEN Continue(p, "forfeit_record")
         ELSE Finish(p)
    /\ UNCHANGED <<row, log, requests, faults>>

\* forfeit_repo.create: idempotent insert (ON CONFLICT DO NOTHING).
ForfeitRecord(p) ==
    /\ At(p, "forfeit_record")
    /\ forfeitRecords' = forfeitRecords \cup {req[p].slot}
    /\ Continue(p, "forfeit_write")
    /\ UNCHANGED <<status, participants, scheduledAt, deadline, checkedIn, startedAt,
                   winner, loser, log, requests, faults>>

ProcessDoubleForfeit(p) ==
    /\ AdminDoubleForfeit
    /\ Arrive(p, "double_forfeit", "double_read", 0, "cancelled")

\* No status is refused here: only an already cancelled match with a record
\* returns early.
DoubleRead(p) ==
    /\ At(p, "double_read")
    /\ IF participants # Slots \/ (status = "cancelled" /\ forfeitRecords # {})
         THEN Finish(p)
         ELSE Continue(p, "double_record1")
    /\ UNCHANGED <<row, log, requests, faults>>

DoubleRecord(p, s, l, next) ==
    /\ At(p, l)
    /\ forfeitRecords' = forfeitRecords \cup {s}
    /\ Continue(p, next)
    /\ UNCHANGED <<status, participants, scheduledAt, deadline, checkedIn, startedAt,
                   winner, loser, log, requests, faults>>

DoubleWrite(p) ==
    /\ At(p, "double_write")
    /\ status' = "cancelled"
    /\ Finish(p)
    /\ UNCHANGED <<participants, scheduledAt, deadline, checkedIn, startedAt, winner,
                   loser, forfeitRecords, log, requests, faults>>

-----------------------------------------------------------------------------
(* The background lifecycle pass *)

\* A sweep phase lists the match (the list query is its read) and starts on it.
Sweep(o, l, s, to) ==
    /\ Enter(Sweeper, o, l, s, to)
    /\ UNCHANGED <<row, log, requests, faults>>

OpenCheckInWindow ==
    /\ status = "scheduled"
    /\ scheduledAt = "due"
    /\ Sweep("open_window", "open_deadline", 0, "checking_in")

\* set_check_in_deadline comes before the transition (see the source comment).
OpenDeadline(p) ==
    /\ At(p, "open_deadline")
    /\ deadline' = "future"
    /\ Continue(p, "transition_read")
    /\ UNCHANGED <<status, participants, scheduledAt, checkedIn, startedAt, winner,
                   loser, forfeitRecords, log, requests, faults>>

\* Mutant: the repair looks for scheduled matches without a deadline.
RepairWrongStatus ==
    /\ status = "scheduled"
    /\ deadline = "null"
    /\ Sweep("repair", "repair_write", 0, "checking_in")

\* list_checkin_missing_deadline: a check-in that opened its own window (or an
\* admin) left the match without a deadline.
RepairCheckInDeadline ==
    /\ status = "checking_in"
    /\ deadline = "null"
    /\ Sweep("repair", "repair_write", 0, "checking_in")

RepairWrite(p) ==
    /\ At(p, "repair_write")
    /\ deadline' = "future"
    /\ Finish(p)
    /\ UNCHANGED <<status, participants, scheduledAt, checkedIn, startedAt, winner,
                   loser, forfeitRecords, log, requests, faults>>

\* process_check_in_timeout: nobody in - double forfeit; one side in - the
\* other is a no-show; both in - logged and left alone.
ProcessCheckInTimeout ==
    /\ status = "checking_in"
    /\ deadline = "past"
    /\ \/ /\ checkedIn = {}
          /\ Sweep("double_forfeit", "double_read", 0, "cancelled")
       \/ \E s \in Slots :
            /\ checkedIn = {Opponent(s)}
            /\ s \in participants
            /\ Sweep("process_forfeit", "forfeit_read", s, "forfeit")

-----------------------------------------------------------------------------
(* The environment: bracket progression, time, and failures *)

\* assign_participant, by the bracket generator or the completion saga.
AssignParticipant(s) ==
    /\ s \notin participants
    /\ participants' = participants \cup {s}
    /\ UNCHANGED <<status, scheduledAt, deadline, checkedIn, startedAt, winner, loser,
                   forfeitRecords, log, req, requests, faults>>

\* mark_pending_as_ready_bulk, after the bracket generator filled both slots:
\* one guarded statement, and no log row.
MarkPendingAsReadyBulk ==
    /\ status = "pending"
    /\ participants = Slots
    /\ status' = "ready"
    /\ UNCHANGED <<participants, scheduledAt, deadline, checkedIn, startedAt, winner,
                   loser, forfeitRecords, log, req, requests, faults>>

\* raise_atomic: a claim of a live match is disputed.  The dispute rows and the
\* races around them are the subject of ResultClaims.
RaiseDispute ==
    /\ AllowRematch /\ (Serial => Quiescent)
    /\ can_submit_result(status)
    /\ status' = "disputed"
    /\ UNCHANGED <<participants, scheduledAt, deadline, checkedIn, startedAt, winner,
                   loser, forfeitRecords, log, req, requests, faults>>

\* resolve_rematch: the match is ready again and its result is cleared; the
\* check-ins, the time and the deadline stay as they were.
ResolveRematch ==
    /\ AllowRematch /\ (Serial => Quiescent)
    /\ status = "disputed"
    /\ status' = "ready" /\ winner' = 0 /\ loser' = 0
    /\ UNCHANGED <<participants, scheduledAt, deadline, checkedIn, startedAt,
                   forfeitRecords, log, req, requests, faults>>

\* scheduled_at comes within the check-in lead of the pass.
CheckInLeadReached ==
    /\ scheduledAt = "future"
    /\ scheduledAt' = "due"
    /\ UNCHANGED <<status, participants, deadline, checkedIn, startedAt, winner, loser,
                   forfeitRecords, log, req, requests, faults>>

DeadlinePasses ==
    /\ deadline = "future"
    /\ deadline' = "past"
    /\ UNCHANGED <<status, participants, scheduledAt, checkedIn, startedAt, winner,
                   loser, forfeitRecords, log, req, requests, faults>>

\* A crash or a database error ends a request between two of its statements.
Die(p) ==
    /\ ~Idle(p)
    /\ faults < MaxFaults
    /\ faults' = faults + 1
    /\ Finish(p)
    /\ UNCHANGED <<row, log, requests>>

UserRequest(p) ==
    \/ MarkReady(p)
    \/ Schedule(p)
    \/ \E s \in Slots : CheckIn(p, s)
    \/ StartMatch(p)
    \/ \E t \in AdminTargets : AdminTransition(p, t)
    \/ ServerGoingLive(p)
    \/ \E s \in Slots : Forfeit(p, s)
    \/ \E s \in Slots : ProcessForfeit(p, s)
    \/ ProcessDoubleForfeit(p)

\* The statement a request in flight runs next.
Statement(p) ==
    \/ TransitionRead(p)
    \/ TransitionWrite(p)
    \/ TransitionLog(p)
    \/ ScheduleWrite(p)
    \/ CheckInRead(p)
    \/ CheckInWrite(p)
    \/ StartWrite(p)
    \/ ForfeitWrite(p)
    \/ ForfeitRead(p)
    \/ ForfeitRecord(p)
    \/ DoubleRead(p)
    \/ DoubleRecord(p, 1, "double_record1", "double_record2")
    \/ DoubleRecord(p, 2, "double_record2", "double_write")
    \/ DoubleWrite(p)
    \/ OpenDeadline(p)
    \/ RepairWrite(p)

SweepPhase ==
    \/ OpenCheckInWindow
    \/ RepairCheckInDeadline
    \/ ProcessCheckInTimeout

Environment ==
    \/ \E s \in Slots : AssignParticipant(s)
    \/ MarkPendingAsReadyBulk
    \/ RaiseDispute
    \/ ResolveRematch
    \/ CheckInLeadReached
    \/ DeadlinePasses

Next ==
    \/ \E p \in Users : UserRequest(p)
    \/ \E p \in Procs : Statement(p)
    \/ SweepPhase
    \/ Environment
    \/ \E p \in Procs : Die(p)

Spec == Init /\ [][Next]_vars

\* A request taken up runs on; the pass ticks for ever; time passes.  Nothing
\* is assumed of users, and deaths are not required to happen.
Fairness ==
    /\ \A p \in Procs : WF_vars(Statement(p))
    /\ WF_vars(OpenCheckInWindow)
    /\ WF_vars(RepairCheckInDeadline)
    /\ WF_vars(ProcessCheckInTimeout)
    /\ WF_vars(CheckInLeadReached)
    /\ WF_vars(DeadlinePasses)

FairSpec == Spec /\ Fairness

-----------------------------------------------------------------------------
(* Properties *)

\* Every column and every request in flight has its type.
TypeOK ==
    /\ status \in TournamentMatchStatus
    /\ participants \in SUBSET Slots
    /\ scheduledAt \in {"null", "future", "due"}
    /\ deadline \in {"null", "future", "past"}
    /\ checkedIn \in SUBSET Slots
    /\ startedAt \in BOOLEAN
    /\ winner \in 0..2
    /\ loser \in 0..2
    /\ forfeitRecords \in SUBSET Slots
    /\ log \in Seq([from : TournamentMatchStatus, to : TournamentMatchStatus])
    /\ req \in [Procs -> Requests]
    /\ requests \in 0..MaxRequests
    /\ faults \in 0..MaxFaults

\* A scheduled match always has a time.  schedule() stamps scheduled_at before
\* it moves the status, so that a request that dies in between leaves a ready
\* match and never a scheduled one that list_scheduled_due cannot see.
ScheduledHasTime == status = "scheduled" => scheduledAt # "null"

\* A recorded winner always comes with the other participant as loser: the
\* forfeit statement writes both columns, whatever raced with it.
WinnerHasLoser ==
    /\ winner = 0 <=> loser = 0
    /\ winner # 0 => loser = Opponent(winner)

\* The status is the one the last log row names; without rows the match is as
\* bracket generation left it.
LogEndsInStatus ==
    IF log = <<>> THEN status \in {"pending", "ready"} ELSE status = log[Len(log)].to

\* When requests do not overlap and none died, the audit log is a chain that
\* ends in the match's status; what the forfeit service wrote is the exception.
LogExplainsStatus ==
    Quiescent /\ faults = 0 =>
        /\ \A i \in 1..(Len(log) - 1) : log[i].to = log[i + 1].from
        /\ forfeitRecords = {} => LogEndsInStatus

\* When requests do not overlap and none died, two recorded check-ins never
\* leave the match waiting in checking_in: the second one advanced it.
NoLostAdvance ==
    ~(Quiescent /\ faults = 0 /\ checkedIn = Slots /\ status = "checking_in")

\* A match in its check-in window never waits for ever for a missing side, once
\* it has two participants: the window was opened by the pass or by a check-in,
\* with or without a deadline, and in each case the pass forfeits it or both
\* sides get in.
CheckInEnds ==
    (status = "checking_in" /\ participants = Slots /\ checkedIn # Slots)
        ~> (status # "checking_in" \/ checkedIn = Slots)

\* The columns of the row are well typed and agree with one another, whatever overlaps or dies:
\* what is scheduled can be found by the due list, and a winner has a loser.
RowIsCoherent == TypeOK /\ ScheduledHasTime /\ WinnerHasLoser

=============================================================================
