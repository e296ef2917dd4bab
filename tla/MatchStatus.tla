---------------------------- MODULE MatchStatus ----------------------------
(***************************************************************************)
(* The status of a tournament match: the values of the column              *)
(* tournament_matches.status, the edges of the state machine, and the      *)
(* predicates the services test before they act.  Constant-level: nothing  *)
(* here depends on the state.                                              *)
(* Source: crates/portal-core/src/types/tournament.rs                      *)
(***************************************************************************)

\* The eleven variants of TournamentMatchStatus, in their database spelling.
TournamentMatchStatus ==
    { "pending", "ready", "scheduled", "checking_in", "pick_ban",
      "in_progress", "awaiting_result", "completed", "cancelled",
      "forfeit", "disputed" }

is_terminal(s) == s \in {"completed", "cancelled", "forfeit"}

can_start(s) == s \in {"ready", "scheduled", "checking_in"}

can_submit_result(s) == s \in {"in_progress", "awaiting_result"}

can_schedule(s) == s = "ready"

can_forfeit(s) ==
    s \in {"scheduled", "checking_in", "pick_ban", "in_progress", "awaiting_result"}

\* allowed_transitions(): the statuses reachable from s in one step.
allowed_transitions(s) ==
    CASE s = "pending"         -> {"ready", "cancelled"}
      [] s = "ready"           -> {"scheduled", "cancelled"}
      [] s = "scheduled"       -> {"checking_in", "pick_ban", "in_progress",
                                   "forfeit", "cancelled"}
      [] s = "checking_in"     -> {"pick_ban", "in_progress", "forfeit", "cancelled"}
      [] s = "pick_ban"        -> {"in_progress", "forfeit", "cancelled"}
      [] s = "in_progress"     -> {"awaiting_result", "forfeit"}
      [] s = "awaiting_result" -> {"completed", "disputed", "forfeit"}
      [] s = "disputed"        -> {"completed"}
      [] OTHER                 -> {}

can_transition_to(s, target) == target \in allowed_transitions(s)

=============================================================================
