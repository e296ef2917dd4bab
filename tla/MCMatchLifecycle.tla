-------------------------- MODULE MCMatchLifecycle --------------------------
(***************************************************************************)
(* Instances of MatchLifecycle for TLC.                                    *)
(***************************************************************************)
EXTENDS MatchLifecycle, TLC

\* Every status an admin may ask for.
AnyStatus == TournamentMatchStatus

\* Admins who schedule through schedule(), which stamps scheduled_at.
AnyStatusButScheduled == TournamentMatchStatus \ {"scheduled"}

\* Request handlers are interchangeable.
UserSymmetry == Permutations(Users)

=============================================================================
