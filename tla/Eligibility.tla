---------------------------- MODULE Eligibility ----------------------------
(***************************************************************************)
(* Entry requirements of leagues and cups: the restriction sets kept in    *)
(* the settings column, how two of them compose, and how players and       *)
(* rosters are measured against them.  An optional bound is the empty set  *)
(* or the set of its value; a check is the predicate "no violation", since *)
(* every caller only asks whether the list of violations is empty.         *)
(***************************************************************************)
EXTENDS Integers, FiniteSets, FiniteSetsExt

\* A player without a profile for the game counts with these values.
DEFAULT_RATING == 1500
DEFAULT_PEAK == 1500
Unranked == "unranked"

\* No tier id equals this one: what disjoint tier lists compose to.
NoTier == "(no tier satisfies both restrictions)"

IsOption(b) == b \subseteq Int /\ \A x, y \in b : x = y

\* No restriction on any axis.
Unrestricted ==
    [max_rating_per_player |-> {}, min_rating_per_player |-> {},
     max_peak_rating_per_player |-> {}, max_avg_rating_per_player |-> {},
     max_team_total_rating |-> {}, min_team_total_rating |-> {},
     max_team_average_rating |-> {}, min_team_average_rating |-> {},
     allowed_rank_tiers |-> {}, min_matches_played |-> {}]

\* A restriction set as from_settings parses it.
IsRestrictions(r) ==
    /\ DOMAIN r = DOMAIN Unrestricted
    /\ \A axis \in DOMAIN Unrestricted \ {"allowed_rank_tiers"} : IsOption(r[axis])
    /\ NoTier \notin r.allowed_rank_tiers

\* What is fetched of a player: the profile's columns, or the defaults when
\* there is no profile, and the average of the rating history, if any.
NoProfile == [rating |-> DEFAULT_RATING, peak |-> DEFAULT_PEAK, matches |-> 0,
              tier |-> Unranked, avg |-> {}]

IsPlayerData(d) ==
    /\ d.rating \in Int /\ d.peak \in Int /\ d.matches \in Int
    /\ IsOption(d.avg)
    /\ d.tier # NoTier

----------------------------------------------------------------------------
(* Measuring. *)

Under(value, cap) == \A max \in cap : value <= max
Over(value, floor) == \A min \in floor : value >= min

\* One player against the per-player restrictions only.
check_player_eligibility(r, d) ==
    /\ Under(d.rating, r.max_rating_per_player)
    /\ Over(d.rating, r.min_rating_per_player)
    /\ Under(d.peak, r.max_peak_rating_per_player)
    /\ \A a \in d.avg : Under(a, r.max_avg_rating_per_player)
    /\ Over(d.matches, r.min_matches_played)
    /\ r.allowed_rank_tiers # {} => d.tier \in r.allowed_rank_tiers

\* The team's sums against the aggregate bounds; the averages are compared
\* multiplied out, an integer division would truncate.
TeamWithin(r, total, count) ==
    /\ Under(total, r.max_team_total_rating)
    /\ Over(total, r.min_team_total_rating)
    /\ \A max \in r.max_team_average_rating : total <= max * count
    /\ \A min \in r.min_team_average_rating : total >= min * count

total_rating(data, roster) == MapThenSumSet(LAMBDA x : data[x].rating, roster)

\* A roster: each of its players, and the aggregates unless it is empty.
check_team_eligibility(r, data, roster) ==
    /\ \A x \in roster : check_player_eligibility(r, data[x])
    /\ roster # {} => TeamWithin(r, total_rating(data, roster), Cardinality(roster))

----------------------------------------------------------------------------
(* Composing and deriving restriction sets. *)

tighter_max(a, b) == {x \in a \cup b : \A y \in a \cup b : x <= y}
tighter_min(a, b) == {x \in a \cup b : \A y \in a \cup b : x >= y}

common_tiers(a, b) ==
    IF a = {} THEN b
    ELSE IF b = {} THEN a
    ELSE IF a \cap b = {} THEN {NoTier}
    ELSE a \cap b

\* The stricter bound on every axis.
intersect(r, s) ==
    [max_rating_per_player |-> tighter_max(r.max_rating_per_player, s.max_rating_per_player),
     min_rating_per_player |-> tighter_min(r.min_rating_per_player, s.min_rating_per_player),
     max_peak_rating_per_player |->
        tighter_max(r.max_peak_rating_per_player, s.max_peak_rating_per_player),
     max_avg_rating_per_player |->
        tighter_max(r.max_avg_rating_per_player, s.max_avg_rating_per_player),
     max_team_total_rating |-> tighter_max(r.max_team_total_rating, s.max_team_total_rating),
     min_team_total_rating |-> tighter_min(r.min_team_total_rating, s.min_team_total_rating),
     max_team_average_rating |->
        tighter_max(r.max_team_average_rating, s.max_team_average_rating),
     min_team_average_rating |->
        tighter_min(r.min_team_average_rating, s.min_team_average_rating),
     allowed_rank_tiers |-> common_tiers(r.allowed_rank_tiers, s.allowed_rank_tiers),
     min_matches_played |-> tighter_min(r.min_matches_played, s.min_matches_played)]

\* The rules contradict themselves.
unsatisfiable(r) ==
    \/ \E min \in r.min_rating_per_player, max \in r.max_rating_per_player : min > max
    \/ \E min \in r.min_team_total_rating, max \in r.max_team_total_rating : min > max
    \/ \E min \in r.min_team_average_rating, max \in r.max_team_average_rating : min > max

\* For the lineup that played, which is a part of the roster.
without_team_minimums(r) ==
    [r EXCEPT !.min_team_total_rating = {}, !.min_team_average_rating = {}]

\* For a roster that is still being assembled.
team_total_cap_only(r) ==
    [Unrestricted EXCEPT !.max_team_total_rating = r.max_team_total_rating]

=============================================================================
