-------------------------- MODULE BracketGenerator --------------------------
(***************************************************************************)
(* The bracket generators: which matches a bracket of n seeded             *)
(* participants has, where each side of a match comes from, who sits where *)
(* at the start, and where winner and loser of a match go.                 *)
(*                                                                         *)
(* A participant is its seed (1 is the best; prepare_participants leaves   *)
(* the seeds 1..n).  A bracket_position such as "WR2M1" is the triple      *)
(* <<"WR", 2, 1>>: bracket, round, number in the round.  Formats, names    *)
(* and best-of plans are left out.                                         *)
(***************************************************************************)
EXTENDS Integers, Sequences, FiniteSets

NoPos == <<"none", 0, 0>>

\* The smallest power of two that holds n participants, by its logarithm.
next_power_of_two(n) == CHOOSE k \in 1..n : 2^k >= n /\ \A j \in 1..(k - 1) : 2^j < n

Rounds(n) == next_power_of_two(n)
Size(n) == 2^Rounds(n)

\* standard_bracket_order: the better seed (from 0) of each match of a first
\* round of 2^k matches.
standard_bracket_order[k \in Nat] ==
    IF k = 0 THEN <<0>>
    ELSE [i \in 1..2^k |-> IF i % 2 = 1 THEN standard_bracket_order[k - 1][(i + 1) \div 2]
                           ELSE 2^k - 1 - standard_bracket_order[k - 1][i \div 2]]

\* generate_seeding_order: the seed in slot s of match m of the first round.
SeedAt(n, m, s) ==
    LET high == standard_bracket_order[Rounds(n) - 1][m]
    IN  IF s = 1 THEN high + 1 ELSE Size(n) - high

\* Where a side of a match comes from: MatchParticipantSource.
FromSeed(i) == [of |-> "seed", seed |-> i, pos |-> NoPos]
WinnerOf(p) == [of |-> "winner", seed |-> 0, pos |-> p]
LoserOf(p)  == [of |-> "loser", seed |-> 0, pos |-> p]

-----------------------------------------------------------------------------
(* A knock-out tree: the single elimination bracket and the winners bracket *)

TreePositions(b, n) ==
    {p \in {b} \X (1..Rounds(n)) \X (1..Size(n)) : p[3] <= Size(n) \div 2^p[2]}

TreeSource(n, p, s) ==
    IF p[2] = 1 THEN FromSeed(SeedAt(n, p[3], s))
    ELSE WinnerOf(<<p[1], p[2] - 1, 2 * (p[3] - 1) + s>>)

TreeNext(n, p) ==
    IF p[2] < Rounds(n) THEN <<p[1], p[2] + 1, (p[3] + 1) \div 2>> ELSE NoPos

\* A first-round match with one participant is never played: the participant
\* is seated in the second round by apply_byes.
HasBye(n, m) == \E s \in {1, 2} : SeedAt(n, m, s) > n

ByeSeed(n, m) == IF SeedAt(n, m, 1) <= n THEN SeedAt(n, m, 1) ELSE SeedAt(n, m, 2)

\* initial_assignments and byes: the participant seated in slot s of p when the
\* bracket is created; 0 is nobody.
InitialSeat(b, n, p, s) ==
    CASE p[1] = b /\ p[2] = 1 /\ ~HasBye(n, p[3]) -> SeedAt(n, p[3], s)
      [] p[1] = b /\ p[2] = 2 /\ HasBye(n, 2 * (p[3] - 1) + s)
                                                  -> ByeSeed(n, 2 * (p[3] - 1) + s)
      [] OTHER                                    -> 0

-----------------------------------------------------------------------------
(* The losers bracket and the grand final *)

LbRounds(n) == 2 * (Rounds(n) - 1)

lb_matches_in_round(n, r) == (Size(n) \div 4) \div 2^((r - 1) \div 2)

GrandFinal == <<"GF", 1, 1>>

LosersPositions(n) ==
    {p \in {"LR"} \X (1..LbRounds(n)) \X (1..Size(n)) : p[3] <= lb_matches_in_round(n, p[2])}

WbMatchesInRound(n, r) == Size(n) \div 2^r

\* The match of winners round r whose loser meets, or feeds, match m of the
\* losers round it drops to: the order is turned round when the two rounds have
\* as many matches.
Mirrored(n, r, lb, m) ==
    IF WbMatchesInRound(n, r) = lb_matches_in_round(n, lb)
    THEN WbMatchesInRound(n, r) + 1 - m ELSE m

lb_participant_sources(n, p, s) ==
    LET r == p[2]
        m == p[3]
        w == r \div 2 + 1
    IN  CASE r = 1 -> LoserOf(<<"WR", 1, IF s = 1 THEN m ELSE Size(n) \div 2 + 1 - m>>)
          [] r % 2 = 0 /\ s = 1 -> WinnerOf(<<"LR", r - 1, m>>)
          [] r % 2 = 0 /\ s = 2 -> LoserOf(<<"WR", w, Mirrored(n, w, r, m)>>)
          [] OTHER -> WinnerOf(<<"LR", r - 1, 2 * (m - 1) + s>>)

\* The grand final names LR0M1 when two participants have no losers bracket.
GrandFinalSource(n, s) ==
    IF s = 1 THEN WinnerOf(<<"WR", Rounds(n), 1>>) ELSE WinnerOf(<<"LR", LbRounds(n), 1>>)

\* Mutant: losers drop straight down.
DropStraight(n, p) ==
    CASE p[1] # "WR" -> NoPos
      [] p[2] = 1 /\ Size(n) = 2 -> NoPos
      [] p[2] = 1 -> <<"LR", 1, (p[3] + 1) \div 2>>
      [] OTHER -> <<"LR", 2 * (p[2] - 1), p[3]>>

\* cross_seed_wr1_to_lr1 and the later drops: where the loser of p goes.
cross_bracket_links(n, p) ==
    LET half == Size(n) \div 2
        drop == 2 * (p[2] - 1)
    IN  CASE p[1] # "WR" -> NoPos
          [] p[2] = 1 /\ half = 1 -> NoPos
          [] p[2] = 1 -> <<"LR", 1, IF p[3] <= half \div 2 THEN p[3] ELSE half + 1 - p[3]>>
          [] OTHER -> <<"LR", drop, Mirrored(n, p[2], drop, p[3])>>

\* The next match of the losers bracket, as the start of the tournament writes
\* it: into an even round at the same number, into an odd round two by two.
LosersNext(n, p) ==
    CASE p[2] = LbRounds(n) -> GrandFinal
      [] p[2] % 2 = 1       -> <<"LR", p[2] + 1, p[3]>>
      [] OTHER              -> <<"LR", p[2] + 1, (p[3] + 1) \div 2>>

-----------------------------------------------------------------------------
(* One interface for both: a shape is a format and a number of participants *)

Positions(sh) ==
    IF sh.format = "single" THEN TreePositions("R", sh.n)
    ELSE TreePositions("WR", sh.n) \cup LosersPositions(sh.n) \cup {GrandFinal}

Source(sh, p, s) ==
    CASE p[1] = "LR" -> lb_participant_sources(sh.n, p, s)
      [] p[1] = "GF" -> GrandFinalSource(sh.n, s)
      [] OTHER       -> TreeSource(sh.n, p, s)

\* winner_progresses_to and loser_progresses_to.
winner_progresses_to(sh, p) ==
    CASE p[1] = "GF" -> NoPos
      [] p[1] = "LR" -> LosersNext(sh.n, p)
      [] p[1] = "WR" /\ p[2] = Rounds(sh.n) -> GrandFinal
      [] OTHER -> TreeNext(sh.n, p)

loser_progresses_to(sh, p) == cross_bracket_links(sh.n, p)

Seated(sh, p, s) == InitialSeat(IF sh.format = "single" THEN "R" ELSE "WR", sh.n, p, s)

-----------------------------------------------------------------------------
(* Round robin: the circle method *)

CircleSize(n) == n + (n % 2)

\* What stands at place i (from 0) of the circle in a round: place 0 is fixed,
\* the others move one place each round.
AtPlace(n, round, i) ==
    IF i = 0 THEN 0
    ELSE ((i - 1 - (round - 1)) % (CircleSize(n) - 1)) + 1

\* round_robin: the pairs of participants that meet in a round; the sentinel of
\* an odd field is nobody.
round_robin(n, round) ==
    {pr \in {<<AtPlace(n, round, i) + 1, AtPlace(n, round, CircleSize(n) - 1 - i) + 1>> :
                i \in 0..(CircleSize(n) \div 2 - 1)} : pr[1] <= n /\ pr[2] <= n}

RoundRobinRounds(n) == CircleSize(n) - 1

-----------------------------------------------------------------------------
(* Groups *)

\* distribute_into_groups: the group (from 1) of seed i in a snake draft.
GroupOf(k, i) ==
    LET row == (i - 1) \div k
        col == (i - 1) % k
    IN  IF row % 2 = 0 THEN col + 1 ELSE k - col

\* cross_seed_for_playoffs: all firsts, then all seconds, ...; standings[g] is
\* the order in which group g finished.
cross_seed_for_playoffs(standings, advance) ==
    LET k == Len(standings)
    IN  [i \in 1..(k * advance) |-> standings[((i - 1) % k) + 1][((i - 1) \div k) + 1]]
=============================================================================
