----------------------- MODULE MCBracketProgression -----------------------
(***************************************************************************)
(* Instances of BracketProgression for TLC.                                *)
(***************************************************************************)
EXTENDS BracketProgression

Case(f, n, m, r) == [shape |-> [format |-> f, n |-> n], mode |-> m, repairs |-> r]

\* Drawn only: fields of up to 16, with and without byes.  Played: a bracket with
\* a bye, one with two rounds, and the smallest double elimination; an admin
\* processes twice or repairs three times in a single elimination, and does either
\* once in a double elimination.
SmallCases ==
    {Case(f, n, "draw", 0) : f \in {"single", "double"}, n \in 2..16}
    \cup {Case("single", n, "play", 0) : n \in {3, 4, 6}}
    \cup {Case("single", 3, m, 2) : m \in {"manual", "repair"}}
    \cup {Case("single", 4, "manual", 2), Case("single", 4, "repair", 3)}
    \cup {Case("double", 4, "play", 0)}
    \cup {Case("double", 3, "manual", 1), Case("double", 4, "repair", 1)}

===========================================================================
