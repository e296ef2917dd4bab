---------------------------- MODULE BracketTree ----------------------------
(***************************************************************************)
(* What a bracket promises, apart from statuses, sagas and repairs: a side *)
(* of a match is filled by somebody who played the match it is wired to,   *)
(* it may be emptied and filled again until its own match is under way,    *)
(* and nobody touches the pairing of a match that is or was played.        *)
(***************************************************************************)

CONSTANTS
    Draws,   \* the brackets to consider
    Feeder,  \* Feeder[d][p][s]: the match whose winner or loser fills side s of p
    Drawn    \* Drawn[d][p][s]: who sits there at the draw; 0 is nobody

VARIABLES
    draw,      \* the bracket; never changes
    seats,     \* seats[p][s]: the participant in slot s of match p, 0 is nobody
    started    \* the matches whose pairing has been played with

treeVars == <<draw, seats, started>>

Sides == {1, 2}
Places == DOMAIN Drawn[draw]

TreeInit ==
    /\ draw \in Draws
    /\ seats = [p \in Places |-> [s \in Sides |-> Drawn[draw][p][s]]]
    /\ started = {}

\* The participants that the match a side is wired to can send there.
Feeders(p, s) ==
    LET q == Feeder[draw][p][s]
    IN  IF q \in started THEN {seats[q][1], seats[q][2]} ELSE {}

Fill(p, s) ==
    /\ p \notin started
    /\ \E x \in Feeders(p, s) : seats' = [seats EXCEPT ![p][s] = x]
    /\ UNCHANGED <<draw, started>>

\* A seat whose feeder is not played is nobody's to take.
Empty(p, s) ==
    /\ p \notin started
    /\ Feeders(p, s) # {}
    /\ seats' = [seats EXCEPT ![p][s] = 0]
    /\ UNCHANGED <<draw, started>>

Begin(p) ==
    /\ p \notin started
    /\ seats[p][1] # 0 /\ seats[p][2] # 0
    /\ started' = started \cup {p}
    /\ UNCHANGED <<draw, seats>>

TreeNextStep ==
    \E p \in Places :
        \/ \E s \in Sides : Fill(p, s) \/ Empty(p, s)
        \/ Begin(p)

TreeSpec == TreeInit /\ [][TreeNextStep]_treeVars

\* Whoever sits in a match was drawn there or played the match the side is
\* wired to, and that match is one whose pairing is final.
SeatsFollowWiring ==
    \A p \in Places, s \in Sides :
        seats[p][s] \in {Drawn[draw][p][s], 0} \cup Feeders(p, s)
=============================================================================
