---------------------- MODULE BracketProgression_proofs ----------------------
(***************************************************************************)
(* A bracket that is played, forfeited, driven again, overridden, reverted *)
(* and reapplied keeps the promise of BracketTree and stays sound, for     *)
(* every set of brackets whose rows are wired as WellWired says, until an  *)
(* admin has a result processed that is none of its match.  That the       *)
(* generators wire brackets so is arithmetic on powers of two and is       *)
(* checked by TLC (DrawIsSound).                                           *)
(***************************************************************************)
EXTENDS BracketTree, BracketProgression, TLAPS

-----------------------------------------------------------------------------
(* The abstract specification: what a bracket promises, for every set of    *)
(* draws and every wiring.                                                  *)

\* Whoever was drawn anywhere.
People == {0} \cup {Drawn[draw][p][s] : p \in Places, s \in Sides}

\* A match that has begun is one of the bracket and had both its sides.
BegunArePaired == \A p \in started : p \in Places /\ \A s \in Sides : seats[p][s] # 0

TreeInv ==
    /\ seats \in [Places -> [Sides -> People]]
    /\ BegunArePaired
    /\ SeatsFollowWiring

\* The empty bracket has its shape.
LEMMA TreeInitInv == TreeInit => TreeInv
BY DEF TreeInit, TreeInv, People, BegunArePaired, SeatsFollowWiring

\* A seat of a match that has not begun changes to x, one of those that may
\* sit there.
LEMMA SeatChanges ==
    ASSUME TreeInv, NEW p \in Places \ started, NEW s \in Sides,
           NEW x \in {0} \cup Feeders(p, s),
           seats' = [seats EXCEPT ![p][s] = x], UNCHANGED <<draw, started>>
    PROVE  TreeInv'
<1>1. Feeders(p, s) \subseteq People
  BY DEF TreeInv, Feeders, BegunArePaired, Sides
<1>2. x \in People
  BY <1>1 DEF People
<1>3. seats' \in [Places -> [Sides -> People]]
  BY <1>2 DEF TreeInv
<1>4. \A q \in started : seats'[q] = seats[q] /\ q \in Places
  BY DEF TreeInv, BegunArePaired
<1>5. \A q \in Places, t \in Sides : Feeders(q, t)' = Feeders(q, t)
  BY <1>4 DEF Feeders
<1>6. \A q \in Places, t \in Sides : seats'[q][t] = IF q = p /\ t = s THEN x ELSE seats[q][t]
  BY DEF TreeInv
<1>7. SeatsFollowWiring'
  BY <1>5, <1>6 DEF TreeInv, SeatsFollowWiring, Places
<1>8. BegunArePaired'
  BY <1>4 DEF TreeInv, BegunArePaired, Places
<1> QED BY <1>3, <1>7, <1>8 DEF TreeInv, Places, People

\* Seating and starting keep it.
LEMMA TreeNextInv == TreeInv /\ [TreeNextStep]_treeVars => TreeInv'
<1> SUFFICES ASSUME TreeInv, [TreeNextStep]_treeVars PROVE TreeInv'
  OBVIOUS
<1>1. ASSUME NEW p \in Places, NEW s \in Sides, Fill(p, s) PROVE TreeInv'
  BY <1>1, SeatChanges DEF Fill
<1>2. ASSUME NEW p \in Places, NEW s \in Sides, Empty(p, s) PROVE TreeInv'
  BY <1>2, SeatChanges DEF Empty
<1>3. ASSUME NEW p \in Places, Begin(p) PROVE TreeInv'
  <2>1. UNCHANGED <<draw, seats>> /\ started' = started \cup {p}
        /\ \A s \in Sides : seats[p][s] # 0
    BY <1>3 DEF Begin, Sides
  <2>2. BegunArePaired'
    BY <2>1 DEF TreeInv, BegunArePaired, Places
  <2>3. \A q \in Places, t \in Sides : Feeders(q, t) \subseteq Feeders(q, t)'
    BY <2>1 DEF Feeders
  <2>4. SeatsFollowWiring'
    BY <2>1, <2>3 DEF TreeInv, SeatsFollowWiring, Places
  <2> QED BY <2>1, <2>2, <2>4 DEF TreeInv, Places, People
<1>4. CASE UNCHANGED treeVars
  BY <1>4 DEF treeVars, TreeInv, BegunArePaired, SeatsFollowWiring, Places, People, Feeders
<1> QED BY <1>1, <1>2, <1>3, <1>4 DEF TreeNextStep

\* The promise itself: whoever sits in a match of a bracket was drawn there or
\* played the match that side is wired to, and that match is under way or over,
\* so its pairing is final.
THEOREM WiringIsFollowed == TreeSpec => []SeatsFollowWiring
<1>1. TreeInv => SeatsFollowWiring
  BY DEF TreeInv
<1> QED BY <1>1, TreeInitInv, TreeNextInv, PTL DEF TreeSpec

\* Nobody rewrites the pairing of a match that is or was played, and such a
\* match had two participants.
PairingsAreFinal ==
    [][ \A p \in started : /\ p \in started' /\ seats'[p] = seats[p]
                           /\ \A s \in Sides : seats[p][s] # 0 ]_treeVars

\* start_match tests the status and repairs look only at matches that have not
\* begun, so a pairing that was played is never rewritten.
THEOREM PlayedPairingsStay == TreeSpec => PairingsAreFinal
<1>1. TreeInv /\ [TreeNextStep]_treeVars
        => [ \A p \in started : /\ p \in started' /\ seats'[p] = seats[p]
                                /\ \A s \in Sides : seats[p][s] # 0 ]_treeVars
  <2> SUFFICES ASSUME TreeInv, TreeNextStep, NEW p \in started
               PROVE  /\ p \in started' /\ seats'[p] = seats[p]
                      /\ \A s \in Sides : seats[p][s] # 0
    BY DEF treeVars
  <2>1. p \in Places /\ \A s \in Sides : seats[p][s] # 0
    BY DEF TreeInv, BegunArePaired
  <2>2. ASSUME NEW q \in Places, NEW s \in Sides, Fill(q, s) \/ Empty(q, s)
        PROVE  p \in started' /\ seats'[p] = seats[p]
    BY <2>1, <2>2 DEF Fill, Empty, TreeInv
  <2>3. ASSUME NEW q \in Places, Begin(q) PROVE p \in started' /\ seats'[p] = seats[p]
    BY <2>3 DEF Begin
  <2> QED BY <2>1, <2>2, <2>3 DEF TreeNextStep
<1> QED BY <1>1, TreeInitInv, TreeNextInv, PTL DEF TreeSpec, PairingsAreFinal

-----------------------------------------------------------------------------
(* The code's statements.                                                   *)

Wired == \A sh \in Shapes : WellWired(sh)

\* A link, the side it leads to, and who sits there.
Goes(m, role) == Target(m, role) # NoPos
Side(m, role) == WiredSlot(m, Target(m, role), role)
Sent(m, role) == seat[Target(m, role)][Side(m, role)]

\* Whom a result sends along a link.
Fate(m, role) == IF role = "winner" THEN winner[m] ELSE Other(m, winner[m])

\* A first-round match with one participant, who sits in the second round.
Bye(m) == \A s \in Slots : SourceOf(m, s).of \notin Roles /\ Rows[shape][m].seated[s] = 0

\* A participant is at the front where no link of the match has taken it on.
Front(m, s, x) ==
    /\ seat[m][s] = x
    /\ \A role \in Roles : Goes(m, role) => Sent(m, role) # x

Begun(m) == winner[m] # 0 \/ ~target_is_still_untouched(status[m])

-----------------------------------------------------------------------------
(* The invariant: the seats ... *)

SeatedOK ==
    \A m \in Matches, s \in Slots :
        SourceOf(m, s).of \notin Roles => seat[m][s] = Rows[shape][m].seated[s]

SentOK ==
    \A m \in Matches, role \in Roles :
        Goes(m, role) /\ Sent(m, role) # 0 =>
            Bye(m) \/ (winner[m] # 0 /\ Sent(m, role) \in Players(m))

FateOK ==
    \A m \in Matches, role \in Roles :
        Goes(m, role) /\ winner[m] # 0 /\ undone[m] # "overridden" =>
            Sent(m, role) \in {0, Fate(m, role)}

ApartOK ==
    \A m \in Matches :
        Goes(m, "winner") /\ Goes(m, "loser") /\ Sent(m, "winner") # 0
            => Sent(m, "winner") # Sent(m, "loser")

DistinctOK == \A m \in Matches : HasBoth(m) => seat[m][1] # seat[m][2]

FrontOK ==
    \A m, q \in Matches, s, r \in Slots :
        seat[m][s] # 0 /\ Front(m, s, seat[m][s]) /\ Front(q, r, seat[m][s])
            => m = q /\ s = r

SeatInv == SeatedOK /\ SentOK /\ FateOK /\ ApartOK /\ DistinctOK /\ FrontOK

\* ... the results and statuses ...
ResultOK ==
    \A m \in Matches :
        /\ status[m] \in {"pending", "ready", "scheduled", "in_progress",
                          "completed", "forfeit"}
        /\ winner[m] # 0 <=> status[m] \in {"completed", "forfeit"}
        /\ winner[m] # 0 => winner[m] \in Players(m)
        /\ mode # "repair" => undone[m] = "no"

PairedOK ==
    \A m \in Matches :
        status[m] # "pending" =>
            \/ HasBoth(m)
            \/ /\ ~Begun(m)
               /\ \E role \in Roles : /\ admin.step = PendingStep(role)
                                      /\ Target(admin.match, role) = m

\* ... the saga that runs, or has died ...
AloneOK ==
    \A m \in Matches :
        /\ Running(m) => admin.step = "idle" /\ \A q \in Matches : Running(q) => m = q
        /\ saga[m].step = "dead" => mode = "play"
        /\ saga[m].step \notin {"none", "done"} =>
            saga[m].win = winner[m] /\ winner[m] # 0 /\ undone[m] = "no"
        /\ \A role \in Roles :
            saga[m].step = WriteStep(role) =>
                /\ Goes(m, role)
                /\ status[Target(m, role)] = "pending" /\ HasBoth(Target(m, role))

\* ... and the request of an admin.
Emptied(role) ==
    Goes(admin.match, role) /\ Players(admin.match) # {} => Sent(admin.match, role) = 0

AdminOK ==
    LET m == admin.match
    IN  admin.step # "idle" =>
            /\ m \in Matches
            /\ admin.op = "process" <=> mode = "manual"
            /\ admin.op # "process" => mode = "repair"
            /\ admin.op \in {"process", "reapply"} =>
                /\ HasBoth(m) /\ admin.win # 0 /\ admin.win \in Players(m)
                /\ admin.lose = Other(m, admin.win)
            /\ admin.step \in {"record", "advance", "route", "mark"} =>
                admin.op \in {"process", "reapply"}
            /\ admin.op = "process" => admin.step \in {"record", "advance", "route", "mark"}
            /\ admin.step \in {"pending_winner", "withdraw_loser", "pending_loser"} =>
                Emptied("winner")
            /\ \A role \in Roles :
                admin.step = PendingStep(role) =>
                    Goes(m, role) /\ Sent(m, role) = 0 /\ ~Begun(Target(m, role))
            /\ admin.step = "record" =>
                IF admin.op = "process" THEN winner[m] \in {0, admin.win}
                ELSE Emptied("winner") /\ Emptied("loser")
            /\ admin.step \in {"advance", "route", "mark"} =>
                winner[m] = admin.win /\ undone[m] = "no"

\* Before these steps a saga has yet to look at the match a link leads to.
Ahead(role) ==
    {"dead", "advance", "route", "read_winner", "write_winner"}
        \cup (IF role = "loser" THEN {"read_loser", "write_loser"} ELSE {})

\* A full match that is pending is still to be looked at.
PendingOK ==
    \A m \in Matches :
        status[m] = "pending" /\ HasBoth(m) =>
            \/ mode \in {"manual", "repair"} /\ shape.format = "double"
            \/ admin.step \in {"route", "mark"}
            \/ \E q \in Matches, role \in Roles :
                Target(q, role) = m /\ saga[q].step \in Ahead(role)

Inv ==
    /\ TypeOK
    /\ SeatInv
    /\ ResultOK /\ PairedOK /\ AloneOK /\ AdminOK /\ PendingOK

-----------------------------------------------------------------------------
(* The wiring *)

\* The bracket being played is one of the drawn ones.
LEMMA KnownShape == TypeOK => shape \in Shapes
BY DEF TypeOK, Shapes

\* What a followed link gives: another match of the bracket, a slot, and the inverse link the withdrawal uses.
LEMMA LinkFacts ==
    ASSUME Wired, TypeOK, NEW m \in Matches, NEW role \in Roles, Goes(m, role)
    PROVE  /\ Target(m, role) \in Matches \ {m}
           /\ Side(m, role) \in Slots
           /\ SourceOf(Target(m, role), Side(m, role)) = [of |-> role, seed |-> 0, pos |-> m]
           /\ determine_target_slot(m, Target(m, role)) = Side(m, role)
           /\ determine_target_position(m, Target(m, role), role) = Side(m, role)
           /\ ResolvedSlot(m, Target(m, role), role) = Side(m, role)
<1> DEFINE t == Target(m, role)
           src == [of |-> role, seed |-> 0, pos |-> m]
<1>1. /\ t \in Matches \ {m}
      /\ \E s \in Slots : SourceOf(t, s) = src /\ \A r \in Slots \ {s} : SourceOf(t, r).pos # m
  <2>1. LinksAgree(shape)
    BY KnownShape DEF Wired, WellWired
  <2> QED BY <2>1 DEF LinksAgree, Goes, Target, Matches, SourceOf
<1>2. PICK s \in Slots : SourceOf(t, s) = src /\ \A r \in Slots \ {s} : SourceOf(t, r).pos # m
  BY <1>1
<1>3. src.pos = m
  OBVIOUS
<1>4. CASE s = 1
  <2>1. SourceOf(t, 1) = src /\ SourceOf(t, 1).pos = m
    BY <1>2, <1>3, <1>4
  <2>2. Side(m, role) = 1
    BY <2>1 DEF Side, WiredSlot
  <2>3. determine_target_slot(m, t) = 1
    BY <2>1 DEF determine_target_slot
  <2> QED BY <1>1, <2>1, <2>2, <2>3 DEF determine_target_position, ResolvedSlot, Side, Slots
<1>5. CASE s = 2
  <2>1. SourceOf(t, 2) = src /\ SourceOf(t, 2).pos = m /\ SourceOf(t, 1).pos # m
    BY <1>2, <1>3, <1>5 DEF Slots
  <2>2. SourceOf(t, 1) # src
    BY <2>1, <1>3
  <2>3. Side(m, role) = 2
    BY <2>1, <2>2 DEF Side, WiredSlot
  <2>4. determine_target_slot(m, t) = 2
    BY <2>1 DEF determine_target_slot
  <2> QED BY <1>1, <2>1, <2>3, <2>4 DEF determine_target_position, ResolvedSlot, Side, Slots
<1> QED BY <1>2, <1>4, <1>5 DEF Slots

\* No two links lead to one side.
LEMMA LinksDiffer ==
    ASSUME Wired, TypeOK, NEW m \in Matches, NEW q \in Matches,
           NEW role \in Roles, NEW r \in Roles, Goes(m, role), Goes(q, r),
           Target(m, role) = Target(q, r), Side(m, role) = Side(q, r)
    PROVE  m = q /\ role = r
<1>1. [of |-> role, seed |-> 0, pos |-> m] = [of |-> r, seed |-> 0, pos |-> q]
  BY LinkFacts
<1> QED BY <1>1

\* A participant drawn into a side that is wired to a match has passed a bye.
LEMMA SeatedByes ==
    ASSUME Wired, TypeOK, NEW m \in Matches, NEW role \in Roles, Goes(m, role),
           Rows[shape][Target(m, role)].seated[Side(m, role)] # 0
    PROVE  Bye(m)
<1>1. SourceOf(Target(m, role), Side(m, role)).of = role
      /\ SourceOf(Target(m, role), Side(m, role)).pos = m
  BY LinkFacts
<1>2. Target(m, role) \in Matches /\ Side(m, role) \in Slots
  BY LinkFacts
<1> QED BY <1>1, <1>2, KnownShape, SMTT(30)
        DEF Wired, WellWired, SeatsDrawn, Bye, Matches, SourceOf

-----------------------------------------------------------------------------
(* The seats *)

\* The drawing does not change while the bracket is played.
LEMMA StillRows ==
    ASSUME UNCHANGED shape
    PROVE  /\ Matches' = Matches
           /\ \A m, s : SourceOf(m, s)' = SourceOf(m, s)
           /\ \A m, role : Target(m, role)' = Target(m, role)
           /\ \A m, role : Goes(m, role)' <=> Goes(m, role)
           /\ \A m, role : Side(m, role)' = Side(m, role)
           /\ \A m : Bye(m)' <=> Bye(m)
BY DEF Matches, SourceOf, Target, Goes, Side, WiredSlot, Bye

\* The seat invariant only reads the seats and the recorded results.
LEMMA StillSeats ==
    ASSUME SeatInv, UNCHANGED <<shape, seat, winner, undone>>
    PROVE  SeatInv'
<1>1. /\ \A m, role : Sent(m, role)' = Sent(m, role)
      /\ \A m, role : Fate(m, role)' = Fate(m, role)
      /\ \A m : Players(m)' = Players(m)
      /\ \A m : HasBoth(m)' <=> HasBoth(m)
      /\ \A m, s, x : Front(m, s, x)' <=> Front(m, s, x)
  BY StillRows DEF Sent, Fate, Other, Players, HasBoth, Front
<1>2. SeatedOK'
  BY StillRows DEF SeatInv, SeatedOK
<1>3. SentOK'
  BY <1>1, StillRows DEF SeatInv, SentOK
<1>4. FateOK'
  BY <1>1, StillRows DEF SeatInv, FateOK
<1>5. ApartOK' /\ DistinctOK' /\ FrontOK'
  BY <1>1, StillRows DEF SeatInv, ApartOK, DistinctOK, FrontOK
<1> QED BY <1>2, <1>3, <1>4, <1>5 DEF SeatInv

\* A match is never under way or decided without both opponents.
LEMMA BegunPaired ==
    ASSUME ResultOK, PairedOK, NEW m \in Matches, Begun(m) PROVE HasBoth(m)
BY DEF ResultOK, PairedOK, Begun, target_is_still_untouched

\* Where nobody sits on one side, the match has sent nobody on.
LEMMA OpenSendsNobody ==
    ASSUME Wired, TypeOK, SeatInv, ResultOK, PairedOK,
           NEW m \in Matches, NEW role \in Roles, Goes(m, role),
           winner[Target(m, role)] = 0
    PROVE  \A r \in Roles : Goes(Target(m, role), r) => Sent(Target(m, role), r) = 0
<1>1. Target(m, role) \in Matches /\ ~Bye(Target(m, role))
  BY LinkFacts DEF Bye
<1> QED BY <1>1 DEF SeatInv, SentOK

\* x is written into the side a link leads to.
Written(m, role, x) == seat' = [seat EXCEPT ![Target(m, role)][Side(m, role)] = x]

\* The seats after one side of the match a link leads to was written.
LEMMA SeatsAfter ==
    ASSUME Wired, TypeOK, NEW m \in Matches, NEW role \in Roles, Goes(m, role), NEW x,
           Written(m, role, x),
           UNCHANGED shape
    PROVE  /\ \A q \in Matches, r \in Slots :
                seat'[q][r] = IF q = Target(m, role) /\ r = Side(m, role) THEN x ELSE seat[q][r]
           /\ \A q \in Matches, r \in Roles :
                Goes(q, r) => Sent(q, r)' = IF q = m /\ r = role THEN x ELSE Sent(q, r)
<1>1. seat \in [Matches -> [Slots -> 0..shape.n]]
  BY DEF TypeOK
<1>2. Target(m, role) \in Matches /\ Side(m, role) \in Slots
  BY LinkFacts
<1>3. \A q \in Matches, r \in Slots :
        seat'[q][r] = IF q = Target(m, role) /\ r = Side(m, role) THEN x ELSE seat[q][r]
  BY <1>1, <1>2 DEF Written
<1>4. ASSUME NEW q \in Matches, NEW r \in Roles, Goes(q, r)
      PROVE  Sent(q, r)' = IF q = m /\ r = role THEN x ELSE Sent(q, r)
  <2>1. Target(q, r) \in Matches /\ Side(q, r) \in Slots
    BY <1>4, LinkFacts
  <2>2. Target(q, r) = Target(m, role) /\ Side(q, r) = Side(m, role) => q = m /\ r = role
    BY <1>4, LinksDiffer
  <2> QED BY <1>3, <2>1, <2>2, StillRows DEF Sent
<1> QED BY <1>3, <1>4

\* The winner and the loser of a match are two people.
LEMMA FatesDiffer ==
    ASSUME SeatInv, ResultOK, PairedOK, NEW m \in Matches, winner[m] # 0
    PROVE  /\ HasBoth(m)
           /\ \A role \in Roles : Fate(m, role) # 0 /\ \E s \in Slots : seat[m][s] = Fate(m, role)
           /\ Fate(m, "winner") # Fate(m, "loser")
<1>1. HasBoth(m) /\ seat[m][1] # seat[m][2] /\ winner[m] \in {seat[m][1], seat[m][2]}
  BY BegunPaired DEF Begun, SeatInv, DistinctOK, ResultOK, Players
<1> QED BY <1>1 DEF Fate, Other, HasBoth, Slots

\* A result goes along a link that has carried nobody yet.
LEMMA FillSeats ==
    ASSUME Wired, TypeOK, SeatInv, ResultOK, PairedOK,
           NEW m \in Matches, NEW role \in Roles, Goes(m, role),
           winner[m] # 0, undone[m] # "overridden", Sent(m, role) = 0,
           Written(m, role, Fate(m, role)),
           UNCHANGED <<shape, winner, undone>>
    PROVE  SeatInv'
<1> DEFINE t == Target(m, role)
           s == Side(m, role)
           x == Fate(m, role)
<1>1. /\ t \in Matches \ {m} /\ s \in Slots
      /\ SourceOf(t, s).of = role
  BY LinkFacts
<1>2. HasBoth(m) /\ x # 0 /\ \E s0 \in Slots : seat[m][s0] = x
  BY FatesDiffer
<1>3. PICK s0 \in Slots : seat[m][s0] = x
  BY <1>2
<1>0. UNCHANGED shape
  OBVIOUS
<1>4. \A q \in Matches, r \in Slots : seat'[q][r] = IF q = t /\ r = s THEN x ELSE seat[q][r]
  BY <1>0, SeatsAfter
<1>5. \A q \in Matches, r \in Roles :
        Goes(q, r) => Sent(q, r)' = IF q = m /\ r = role THEN x ELSE Sent(q, r)
  BY <1>0, SeatsAfter
<1>6. seat[t][s] = 0
  BY DEF Sent
<1>7. winner[t] = 0
  BY <1>1, <1>6, BegunPaired DEF Begun, HasBoth, Slots
<1>8. \A r \in Roles : Goes(t, r) => Sent(t, r) = 0
  BY <1>7, OpenSendsNobody
<1>9. \A r \in Roles : Goes(m, r) => Sent(m, r) # x
  BY <1>2, FatesDiffer DEF SeatInv, FateOK, Roles
<1>10. Front(m, s0, x)
  BY <1>3, <1>9 DEF Front
<1>11. \A q \in Matches, r \in Slots : Front(q, r, x) => q = m /\ r = s0
  BY <1>2, <1>3, <1>10 DEF SeatInv, FrontOK
<1>12. \A r \in Slots : seat[t][r] # x
  BY <1>1, <1>2, <1>8, <1>11 DEF Front
<1>13. \A q \in Matches : q # t => Players(q)' = Players(q)
  BY <1>4 DEF Players, Slots
<1>14. /\ \A q, r : Goes(q, r)' <=> Goes(q, r)
       /\ \A q : Bye(q)' <=> Bye(q)
       /\ \A q, r : SourceOf(q, r)' = SourceOf(q, r)
       /\ Matches' = Matches
  BY StillRows
<1> HIDE DEF t, s, x
<1>20. SeatedOK'
  BY <1>1, <1>4, <1>14 DEF SeatInv, SeatedOK
<1>21. x \in Players(m)
  BY <1>2, <1>3 DEF Players, Slots
<1>22. SentOK'
  <2> SUFFICES ASSUME NEW q \in Matches, NEW r \in Roles, Goes(q, r), Sent(q, r)' # 0, ~Bye(q)
               PROVE  winner[q] # 0 /\ Sent(q, r)' \in Players(q)'
    BY <1>14 DEF SentOK
  <2>1. CASE q = m /\ r = role
    BY <2>1, <1>1, <1>5, <1>13, <1>21
  <2>2. CASE ~(q = m /\ r = role)
    <3>1. Sent(q, r)' = Sent(q, r) /\ Sent(q, r) # 0 /\ q # t
      BY <2>2, <1>5, <1>8
    <3> QED BY <3>1, <1>13 DEF SeatInv, SentOK
  <2> QED BY <2>1, <2>2
<1>23. \A q \in Matches, r \in Roles : q # t => Fate(q, r)' = Fate(q, r)
  BY <1>4 DEF Fate, Other, Slots
<1>24. FateOK'
  <2> SUFFICES ASSUME NEW q \in Matches, NEW r \in Roles, Goes(q, r), winner[q] # 0,
                      undone[q] # "overridden"
               PROVE  Sent(q, r)' \in {0, Fate(q, r)'}
    BY <1>14 DEF FateOK
  <2>1. q # t
    BY <1>7
  <2>2. Sent(q, r) \in {0, Fate(q, r)}
    BY DEF SeatInv, FateOK
  <2> QED BY <2>1, <2>2, <1>5, <1>23 DEF x
<1>25. ApartOK'
  BY <1>5, <1>9, <1>14 DEF SeatInv, ApartOK, Roles, x
<1>26. DistinctOK'
  BY <1>1, <1>4, <1>12, <1>14 DEF SeatInv, DistinctOK, HasBoth, Slots
<1>27. ASSUME NEW q \in Matches, NEW r \in Slots, NEW y, y # 0, Front(q, r, y)'
       PROVE  IF y = x THEN q = t /\ r = s ELSE Front(q, r, y)
  <2>1. /\ seat'[q][r] = y
        /\ \A o \in Roles : Goes(q, o) => Sent(q, o)' # y
    BY <1>27, <1>14 DEF Front
  <2>2. CASE y # x
    <3>1. seat[q][r] = y
      BY <2>1, <2>2, <1>4
    <3>2. \A o \in Roles : Goes(q, o) => Sent(q, o) # y
      BY <2>1, <2>2, <1>5, <1>27 DEF x, t, s
    <3> QED BY <2>2, <3>1, <3>2 DEF Front
  <2>3. CASE y = x /\ ~(q = t /\ r = s)
    <3>1. seat[q][r] = x
      BY <2>1, <2>3, <1>4
    <3>2. \A o \in Roles : Goes(q, o) => Sent(q, o) # x
      BY <2>1, <2>3, <1>5, <1>2
    <3>3. q = m
      BY <3>1, <3>2, <1>11 DEF Front
    <3> QED BY <3>3, <2>1, <2>3, <1>5
  <2> QED BY <2>2, <2>3
<1>28. FrontOK'
  <2> SUFFICES ASSUME NEW q \in Matches, NEW p \in Matches, NEW r \in Slots, NEW o \in Slots,
                      NEW y, y = seat'[q][r], y # 0, Front(q, r, y)', Front(p, o, y)'
               PROVE  q = p /\ r = o
    BY <1>14 DEF FrontOK
  <2>1. CASE y = x
    BY <2>1, <1>27
  <2>2. CASE y # x
    <3>1. Front(q, r, y) /\ Front(p, o, y)
      BY <2>2, <1>27
    <3>2. seat[q][r] = y
      BY <3>1 DEF Front
    <3> QED BY <3>1, <3>2 DEF SeatInv, FrontOK
  <2> QED BY <2>1, <2>2
<1> QED BY <1>20, <1>22, <1>24, <1>25, <1>26, <1>28 DEF SeatInv

\* Whom a link has carried is withdrawn, before the match it leads to begins.
LEMMA EmptySeats ==
    ASSUME Wired, TypeOK, SeatInv, ResultOK, PairedOK,
           NEW m \in Matches, NEW role \in Roles, Goes(m, role),
           winner[Target(m, role)] = 0, Sent(m, role) # 0, ~Bye(m),
           Written(m, role, 0),
           UNCHANGED <<shape, winner, undone>>
    PROVE  SeatInv'
<1> DEFINE t == Target(m, role)
           s == Side(m, role)
           x == Sent(m, role)
<1>1. t \in Matches \ {m} /\ s \in Slots /\ SourceOf(t, s).of = role /\ x = seat[t][s]
  BY LinkFacts DEF Sent
<1>2. winner[m] # 0
  BY DEF SeatInv, SentOK
<1>0. UNCHANGED shape
  OBVIOUS
<1>4. \A q \in Matches, r \in Slots : seat'[q][r] = IF q = t /\ r = s THEN 0 ELSE seat[q][r]
  BY <1>0, SeatsAfter
<1>5. \A q \in Matches, r \in Roles :
        Goes(q, r) => Sent(q, r)' = IF q = m /\ r = role THEN 0 ELSE Sent(q, r)
  BY <1>0, SeatsAfter
<1>8. \A r \in Roles : Goes(t, r) => Sent(t, r) = 0
  BY OpenSendsNobody
<1>10. Front(t, s, x)
  BY <1>1, <1>8 DEF Front
<1>11. \A q \in Matches, r \in Slots : Front(q, r, x) => q = t /\ r = s
  BY <1>1, <1>10 DEF SeatInv, FrontOK
<1>13. \A q \in Matches : q # t => Players(q)' = Players(q)
  BY <1>4 DEF Players, Slots
<1>14. /\ \A q, r : Goes(q, r)' <=> Goes(q, r)
       /\ \A q : Bye(q)' <=> Bye(q)
       /\ \A q, r : SourceOf(q, r)' = SourceOf(q, r)
       /\ Matches' = Matches
  BY StillRows
<1>15. HasBoth(m) /\ seat[m][1] # seat[m][2]
  BY <1>2, FatesDiffer DEF SeatInv, DistinctOK
<1> HIDE DEF t, s, x
<1>20. SeatedOK'
  BY <1>1, <1>4, <1>14 DEF SeatInv, SeatedOK
<1>22. SentOK'
  <2> SUFFICES ASSUME NEW q \in Matches, NEW r \in Roles, Goes(q, r), Sent(q, r)' # 0, ~Bye(q)
               PROVE  winner[q] # 0 /\ Sent(q, r)' \in Players(q)'
    BY <1>14 DEF SentOK
  <2>1. Sent(q, r)' = Sent(q, r) /\ Sent(q, r) # 0 /\ q # t
    BY <1>5, <1>8
  <2> QED BY <2>1, <1>13 DEF SeatInv, SentOK
<1>23. \A q \in Matches, r \in Roles : q # t => Fate(q, r)' = Fate(q, r)
  BY <1>4 DEF Fate, Other, Slots
<1>24. FateOK'
  <2> SUFFICES ASSUME NEW q \in Matches, NEW r \in Roles, Goes(q, r), winner[q] # 0,
                      undone[q] # "overridden"
               PROVE  Sent(q, r)' \in {0, Fate(q, r)'}
    BY <1>14 DEF FateOK
  <2>1. q # t
    BY DEF t
  <2>2. Sent(q, r) \in {0, Fate(q, r)}
    BY DEF SeatInv, FateOK
  <2> QED BY <2>1, <2>2, <1>5, <1>23
<1>25. ApartOK'
  BY <1>5, <1>14 DEF SeatInv, ApartOK, Roles
<1>26. DistinctOK'
  BY <1>1, <1>4, <1>14 DEF SeatInv, DistinctOK, HasBoth, Slots
<1>27. ASSUME NEW q \in Matches, NEW r \in Slots, NEW y, y # 0, Front(q, r, y)'
       PROVE  seat'[q][r] = y /\ IF y = x THEN q = m ELSE Front(q, r, y)
  <2>1. /\ seat'[q][r] = y
        /\ \A o \in Roles : Goes(q, o) => Sent(q, o)' # y
    BY <1>27, <1>14 DEF Front
  <2>2. seat[q][r] = y /\ ~(q = t /\ r = s)
    BY <2>1, <1>27, <1>4
  <2>3. CASE y # x
    <3>2. \A o \in Roles : Goes(q, o) => Sent(q, o) # y
      BY <2>1, <2>3, <1>5 DEF x
    <3> QED BY <2>1, <2>2, <2>3, <3>2 DEF Front
  <2>4. CASE y = x /\ q # m
    <3>1. \A o \in Roles : Goes(q, o) => Sent(q, o) # x
      BY <2>1, <2>4, <1>5
    <3> QED BY <2>2, <2>4, <3>1, <1>11 DEF Front
  <2> QED BY <2>1, <2>3, <2>4
<1>28. FrontOK'
  <2> SUFFICES ASSUME NEW q \in Matches, NEW p \in Matches, NEW r \in Slots, NEW o \in Slots,
                      NEW y, y = seat'[q][r], y # 0, Front(q, r, y)', Front(p, o, y)'
               PROVE  q = p /\ r = o
    BY <1>14 DEF FrontOK
  <2>1. CASE y = x
    <3>1. q = m /\ p = m /\ seat'[m][r] = x /\ seat'[m][o] = x
      BY <2>1, <1>27
    <3>2. seat[m][r] = x /\ seat[m][o] = x
      BY <3>1, <1>1, <1>4
    <3> QED BY <3>1, <3>2, <1>15 DEF Slots
  <2>2. CASE y # x
    <3>1. Front(q, r, y) /\ Front(p, o, y)
      BY <2>2, <1>27
    <3>2. seat[q][r] = y
      BY <3>1 DEF Front
    <3> QED BY <3>1, <3>2 DEF SeatInv, FrontOK
  <2> QED BY <2>1, <2>2
<1> QED BY <1>20, <1>22, <1>24, <1>25, <1>26, <1>28 DEF SeatInv

\* The record of one match is written, and says who was sent on or that it was
\* overridden.
LEMMA RecordSeats ==
    ASSUME SeatInv, UNCHANGED <<shape, seat>>, NEW m \in Matches,
           \A q \in Matches \ {m} : winner'[q] = winner[q] /\ undone'[q] = undone[q],
           winner[m] # 0 => winner'[m] # 0,
           undone'[m] # "overridden" =>
                \A role \in Roles : Goes(m, role) => Sent(m, role) \in {0, Fate(m, role)'}
    PROVE  SeatInv'
<1>1. /\ \A q, role : Sent(q, role)' = Sent(q, role)
      /\ \A q \in Matches \ {m} : \A role : Fate(q, role)' = Fate(q, role)
      /\ \A q : Players(q)' = Players(q)
      /\ \A q : HasBoth(q)' <=> HasBoth(q)
      /\ \A q, s, x : Front(q, s, x)' <=> Front(q, s, x)
  BY StillRows DEF Sent, Fate, Other, Players, HasBoth, Front
<1>2. SeatedOK'
  BY StillRows DEF SeatInv, SeatedOK
<1>3. SentOK'
  BY <1>1, StillRows DEF SeatInv, SentOK
<1>4. FateOK'
  BY <1>1, StillRows DEF SeatInv, FateOK
<1>5. ApartOK' /\ DistinctOK' /\ FrontOK'
  BY <1>1, StillRows DEF SeatInv, ApartOK, DistinctOK, FrontOK
<1> QED BY <1>2, <1>3, <1>4, <1>5 DEF SeatInv

-----------------------------------------------------------------------------
(* The draw *)

\* The case the model starts from: its drawing, its mode and its bounds.
LEMMA CaseFacts ==
    ASSUME NEW c \in Cases
    PROVE  /\ c.shape \in Shapes /\ c.shape.n \in Nat /\ c.mode \in Modes /\ c.repairs \in Nat
           /\ c.shape.format \in {"single", "double"}
BY ProgressionAssumption DEF Shapes

\* The freshly generated bracket is well typed.
LEMMA InitType == Wired /\ Init => TypeOK
<1> SUFFICES ASSUME Wired, Init PROVE TypeOK
  OBVIOUS
<1>1. PICK c \in Cases : shape = c.shape /\ mode = c.mode /\ repairs = c.repairs
  BY DEF Init
<1>2. shape \in Shapes /\ shape.n \in Nat /\ c.repairs \in Nat
  BY <1>1, CaseFacts
<1>3. \E d \in Cases : shape = d.shape /\ mode = d.mode /\ repairs \in 0..d.repairs
  BY <1>1, <1>2
<1>4. seat \in [Matches -> [Slots -> 0..shape.n]]
  <2>1. \A m \in Matches : Rows[shape][m].seated = [s \in Slots |-> Seated(shape, m, s)]
    BY <1>2 DEF Matches, Rows
  <2>2. \A m \in Matches, s \in Slots : Rows[shape][m].seated[s] \in 0..shape.n
    BY <1>2 DEF Wired, WellWired, SeatsDrawn, Matches
  <2>3. \A m \in Matches : Rows[shape][m].seated \in [Slots -> 0..shape.n]
    BY <2>1, <2>2
  <2> QED BY <2>3 DEF Init
<1>5. status \in [Matches -> TournamentMatchStatus]
  BY DEF Init, TournamentMatchStatus
<1>6. winner \in [Matches -> 0..shape.n] /\ saga \in [Matches -> [step : SagaSteps, win : 0..shape.n]]
  BY <1>2 DEF Init, NoSaga, SagaSteps
<1>7. admin \in [op : {"none", "process", "revert", "reapply"}, step : AdminSteps,
                 match : Matches \cup {NoPos}, win : 0..shape.n, lose : 0..shape.n]
  BY <1>2 DEF Init, NoAdmin, AdminSteps
<1>8. undone \in [Matches -> {"no", "reverted", "overridden"}] /\ crashes \in 0..MaxCrashes
  BY ProgressionAssumption DEF Init
<1>9. misused \in BOOLEAN
  BY Zenon DEF Init
<1> QED BY <1>3, <1>4, <1>5, <1>6, <1>7, <1>8, <1>9 DEF TypeOK

\* The generator seats nobody twice, and its byes only from the first round.
LEMMA InitSeats == Wired /\ Init => SeatInv
<1> SUFFICES ASSUME Wired, Init PROVE SeatInv
  OBVIOUS
<1>1. TypeOK /\ shape \in Shapes
  BY InitType, KnownShape
<1>2. \A m \in Matches, s \in Slots : seat[m][s] = Rows[shape][m].seated[s]
  BY DEF Init
<1>3. ASSUME NEW m \in Matches, NEW role \in Roles, Goes(m, role), Sent(m, role) # 0
      PROVE  Bye(m)
  <2>1. Target(m, role) \in Matches /\ Side(m, role) \in Slots
    BY <1>1, <1>3, LinkFacts
  <2> QED BY <1>1, <1>2, <1>3, <2>1, SeatedByes DEF Sent
<1>4. SeatedOK /\ SentOK
  BY <1>2, <1>3 DEF SeatedOK, SentOK
<1>5. \A m \in Matches : winner[m] = 0
  BY DEF Init
<1>6. FateOK
  BY <1>5 DEF FateOK
<1>7. \A m, q \in Matches, s, r \in Slots : seat[m][s] # 0 /\ seat[m][s] = seat[q][r] => m = q /\ s = r
  BY <1>1, <1>2, SMTT(30) DEF Wired, WellWired, SeatsDrawn, Matches
<1>8. ApartOK
  <2> SUFFICES ASSUME NEW m \in Matches, Goes(m, "winner"), Goes(m, "loser"),
                      Sent(m, "winner") # 0, Sent(m, "winner") = Sent(m, "loser")
               PROVE  FALSE
    BY DEF ApartOK
  <2>1. \A role \in Roles : Target(m, role) \in Matches /\ Side(m, role) \in Slots
    BY <1>1, LinkFacts DEF Roles
  <2>2. Target(m, "winner") = Target(m, "loser") /\ Side(m, "winner") = Side(m, "loser")
    BY <1>7, <2>1 DEF Sent, Roles
  <2> QED BY <1>1, <2>2, LinksDiffer DEF Roles
<1>9. DistinctOK
  BY <1>7 DEF DistinctOK, HasBoth, Slots
<1>10. FrontOK
  BY <1>7 DEF FrontOK, Front
<1> QED BY <1>4, <1>6, <1>8, <1>9, <1>10 DEF SeatInv

\* The generated bracket satisfies the whole invariant.
LEMMA InitInv == Wired /\ Init => Inv
<1> SUFFICES ASSUME Wired, Init PROVE Inv
  OBVIOUS
<1>1. TypeOK /\ SeatInv
  BY InitType, InitSeats
<1>2. \A m \in Matches : /\ winner[m] = 0 /\ undone[m] = "no"
                         /\ saga[m].step = "none"
                         /\ status[m] = IF HasBoth(m) THEN "ready" ELSE "pending"
  BY DEF Init, NoSaga
<1>3. admin.step = "idle"
  BY DEF Init, NoAdmin
<1>4. ResultOK /\ PairedOK /\ PendingOK
  BY <1>2 DEF ResultOK, PairedOK, PendingOK
<1>5. AloneOK /\ AdminOK
  BY <1>2, <1>3 DEF AloneOK, AdminOK, Running, WriteStep
<1> QED BY <1>1, <1>4, <1>5 DEF Inv

-----------------------------------------------------------------------------
(* A result is carried along a link: steps of the saga and of an admin *)

Carry(m, role) ==
    seat' = IF Goes(m, role) THEN [seat EXCEPT ![Target(m, role)][Side(m, role)] = Fate(m, role)]
            ELSE seat

\* Either it was carried before, or the side is still empty.
LEMMA CarryEffect ==
    ASSUME Wired, TypeOK, SeatInv, NEW m \in Matches, NEW role \in Roles,
           winner[m] # 0, undone[m] = "no", Carry(m, role)
    PROVE  \/ seat' = seat
           \/ Goes(m, role) /\ Sent(m, role) = 0 /\ Written(m, role, Fate(m, role))
<1>1. CASE ~Goes(m, role)
  BY <1>1 DEF Carry
<1>2. CASE Goes(m, role) /\ Sent(m, role) = 0
  BY <1>2 DEF Carry, Written
<1>3. CASE Goes(m, role) /\ Sent(m, role) # 0
  <2>1. Fate(m, role) = seat[Target(m, role)][Side(m, role)]
    BY <1>3 DEF SeatInv, FateOK, Sent
  <2>2. seat \in [Matches -> [Slots -> 0..shape.n]] /\ Target(m, role) \in Matches
        /\ Side(m, role) \in Slots
    BY <1>3, LinkFacts DEF TypeOK
  <2>3. [seat EXCEPT ![Target(m, role)][Side(m, role)] = seat[Target(m, role)][Side(m, role)]] = seat
    BY <2>2
  <2> QED BY <1>3, <2>1, <2>3 DEF Carry
<1> QED BY <1>1, <1>2, <1>3

\* A player carried along a link leaves the seats sound and pairs no started match anew.
LEMMA CarryKeeps ==
    ASSUME Wired, TypeOK, SeatInv, ResultOK, PairedOK, NEW m \in Matches, NEW role \in Roles,
           winner[m] # 0, undone[m] = "no", Carry(m, role),
           UNCHANGED <<shape, winner, undone>>
    PROVE  /\ seat' \in [Matches -> [Slots -> 0..shape.n]]
           /\ SeatInv'
           /\ \A q \in Matches : HasBoth(q) => HasBoth(q)' /\ Players(q)' = Players(q)
           /\ \A q \in Matches : Players(q) \subseteq Players(q)'
           /\ \A q \in Matches : HasBoth(q)' => HasBoth(q) \/ Target(m, role) = q
<1> DEFINE t == Target(m, role)
           s == Side(m, role)
<1>1. CASE seat' = seat
  BY <1>1, StillSeats DEF TypeOK, HasBoth, Players
<1>2. CASE Goes(m, role) /\ Sent(m, role) = 0 /\ Written(m, role, Fate(m, role))
  <2>1. SeatInv'
    BY <1>2, FillSeats
  <2>2. Fate(m, role) \in 0..shape.n
    BY FatesDiffer DEF TypeOK
  <2>3. t \in Matches /\ s \in Slots
    BY <1>2, LinkFacts
  <2>4. UNCHANGED shape
    OBVIOUS
  <2>5. \A q \in Matches, r \in Slots :
            seat'[q][r] = IF q = t /\ r = s THEN Fate(m, role) ELSE seat[q][r]
    BY <1>2, <2>4, SeatsAfter
  <2>6. seat' \in [Matches -> [Slots -> 0..shape.n]]
    BY <1>2, <2>2, <2>3 DEF Written, TypeOK
  <2>7. seat[t][s] = 0 /\ Fate(m, role) # 0
    BY <1>2, FatesDiffer DEF Sent
  <2> HIDE DEF t, s
  <2>8. \A q \in Matches : HasBoth(q) => HasBoth(q)' /\ Players(q)' = Players(q)
    BY <2>3, <2>5, <2>7 DEF HasBoth, Players, Slots
  <2>9. \A q \in Matches : Players(q) \subseteq Players(q)'
    BY <2>3, <2>5, <2>7 DEF Players, Slots
  <2>10. \A q \in Matches : HasBoth(q)' => HasBoth(q) \/ t = q
    BY <2>5 DEF HasBoth, Slots
  <2> QED BY <2>1, <2>6, <2>8, <2>9, <2>10 DEF t
<1> QED BY <1>1, <1>2, CarryEffect

\* Both writers of a slot (the saga's assignment, the administrator's) are such a carry.
LEMMA AssignCarries ==
    ASSUME Wired, TypeOK, NEW m \in Matches, NEW role \in Roles, NEW x,
           x = Fate(m, role), Assign(m, role, x) \/ Place(m, role, x)
    PROVE  Carry(m, role)
<1>1. Goes(m, role) =>
        /\ determine_target_slot(m, Target(m, role)) = Side(m, role)
        /\ determine_target_position(m, Target(m, role), role) = Side(m, role)
        /\ Side(m, role) # 0
  BY LinkFacts DEF Slots
<1> QED BY <1>1 DEF Carry, Assign, Place, Goes

-----------------------------------------------------------------------------
(* The steps of the saga *)

\* One step of a match's saga changes that saga's step and no other match's.
LEMMA SagaMoves ==
    ASSUME TypeOK, NEW m \in Matches, NEW from, NEW to \in SagaSteps, Step(m, from, to)
    PROVE  /\ saga' \in [Matches -> [step : SagaSteps, win : 0..shape.n]]
           /\ saga[m].step = from
           /\ \A q \in Matches : /\ saga'[q].step = IF q = m THEN to ELSE saga[q].step
                                 /\ saga'[q].win = saga[q].win
<1>1. saga \in [Matches -> [step : SagaSteps, win : 0..shape.n]]
  BY DEF TypeOK
<1>2. saga' = [saga EXCEPT ![m] = [saga[m] EXCEPT !.step = to]] /\ saga[m].step = from
  BY <1>1 DEF Step
<1>3. [saga[m] EXCEPT !.step = to] \in [step : SagaSteps, win : 0..shape.n]
  BY <1>1
<1> QED BY <1>1, <1>2, <1>3

\* The running saga goes on to its next step.
LEMMA SagaAlone ==
    ASSUME TypeOK, AloneOK, NEW m \in Matches, NEW from, NEW to \in SagaSteps \ {"none", "dead"},
           Step(m, from, to), from \notin {"none", "done", "dead"},
           UNCHANGED <<shape, mode, misused, winner, undone, admin>>,
           \A role \in Roles : to = WriteStep(role) =>
                /\ Goes(m, role)
                /\ status'[Target(m, role)] = "pending" /\ HasBoth(Target(m, role))'
    PROVE  AloneOK'
<1>1. /\ saga[m].step = from
      /\ \A q \in Matches : /\ saga'[q].step = IF q = m THEN to ELSE saga[q].step
                            /\ saga'[q].win = saga[q].win
  BY SagaMoves
<1>2. Running(m) /\ admin.step = "idle" /\ \A q \in Matches : Running(q) => m = q
  BY <1>1 DEF AloneOK, Running
<1>3. \A q \in Matches, role \in Roles :
        saga'[q].step = WriteStep(role) => q = m /\ to = WriteStep(role)
  BY <1>1, <1>2 DEF Running, WriteStep
<1>4. Matches' = Matches /\ \A q, role : /\ Target(q, role)' = Target(q, role)
                                         /\ Goes(q, role)' <=> Goes(q, role)
  BY StillRows
<1>5. \A q \in Matches : Running(q)' => q = m
  BY <1>1, <1>2 DEF Running
<1>6. \A q \in Matches : saga'[q].step \notin {"none", "done"} =>
        saga'[q].win = winner'[q] /\ winner'[q] # 0 /\ undone'[q] = "no"
  BY <1>1 DEF AloneOK
<1>7. \A q \in Matches : saga'[q].step = "dead" => mode' = "play"
  BY <1>1 DEF AloneOK
<1> QED BY <1>2, <1>3, <1>4, <1>5, <1>6, <1>7 DEF AloneOK

\* The saga's two assignment steps preserve the invariant.
LEMMA CarryStep ==
    ASSUME Wired, Inv, NEW m \in Matches, NEW role \in Roles, NEW from, NEW to,
           <<role, from, to>> \in {<<"winner", "advance", "route">>, <<"loser", "route", "read_winner">>},
           Step(m, from, to), Assign(m, role, Fate(m, role)),
           UNCHANGED <<shape, mode, misused, status, winner, admin, undone, crashes, repairs>>
    PROVE  Inv'
<1>1. /\ TypeOK /\ SeatInv /\ ResultOK /\ PairedOK /\ AloneOK /\ AdminOK /\ PendingOK
      /\ to \in SagaSteps \ {"none", "dead", "write_winner", "write_loser"}
      /\ from \notin {"none", "done", "dead"}
      /\ to \in Ahead("winner") \cap Ahead("loser")
  BY DEF Inv, SagaSteps, Ahead
<1>2. /\ saga' \in [Matches -> [step : SagaSteps, win : 0..shape.n]]
      /\ saga[m].step = from
      /\ \A q \in Matches : saga'[q].step = IF q = m THEN to ELSE saga[q].step
  BY <1>1, SagaMoves
<1>3. winner[m] # 0 /\ undone[m] = "no" /\ admin.step = "idle"
  BY <1>1, <1>2 DEF AloneOK, Running
<1>4. Carry(m, role)
  BY <1>1, AssignCarries
<1>5. /\ seat' \in [Matches -> [Slots -> 0..shape.n]]
      /\ SeatInv'
      /\ \A q \in Matches : HasBoth(q) => HasBoth(q)' /\ Players(q)' = Players(q)
      /\ \A q \in Matches : HasBoth(q)' => HasBoth(q) \/ Target(m, role) = q
      /\ \A q \in Matches : Players(q) \subseteq Players(q)'
  BY <1>1, <1>3, <1>4, CarryKeeps
<1>6. Matches' = Matches /\ \A q, r : Target(q, r)' = Target(q, r)
  BY StillRows
<1>7. TypeOK'
  BY <1>1, <1>2, <1>5, <1>6 DEF TypeOK
<1>8. ResultOK'
  BY <1>1, <1>5, <1>6 DEF ResultOK
<1>9. PairedOK'
  BY <1>1, <1>3, <1>5, <1>6 DEF PairedOK, PendingStep
<1>10. AloneOK'
  BY <1>1, SagaAlone DEF WriteStep
<1>11. AdminOK'
  BY <1>3 DEF AdminOK
<1>12. PendingOK'
  <2> SUFFICES ASSUME NEW t \in Matches, status[t] = "pending", HasBoth(t)',
                      ~(mode \in {"manual", "repair"} /\ shape.format = "double")
               PROVE  \E q \in Matches, r \in Roles : Target(q, r) = t /\ saga'[q].step \in Ahead(r)
    BY <1>6 DEF PendingOK, Ahead
  <2>1. CASE Target(m, role) = t
    BY <2>1, <1>1, <1>2 DEF Roles
  <2>2. CASE HasBoth(t)
    <3>1. PICK q \in Matches, r \in Roles : Target(q, r) = t /\ saga[q].step \in Ahead(r)
      BY <2>2, <1>1, <1>3 DEF PendingOK
    <3>2. saga'[q].step \in Ahead(r)
      BY <3>1, <1>1, <1>2 DEF Roles
    <3> QED BY <3>1, <3>2
  <2> QED BY <2>1, <2>2, <1>5
<1> QED BY <1>5, <1>7, <1>8, <1>9, <1>10, <1>11, <1>12 DEF Inv

\* advance_winner and route_loser, as the saga runs them.
LEMMA AdvanceKeeps ==
    ASSUME Wired, Inv, NEW m \in Matches, StepAdvanceWinner(m) \/ StepRouteLoser(m) PROVE Inv'
<1>1. ASSUME saga[m].step \in {"advance", "route"}
      PROVE  saga[m].win = Fate(m, "winner") /\ Other(m, saga[m].win) = Fate(m, "loser")
  BY <1>1 DEF Inv, AloneOK, Fate
<1>2. CASE StepAdvanceWinner(m)
  <2>1. Assign(m, "winner", Fate(m, "winner")) /\ Step(m, "advance", "route")
    BY <1>1, <1>2 DEF StepAdvanceWinner, Step
  <2> QED BY <1>2, <2>1, CarryStep DEF StepAdvanceWinner, Roles
<1>3. CASE StepRouteLoser(m)
  <2>1. Assign(m, "loser", Fate(m, "loser")) /\ Step(m, "route", "read_winner")
    BY <1>1, <1>3 DEF StepRouteLoser, Step
  <2> QED BY <1>3, <2>1, CarryStep DEF StepRouteLoser, Roles
<1> QED BY <1>2, <1>3

\* The saga reads its target match before it marks it ready.
LEMMA ReadKeeps ==
    ASSUME Wired, Inv, NEW m \in Matches, NEW role \in Roles, ReadTarget(m, role) PROVE Inv'
<1> DEFINE t == Target(m, role)
           next == IF role = "winner" THEN "read_loser" ELSE "done"
           look == t # NoPos /\ status[t] = "pending" /\ HasBoth(t)
           to == IF look THEN WriteStep(role) ELSE next
<1>0. /\ TypeOK /\ SeatInv /\ ResultOK /\ PairedOK /\ AloneOK /\ AdminOK /\ PendingOK
      /\ Step(m, ReadStep(role), to)
      /\ UNCHANGED <<shape, mode, misused, seat, status, winner, admin, undone, crashes, repairs>>
  BY DEF Inv, ReadTarget
<1>1. /\ to \in SagaSteps \ {"none", "dead"}
      /\ ReadStep(role) \notin {"none", "done", "dead"}
      /\ \A r \in Roles : to = WriteStep(r) => look /\ r = role
  BY DEF SagaSteps, WriteStep, ReadStep, Roles
<1> HIDE DEF to
<1>2. /\ saga' \in [Matches -> [step : SagaSteps, win : 0..shape.n]]
      /\ saga[m].step = ReadStep(role)
      /\ \A q \in Matches : saga'[q].step = IF q = m THEN to ELSE saga[q].step
  BY <1>0, <1>1, SagaMoves
<1>3. admin.step = "idle"
  BY <1>0, <1>1, <1>2 DEF AloneOK, Running
<1>4. Matches' = Matches /\ \A q, r : Target(q, r)' = Target(q, r)
  BY <1>0, StillRows
<1>5. \A q : HasBoth(q)' <=> HasBoth(q)
  BY <1>0 DEF HasBoth
<1>6. SeatInv'
  BY <1>0, StillSeats
<1>7. TypeOK'
  BY <1>0, <1>2, <1>4 DEF TypeOK
<1>8. ResultOK'
  BY <1>0, <1>4 DEF ResultOK, Players
<1>9. PairedOK'
  BY <1>0, <1>3, <1>4, <1>5 DEF PairedOK, PendingStep
<1>15. \A r \in Roles : to = WriteStep(r) =>
            Goes(m, r) /\ status'[Target(m, r)] = "pending" /\ HasBoth(Target(m, r))'
  <2> SUFFICES ASSUME NEW r \in Roles, to = WriteStep(r)
               PROVE  Goes(m, r) /\ status'[Target(m, r)] = "pending" /\ HasBoth(Target(m, r))'
    OBVIOUS
  <2>1. look /\ r = role
    BY <1>1
  <2>2. HasBoth(t)' /\ status' = status
    BY <2>1, <1>0, <1>4 DEF HasBoth
  <2> QED BY <2>1, <2>2 DEF Goes
<1>10. AloneOK'
  BY <1>0, <1>1, <1>15, SagaAlone
<1>11. AdminOK'
  BY <1>0, <1>3 DEF AdminOK
<1>12. PendingOK'
  <2> SUFFICES ASSUME NEW x \in Matches, status[x] = "pending", HasBoth(x),
                      ~(mode \in {"manual", "repair"} /\ shape.format = "double")
               PROVE  \E q \in Matches, r \in Roles : Target(q, r) = x /\ saga'[q].step \in Ahead(r)
    BY <1>0, <1>4, <1>5 DEF PendingOK, Ahead
  <2>1. PICK q \in Matches, r \in Roles : Target(q, r) = x /\ saga[q].step \in Ahead(r)
    BY <1>0, <1>3 DEF PendingOK
  <2>2. CASE q # m
    BY <2>1, <2>2, <1>2
  <2>3. CASE q = m /\ r = role
    <3>1. x # NoPos
      BY KnownShape, <1>0, <2>1 DEF Matches, Rows, Positions, TreePositions, LosersPositions, GrandFinal, NoPos
    <3>2. look
      BY <2>1, <2>3, <3>1
    <3>3. to \in Ahead(role)
      BY <3>2 DEF to, WriteStep, Ahead, Roles
    <3> QED BY <2>1, <2>3, <3>3, <1>2
  <2>4. CASE q = m /\ r # role
    <3>1. role = "winner" /\ r = "loser"
      BY <2>1, <2>4, <1>2 DEF Roles, Ahead, ReadStep
    <3>2. to \in Ahead(r)
      BY <3>1 DEF to, Ahead, WriteStep
    <3> QED BY <2>1, <2>4, <3>2, <1>2
  <2> QED BY <2>2, <2>3, <2>4
<1> QED BY <1>6, <1>7, <1>8, <1>9, <1>10, <1>11, <1>12 DEF Inv

\* The saga writes the status it decided from an earlier read.
LEMMA WriteKeeps ==
    ASSUME Wired, Inv, NEW m \in Matches, NEW role \in Roles, WriteTarget(m, role) PROVE Inv'
<1> DEFINE t == Target(m, role)
           to == IF role = "winner" THEN "read_loser" ELSE "done"
<1>0. /\ TypeOK /\ SeatInv /\ ResultOK /\ PairedOK /\ AloneOK /\ AdminOK /\ PendingOK
      /\ Step(m, WriteStep(role), to)
      /\ status' = [status EXCEPT ![t] = "ready"]
      /\ UNCHANGED <<shape, mode, misused, seat, winner, admin, undone, crashes, repairs>>
  BY DEF Inv, WriteTarget
<1>1. /\ to \in SagaSteps \ {"none", "dead"}
      /\ WriteStep(role) \notin {"none", "done", "dead"}
      /\ \A r \in Roles : to # WriteStep(r)
  BY DEF SagaSteps, WriteStep, Roles
<1>2. /\ saga' \in [Matches -> [step : SagaSteps, win : 0..shape.n]]
      /\ saga[m].step = WriteStep(role)
      /\ \A q \in Matches : saga'[q].step = IF q = m THEN to ELSE saga[q].step
  BY <1>0, <1>1, SagaMoves
<1>3. admin.step = "idle"
  BY <1>0, <1>1, <1>2 DEF AloneOK, Running
<1>4. Matches' = Matches /\ \A q, r : Target(q, r)' = Target(q, r)
  BY <1>0, StillRows
<1>5. \A q : HasBoth(q)' <=> HasBoth(q)
  BY <1>0 DEF HasBoth
<1>6. SeatInv'
  BY <1>0, StillSeats
<1>13. t \in Matches /\ status[t] = "pending" /\ HasBoth(t)
  BY <1>0, <1>2, LinkFacts DEF AloneOK
<1>14. status' \in [Matches -> TournamentMatchStatus]
       /\ \A q \in Matches : status'[q] = IF q = t THEN "ready" ELSE status[q]
  BY <1>0, <1>13 DEF TypeOK, TournamentMatchStatus
<1> HIDE DEF t, to
<1>7. TypeOK'
  BY <1>0, <1>2, <1>4, <1>14 DEF TypeOK
<1>8. ResultOK'
  BY <1>0, <1>4, <1>13, <1>14 DEF ResultOK, Players
<1>9. PairedOK'
  BY <1>0, <1>3, <1>4, <1>5, <1>13, <1>14 DEF PairedOK, PendingStep
<1>10. AloneOK'
  BY <1>0, <1>1, SagaAlone
<1>11. AdminOK'
  BY <1>0, <1>3 DEF AdminOK
<1>12. PendingOK'
  <2> SUFFICES ASSUME NEW x \in Matches, status[x] = "pending", HasBoth(x), x # t,
                      ~(mode \in {"manual", "repair"} /\ shape.format = "double")
               PROVE  \E q \in Matches, r \in Roles : Target(q, r) = x /\ saga'[q].step \in Ahead(r)
    BY <1>0, <1>4, <1>5, <1>14 DEF PendingOK, Ahead
  <2>1. PICK q \in Matches, r \in Roles : Target(q, r) = x /\ saga[q].step \in Ahead(r)
    BY <1>0, <1>3 DEF PendingOK
  <2>2. CASE q # m
    BY <2>1, <2>2, <1>2
  <2>3. CASE q = m
    <3>1. r # role
      BY <2>1, <2>3 DEF t
    <3>2. role = "winner" /\ r = "loser"
      BY <2>1, <2>3, <3>1, <1>2 DEF Roles, Ahead, WriteStep
    <3> QED BY <2>1, <2>3, <3>2, <1>2 DEF to, Ahead
  <2> QED BY <2>2, <2>3
<1> QED BY <1>6, <1>7, <1>8, <1>9, <1>10, <1>11, <1>12 DEF Inv

\* A crash loses the saga's place, never what it wrote.
LEMMA CrashKeeps ==
    ASSUME Wired, Inv, NEW m \in Matches, CrashSaga(m) PROVE Inv'
<1>0. /\ TypeOK /\ SeatInv /\ ResultOK /\ PairedOK /\ AloneOK /\ AdminOK /\ PendingOK
      /\ Running(m) /\ mode = "play"
      /\ saga' = [saga EXCEPT ![m].step = "dead"]
      /\ crashes < MaxCrashes /\ crashes' = crashes + 1
      /\ UNCHANGED <<shape, mode, misused, seat, status, winner, admin, undone, repairs>>
  BY DEF Inv, CrashSaga
<1>1. Step(m, saga[m].step, "dead")
  BY <1>0 DEF Step
<1>2. /\ saga' \in [Matches -> [step : SagaSteps, win : 0..shape.n]]
      /\ \A q \in Matches : /\ saga'[q].step = IF q = m THEN "dead" ELSE saga[q].step
                            /\ saga'[q].win = saga[q].win
  BY <1>0, <1>1, SagaMoves DEF SagaSteps
<1>3. admin.step = "idle" /\ \A q \in Matches : Running(q) => m = q
  BY <1>0 DEF AloneOK
<1>4. Matches' = Matches /\ \A q, r : Target(q, r)' = Target(q, r)
  BY <1>0, StillRows
<1>5. \A q : HasBoth(q)' <=> HasBoth(q)
  BY <1>0 DEF HasBoth
<1>6. SeatInv'
  BY <1>0, StillSeats
<1>13. crashes' \in 0..MaxCrashes
  BY <1>0, ProgressionAssumption DEF TypeOK
<1>7. TypeOK'
  BY <1>0, <1>2, <1>4, <1>13 DEF TypeOK
<1>8. ResultOK'
  BY <1>0, <1>4 DEF ResultOK, Players
<1>9. PairedOK'
  BY <1>0, <1>3, <1>4, <1>5 DEF PairedOK, PendingStep
<1>10. AloneOK'
  <2>1. \A q \in Matches : ~Running(q)'
    BY <1>2, <1>3 DEF Running
  <2>2. \A q \in Matches, r \in Roles : saga'[q].step # WriteStep(r)
    BY <2>1 DEF Running, WriteStep
  <2>3. saga[m].step \notin {"none", "done"}
    BY <1>0 DEF Running
  <2>4. \A q \in Matches : saga'[q].step \notin {"none", "done"} =>
            saga'[q].win = winner'[q] /\ winner'[q] # 0 /\ undone'[q] = "no"
    BY <1>0, <1>2, <2>3 DEF AloneOK
  <2> QED BY <1>0, <1>4, <2>1, <2>2, <2>4 DEF AloneOK
<1>11. AdminOK'
  BY <1>0, <1>3 DEF AdminOK
<1>12. PendingOK'
  <2> SUFFICES ASSUME NEW x \in Matches, status[x] = "pending", HasBoth(x)
               PROVE  \E q \in Matches, r \in Roles : Target(q, r) = x /\ saga'[q].step \in Ahead(r)
    BY <1>0, <1>4, <1>5 DEF PendingOK, Ahead
  <2>1. PICK q \in Matches, r \in Roles : Target(q, r) = x /\ saga[q].step \in Ahead(r)
    BY <1>0, <1>3 DEF PendingOK
  <2>2. saga'[q].step \in Ahead(r)
    BY <2>1, <1>2 DEF Ahead
  <2> QED BY <2>1, <2>2
<1> QED BY <1>6, <1>7, <1>8, <1>9, <1>10, <1>11, <1>12 DEF Inv

\* A redriven saga finds its own earlier assignment and repeats it.
LEMMA RedriveKeeps ==
    ASSUME Wired, Inv, NEW m \in Matches, Redrive(m) PROVE Inv'
<1>0. /\ TypeOK /\ SeatInv /\ ResultOK /\ PairedOK /\ AloneOK /\ AdminOK /\ PendingOK
      /\ Quiet /\ Step(m, "dead", "advance")
      /\ UNCHANGED <<shape, mode, misused, seat, status, winner, admin, undone, crashes, repairs>>
  BY DEF Inv, Redrive, MayEnter
<1>2. /\ saga' \in [Matches -> [step : SagaSteps, win : 0..shape.n]]
      /\ saga[m].step = "dead"
      /\ \A q \in Matches : /\ saga'[q].step = IF q = m THEN "advance" ELSE saga[q].step
                            /\ saga'[q].win = saga[q].win
  BY <1>0, SagaMoves DEF SagaSteps
<1>3. admin.step = "idle" /\ \A q \in Matches : ~Running(q)
  BY <1>0 DEF Quiet
<1>4. Matches' = Matches /\ \A q, r : Target(q, r)' = Target(q, r)
  BY <1>0, StillRows
<1>5. \A q : HasBoth(q)' <=> HasBoth(q)
  BY <1>0 DEF HasBoth
<1>6. SeatInv'
  BY <1>0, StillSeats
<1>7. TypeOK'
  BY <1>0, <1>2, <1>4 DEF TypeOK
<1>8. ResultOK'
  BY <1>0, <1>4 DEF ResultOK, Players
<1>9. PairedOK'
  BY <1>0, <1>3, <1>4, <1>5 DEF PairedOK, PendingStep
<1>10. AloneOK'
  <2>1. \A q \in Matches : Running(q)' => q = m
    BY <1>2, <1>3 DEF Running
  <2>2. \A q \in Matches, r \in Roles : saga'[q].step # WriteStep(r)
    BY <1>2, <2>1 DEF Running, WriteStep
  <2>3. \A q \in Matches : saga'[q].step \notin {"none", "done"} =>
            saga'[q].win = winner'[q] /\ winner'[q] # 0 /\ undone'[q] = "no"
    BY <1>0, <1>2 DEF AloneOK
  <2>4. \A q \in Matches : saga'[q].step = "dead" => mode = "play"
    BY <1>0, <1>2 DEF AloneOK
  <2> QED BY <1>0, <1>3, <1>4, <2>1, <2>2, <2>3, <2>4 DEF AloneOK
<1>11. AdminOK'
  BY <1>0, <1>3 DEF AdminOK
<1>12. PendingOK'
  <2> SUFFICES ASSUME NEW x \in Matches, status[x] = "pending", HasBoth(x),
                      ~(mode \in {"manual", "repair"} /\ shape.format = "double")
               PROVE  \E q \in Matches, r \in Roles : Target(q, r) = x /\ saga'[q].step \in Ahead(r)
    BY <1>0, <1>4, <1>5 DEF PendingOK, Ahead
  <2>1. PICK q \in Matches, r \in Roles : Target(q, r) = x /\ saga[q].step \in Ahead(r)
    BY <1>0, <1>3 DEF PendingOK
  <2>2. saga'[q].step \in Ahead(r)
    BY <2>1, <1>2 DEF Ahead
  <2> QED BY <2>1, <2>2
<1> QED BY <1>6, <1>7, <1>8, <1>9, <1>10, <1>11, <1>12 DEF Inv

-----------------------------------------------------------------------------
(* A match is scheduled, started, decided or overridden while nothing runs *)

RepairsLeft == repairs' = repairs \/ (repairs > 0 /\ repairs' = repairs - 1)

\* The repair budget only shrinks within the case the model started from.
LEMMA CaseStill ==
    ASSUME TypeOK, UNCHANGED <<shape, mode>>, RepairsLeft
    PROVE  \E c \in Cases : shape' = c.shape /\ mode' = c.mode /\ repairs' \in 0..c.repairs
<1>1. PICK c \in Cases : shape = c.shape /\ mode = c.mode /\ repairs \in 0..c.repairs
  BY DEF TypeOK
<1>2. c.repairs \in Nat
  BY CaseFacts
<1>3. repairs' \in 0..c.repairs
  BY <1>1, <1>2 DEF RepairsLeft
<1> QED BY <1>1, <1>3

\* What is written of match m: its status, winner and note, and perhaps a saga
\* that starts.
Recorded(m, st, w, u, g) ==
    /\ status' = [status EXCEPT ![m] = st]
    /\ winner' = [winner EXCEPT ![m] = w]
    /\ undone' = [undone EXCEPT ![m] = u]
    /\ saga' = [saga EXCEPT ![m] = g]

\* Recording a result keeps the columns within their types.
LEMMA RecordTypes ==
    ASSUME TypeOK, NEW m \in Matches,
           NEW st \in {"scheduled", "in_progress", "completed", "forfeit"},
           NEW w \in 0..shape.n, NEW u \in {"no", "reverted", "overridden"},
           NEW g \in [step : SagaSteps, win : 0..shape.n], Recorded(m, st, w, u, g)
    PROVE  /\ status' \in [Matches -> TournamentMatchStatus]
           /\ winner' \in [Matches -> 0..shape.n]
           /\ undone' \in [Matches -> {"no", "reverted", "overridden"}]
           /\ saga' \in [Matches -> [step : SagaSteps, win : 0..shape.n]]
           /\ \A q \in Matches : /\ status'[q] = IF q = m THEN st ELSE status[q]
                                 /\ winner'[q] = IF q = m THEN w ELSE winner[q]
                                 /\ undone'[q] = IF q = m THEN u ELSE undone[q]
                                 /\ saga'[q] = IF q = m THEN g ELSE saga[q]
<1>1. st \in TournamentMatchStatus
  BY DEF TournamentMatchStatus
<1> QED BY <1>1 DEF TypeOK, Recorded

\* A recorded result, whoever records it, is of a match with both opponents and moves nobody yet.
LEMMA RecordKeeps ==
    ASSUME Wired, Inv, Quiet, NEW m \in Matches,
           NEW st \in {"scheduled", "in_progress", "completed", "forfeit"},
           NEW w \in 0..shape.n, NEW u \in {"no", "reverted", "overridden"},
           NEW g \in [step : SagaSteps, win : 0..shape.n], Recorded(m, st, w, u, g),
           UNCHANGED <<shape, mode, misused, seat, admin, crashes>>, RepairsLeft,
           status[m] # "pending",
           w # 0 <=> st \in {"completed", "forfeit"},
           w # 0 => w \in Players(m),
           winner[m] # 0 => w # 0,
           mode # "repair" => u = "no",
           u # "overridden" => winner[m] \in {0, w} /\ (winner[m] = w => undone[m] = u),
           \/ g = saga[m] /\ (winner[m] = 0 \/ mode = "repair" \/ (w = winner[m] /\ u = undone[m]))
           \/ g.step = "advance" /\ g.win = w /\ w # 0 /\ u = "no"
    PROVE  Inv'
<1>0. /\ TypeOK /\ SeatInv /\ ResultOK /\ PairedOK /\ AloneOK /\ AdminOK /\ PendingOK
      /\ admin.step = "idle" /\ \A q \in Matches : ~Running(q)
      /\ UNCHANGED shape
  BY DEF Inv, Quiet
<1>1. /\ status' \in [Matches -> TournamentMatchStatus]
      /\ winner' \in [Matches -> 0..shape.n]
      /\ undone' \in [Matches -> {"no", "reverted", "overridden"}]
      /\ saga' \in [Matches -> [step : SagaSteps, win : 0..shape.n]]
      /\ \A q \in Matches : /\ status'[q] = IF q = m THEN st ELSE status[q]
                            /\ winner'[q] = IF q = m THEN w ELSE winner[q]
                            /\ undone'[q] = IF q = m THEN u ELSE undone[q]
                            /\ saga'[q] = IF q = m THEN g ELSE saga[q]
  BY <1>0, RecordTypes
<1>2. Matches' = Matches /\ \A q, r : Target(q, r)' = Target(q, r) /\ (Goes(q, r)' <=> Goes(q, r))
  BY <1>0, StillRows
<1>3. \A q : (HasBoth(q)' <=> HasBoth(q)) /\ Players(q)' = Players(q)
  BY DEF HasBoth, Players
<1>4. HasBoth(m) /\ ~Bye(m)
  <2>1. HasBoth(m)
    BY <1>0 DEF PairedOK, PendingStep
  <2> QED BY <2>1, <1>0 DEF Bye, HasBoth, SeatInv, SeatedOK, Slots
<1>5. SeatInv'
  <2>1. ASSUME u # "overridden", NEW role \in Roles, Goes(m, role)
        PROVE  Sent(m, role) \in {0, Fate(m, role)'}
    <3>1. CASE winner[m] = 0
      BY <3>1, <2>1, <1>0, <1>4 DEF SeatInv, SentOK
    <3>2. CASE winner[m] = w /\ w # 0
      <4>1. Sent(m, role) \in {0, Fate(m, role)}
        BY <3>2, <2>1, <1>0 DEF SeatInv, FateOK
      <4>2. Fate(m, role)' = Fate(m, role)
        BY <3>2, <1>1 DEF Fate, Other
      <4> QED BY <4>1, <4>2
    <3> QED BY <3>1, <3>2, <2>1
  <2>2. UNCHANGED <<shape, seat>>
    OBVIOUS
  <2> QED BY <2>1, <2>2, <1>0, <1>1, RecordSeats
<1>6. TypeOK'
  <2>1. \E c \in Cases : shape' = c.shape /\ mode' = c.mode /\ repairs' \in 0..c.repairs
    BY <1>0, CaseStill
  <2> QED BY <2>1, <1>0, <1>1, <1>2 DEF TypeOK
<1>7. ResultOK'
  BY <1>0, <1>1, <1>2, <1>3 DEF ResultOK
<1>8. PairedOK'
  BY <1>0, <1>1, <1>2, <1>3, <1>4 DEF PairedOK, PendingStep
<1>9. AloneOK'
  <2>1. \A q \in Matches : Running(q)' => q = m
    BY <1>0, <1>1 DEF Running
  <2>2. \A q \in Matches, r \in Roles : saga'[q].step # WriteStep(r)
    BY <1>0, <1>1 DEF Running, WriteStep
  <2>3. ASSUME NEW q \in Matches, saga'[q].step \notin {"none", "done"}
        PROVE  saga'[q].win = winner'[q] /\ winner'[q] # 0 /\ undone'[q] = "no"
    <3>1. CASE q # m
      BY <2>3, <3>1, <1>0, <1>1 DEF AloneOK
    <3>2. CASE q = m /\ g.step = "advance" /\ g.win = w /\ w # 0 /\ u = "no"
      BY <3>2, <1>1
    <3>3. CASE q = m /\ g = saga[m]
      <4>1. saga[m].step \notin {"none", "done"} /\ saga[m].step = "dead"
        BY <2>3, <3>3, <1>0, <1>1 DEF Running
      <4>2. saga[m].win = winner[m] /\ winner[m] # 0 /\ undone[m] = "no" /\ mode = "play"
        BY <4>1, <1>0 DEF AloneOK
      <4>3. g.step # "advance"
        BY <4>1, <3>3
      <4>4. w = winner[m] /\ u = undone[m]
        BY <4>2, <4>3
      <4> QED BY <3>3, <4>2, <4>4, <1>1
    <3> QED BY <3>1, <3>2, <3>3
  <2>4. \A q \in Matches : saga'[q].step = "dead" => mode = "play"
    BY <1>0, <1>1 DEF AloneOK
  <2> QED BY <1>0, <1>2, <2>1, <2>2, <2>3, <2>4 DEF AloneOK
<1>10. AdminOK'
  BY <1>0 DEF AdminOK
<1>11. PendingOK'
  <2> SUFFICES ASSUME NEW x \in Matches, status'[x] = "pending", HasBoth(x),
                      ~(mode \in {"manual", "repair"} /\ shape.format = "double")
               PROVE  \E q \in Matches, r \in Roles : Target(q, r) = x /\ saga'[q].step \in Ahead(r)
    BY <1>2, <1>3 DEF PendingOK, Ahead
  <2>1. status[x] = "pending"
    BY <1>1
  <2>2. PICK q \in Matches, r \in Roles : Target(q, r) = x /\ saga[q].step \in Ahead(r)
    BY <2>1, <1>0 DEF PendingOK
  <2>3. saga'[q].step \in Ahead(r)
    BY <2>2, <1>1 DEF Ahead
  <2> QED BY <2>2, <2>3
<1> QED BY <1>5, <1>6, <1>7, <1>8, <1>9, <1>10, <1>11 DEF Inv

\* What a record that is left alone looks like.
LEMMA SameRecord ==
    ASSUME TypeOK, NEW m \in Matches
    PROVE  /\ [winner EXCEPT ![m] = winner[m]] = winner
           /\ [undone EXCEPT ![m] = undone[m]] = undone
           /\ [saga EXCEPT ![m] = saga[m]] = saga
           /\ winner[m] \in 0..shape.n
           /\ undone[m] \in {"no", "reverted", "overridden"}
           /\ saga[m] \in [step : SagaSteps, win : 0..shape.n]
BY DEF TypeOK

\* Scheduling and starting a match.
LEMMA ScheduleKeeps ==
    ASSUME Wired, Inv, NEW m \in Matches, Schedule(m) \/ StartMatch(m) PROVE Inv'
<1> DEFINE st == IF Schedule(m) THEN "scheduled" ELSE "in_progress"
<1>1. /\ status' = [status EXCEPT ![m] = st]
      /\ status[m] \in {"ready", "scheduled", "checking_in"}
      /\ UNCHANGED <<shape, mode, misused, seat, winner, saga, admin, undone, crashes, repairs>>
      /\ Quiet /\ st \in {"scheduled", "in_progress"}
  BY DEF Schedule, StartMatch, MayEnter, can_schedule, can_start
<1> HIDE DEF st
<1>2. winner[m] = 0 /\ TypeOK /\ (mode # "repair" => undone[m] = "no")
  BY <1>1 DEF Inv, ResultOK
<1>3. Recorded(m, st, winner[m], undone[m], saga[m])
  BY <1>1, <1>2, SameRecord DEF Recorded
<1> QED BY <1>1, <1>2, <1>3, SameRecord, RecordKeeps DEF RepairsLeft

\* A confirmed result starts the saga.
LEMMA ConfirmKeeps ==
    ASSUME Wired, Inv, NEW m \in Matches, NEW w \in Players(m), ConfirmResult(m, w) PROVE Inv'
<1> DEFINE g == [step |-> "advance", win |-> w]
<1>1. /\ status' = [status EXCEPT ![m] = "completed"]
      /\ winner' = [winner EXCEPT ![m] = w]
      /\ saga' = [saga EXCEPT ![m] = g]
      /\ undone' = [undone EXCEPT ![m] = "no"]
      /\ UNCHANGED <<shape, mode, misused, seat, admin, crashes, repairs>>
      /\ status[m] \in {"in_progress", "awaiting_result"} /\ Quiet
  BY DEF ConfirmResult, MayEnter, can_submit_result
<1>2. winner[m] = 0 /\ TypeOK
  BY <1>1 DEF Inv, ResultOK
<1>3. w \in 0..shape.n /\ w # 0
  BY <1>2 DEF TypeOK, Players, Slots
<1>4. Recorded(m, "completed", w, "no", g)
  BY <1>1 DEF Recorded
<1>5. g \in [step : SagaSteps, win : 0..shape.n] /\ g.step = "advance" /\ g.win = w
  BY <1>3 DEF SagaSteps
<1> HIDE DEF g
<1> QED BY <1>1, <1>2, <1>3, <1>4, <1>5, RecordKeeps DEF RepairsLeft

\* A forfeit starts the saga.
LEMMA ForfeitKeeps ==
    ASSUME Wired, Inv, NEW m \in Matches, NEW w \in Players(m), Forfeit(m, w) PROVE Inv'
<1>1. /\ status' = [status EXCEPT ![m] = "forfeit"]
      /\ winner' = [winner EXCEPT ![m] = w]
      /\ undone' = [undone EXCEPT ![m] = "no"]
      /\ UNCHANGED <<shape, mode, misused, seat, saga, admin, crashes, repairs>>
      /\ status[m] \in {"scheduled", "checking_in", "pick_ban", "in_progress", "awaiting_result"}
      /\ Quiet
  BY DEF Forfeit, MayEnter, can_forfeit
<1>2. winner[m] = 0 /\ TypeOK
  BY <1>1 DEF Inv, ResultOK
<1>3. w \in 0..shape.n /\ w # 0
  BY <1>2 DEF TypeOK, Players, Slots
<1>4. Recorded(m, "forfeit", w, "no", saga[m])
  BY <1>1, <1>2, SameRecord DEF Recorded
<1> QED BY <1>1, <1>2, <1>3, <1>4, SameRecord, RecordKeeps DEF RepairsLeft

\* An overridden result changes the winner and moves nobody: the invariant says so of its match.
LEMMA OverrideKeeps ==
    ASSUME Wired, Inv, NEW m \in Matches, OverrideResult(m) PROVE Inv'
<1> DEFINE w == Other(m, winner[m])
<1>1. /\ winner' = [winner EXCEPT ![m] = w]
      /\ undone' = [undone EXCEPT ![m] = "overridden"]
      /\ UNCHANGED <<shape, mode, misused, seat, status, saga, admin, crashes>>
      /\ RepairsLeft /\ Quiet /\ mode = "repair" /\ winner[m] # 0
  <2>1. winner' = [winner EXCEPT ![m] = Other(m, winner[m])]
    BY DEF OverrideResult, Inv, TypeOK
  <2> QED BY <2>1 DEF OverrideResult, MayEnter, RepairsLeft
<1>2. TypeOK /\ SeatInv /\ ResultOK /\ PairedOK
  BY DEF Inv
<1>3. HasBoth(m) /\ status[m] \in {"completed", "forfeit"}
  BY <1>1, <1>2, BegunPaired DEF Begun, ResultOK
<1>4. w \in Players(m) /\ w # 0 /\ w \in 0..shape.n
  BY <1>2, <1>3 DEF Other, Players, HasBoth, TypeOK, Slots
<1>5. [status EXCEPT ![m] = status[m]] = status
  BY <1>2 DEF TypeOK
<1>6. Recorded(m, status[m], w, "overridden", saga[m])
  BY <1>1, <1>2, <1>5, SameRecord DEF Recorded
<1> HIDE DEF w
<1> QED BY <1>1, <1>2, <1>3, <1>4, <1>6, SameRecord, RecordKeeps

-----------------------------------------------------------------------------
(* The endpoints of an admin *)

AdminRecords == [op : {"none", "process", "revert", "reapply"}, step : AdminSteps,
                 match : Matches \cup {NoPos}, win : 0..shape.n, lose : 0..shape.n]

Resting == \A m \in Matches : saga[m].step \in {"none", "done"}

\* While the administrator repairs the bracket no saga is running.
LEMMA SagasRest ==
    ASSUME AloneOK, AdminOK, (Quiet /\ mode # "play") \/ admin.step # "idle"
    PROVE  Resting
<1>1. mode # "play" /\ \A m \in Matches : ~Running(m)
  BY DEF AloneOK, AdminOK, Quiet
<1> QED BY <1>1 DEF Resting, AloneOK, Running

\* Nothing else moves while an admin's request runs.
LEMMA RestKeeps ==
    ASSUME Resting, UNCHANGED <<shape, saga>> PROVE AloneOK' /\ Resting'
<1>1. Matches' = Matches
  BY StillRows
<1> QED BY <1>1 DEF AloneOK, Resting, Running, WriteStep

\* A match with both opponents that waits as pending while nothing runs is one a repair left.
LEMMA RestPending ==
    ASSUME Resting, PendingOK, NEW m \in Matches, status[m] = "pending", HasBoth(m),
           admin.step \notin {"route", "mark"}
    PROVE  mode \in {"manual", "repair"} /\ shape.format = "double"
BY DEF PendingOK, Resting, Ahead

\* A repair is admitted.
LEMMA EnterKeeps ==
    ASSUME Wired, Inv, NEW op \in {"process", "revert", "reapply"},
           NEW step \in {"record", "withdraw_winner"}, NEW m \in Matches,
           NEW w \in 0..shape.n, NEW l \in 0..shape.n,
           Enter(op, step, m, w, l), misused' \in BOOLEAN,
           IF op = "process" THEN step = "record" /\ mode = "manual"
           ELSE step = "withdraw_winner" /\ mode = "repair",
           op # "revert" => HasBoth(m) /\ w \in Players(m) /\ l = Other(m, w),
           op = "process" => winner[m] \in {0, w}
    PROVE  Inv'
<1>0. /\ TypeOK /\ SeatInv /\ ResultOK /\ PairedOK /\ AloneOK /\ AdminOK /\ PendingOK
      /\ Quiet /\ admin.step = "idle"
      /\ RepairsLeft
      /\ admin' = [op |-> op, step |-> step, match |-> m, win |-> w, lose |-> l]
      /\ UNCHANGED <<shape, mode, seat, status, winner, saga, undone, crashes>>
  BY DEF Inv, Enter, MayEnter, RepairsLeft, Quiet
<1>1. Resting
  BY <1>0, SagasRest
<1>2. Matches' = Matches /\ \A q, r : Target(q, r)' = Target(q, r)
  BY <1>0, StillRows
<1>3. \A q : (HasBoth(q)' <=> HasBoth(q)) /\ Players(q)' = Players(q)
  BY <1>0 DEF HasBoth, Players
<1>4. /\ admin'.op = op /\ admin'.step = step /\ admin'.match = m /\ admin'.win = w
      /\ admin'.lose = l
      /\ admin' \in [op : {"none", "process", "revert", "reapply"}, step : AdminSteps,
                     match : Matches \cup {NoPos}, win : 0..shape.n, lose : 0..shape.n]
  BY <1>0 DEF AdminSteps
<1>5. TypeOK'
  <2>1. \E c \in Cases : shape' = c.shape /\ mode' = c.mode /\ repairs' \in 0..c.repairs
    BY <1>0, CaseStill
  <2> QED BY <2>1, <1>0, <1>2, <1>4 DEF TypeOK
<1>6. SeatInv' /\ AloneOK'
  BY <1>0, <1>1, StillSeats, RestKeeps
<1>7. ResultOK'
  BY <1>0, <1>2, <1>3 DEF ResultOK
<1>8. PairedOK'
  BY <1>0, <1>2, <1>3 DEF PairedOK, PendingStep
<1>9. AdminOK'
  <2>1. w \in Players(m) => w # 0
    BY DEF Players
  <2>2. Other(m, w)' = Other(m, w)
    BY <1>0 DEF Other
  <2> QED BY <2>1, <2>2, <1>0, <1>2, <1>3, <1>4 DEF AdminOK, PendingStep
<1>10. PendingOK'
  BY <1>0, <1>1, <1>2, <1>3, RestPending DEF PendingOK
<1> QED BY <1>5, <1>6, <1>7, <1>8, <1>9, <1>10 DEF Inv

\* The three requests of the administrator, as long as they name results.
LEMMA RequestKeeps ==
    ASSUME Wired, Inv, ~misused', NEW m \in Matches, NEW w \in 1..shape.n, NEW l \in 1..shape.n,
           RevertProgression(m) \/ ProcessProgression(m, w, l) \/ ReapplyProgression(m, w)
    PROVE  Inv'
<1>0. 0 \in 0..shape.n /\ w \in 0..shape.n /\ l \in 0..shape.n
  BY CaseFacts DEF Inv, TypeOK
<1>1. CASE RevertProgression(m)
  <2>1. misused' \in BOOLEAN
    BY <1>1 DEF RevertProgression, Inv, TypeOK
  <2> QED BY <1>0, <1>1, <2>1, EnterKeeps DEF RevertProgression
<1>2. CASE ProcessProgression(m, w, l)
  <2>1. IsResult(m, w, l) /\ misused' \in BOOLEAN
    BY <1>2 DEF ProcessProgression
  <2> QED BY <1>0, <1>2, <2>1, EnterKeeps DEF ProcessProgression, IsResult
<1>3. CASE ReapplyProgression(m, w)
  <2>1. w \in Players(m) /\ Other(m, w) # 0 /\ misused' \in BOOLEAN
    BY <1>3 DEF ReapplyProgression
  <2>2. HasBoth(m) /\ Other(m, w) \in 0..shape.n
    BY <2>1 DEF HasBoth, Players, Other, Inv, TypeOK, Slots
  <2> QED BY <1>0, <1>3, <2>1, <2>2, EnterKeeps DEF ReapplyProgression
<1> QED BY <1>1, <1>2, <1>3

\* Moving to the next step of a repair keeps its record within its type.
LEMMA GotoType ==
    ASSUME TypeOK, NEW step \in AdminSteps, Goto(step), UNCHANGED shape
    PROVE  /\ admin' \in AdminRecords'
           /\ admin'.op = admin.op /\ admin'.step = step
           /\ admin'.match = admin.match /\ admin'.win = admin.win /\ admin'.lose = admin.lose
<1>1. Matches' = Matches
  BY StillRows
<1>2. admin \in AdminRecords
  BY DEF TypeOK, AdminRecords
<1> QED BY <1>1, <1>2 DEF Goto, AdminRecords

\* A request that goes on alone and writes at most seats, statuses and records.
LEMMA AdminKeeps ==
    ASSUME Wired, Inv, admin.step # "idle",
           UNCHANGED <<shape, mode, misused, saga, crashes, repairs>>,
           admin' \in AdminRecords',
           seat' \in [Matches -> [Slots -> 0..shape.n]],
           status' \in [Matches -> TournamentMatchStatus],
           winner' \in [Matches -> 0..shape.n],
           undone' \in [Matches -> {"no", "reverted", "overridden"}],
           SeatInv', ResultOK', PairedOK', AdminOK', PendingOK'
    PROVE  Inv'
<1>1. TypeOK /\ AloneOK /\ AdminOK /\ Matches' = Matches
  BY StillRows DEF Inv
<1>2. AloneOK'
  BY <1>1, SagasRest, RestKeeps
<1>3. admin' \in [op : {"none", "process", "revert", "reapply"}, step : AdminSteps,
                  match : Matches' \cup {NoPos}, win : 0..shape.n, lose : 0..shape.n]
  BY DEF AdminRecords
<1>4. RepairsLeft
  BY DEF RepairsLeft
<1>5. \E c \in Cases : shape' = c.shape /\ mode' = c.mode /\ repairs' \in 0..c.repairs
  BY <1>1, <1>4, CaseStill
<1>6. TypeOK'
  BY <1>1, <1>3, <1>5 DEF TypeOK
<1> QED BY <1>2, <1>6 DEF Inv

\* What a repair may rely on at any of its steps.
LEMMA AdminParts ==
    ASSUME Inv, admin.step # "idle"
    PROVE  /\ TypeOK /\ SeatInv /\ ResultOK /\ PairedOK /\ AloneOK /\ AdminOK /\ PendingOK
           /\ Resting /\ admin.match \in Matches
           /\ admin \in AdminRecords
           /\ seat \in [Matches -> [Slots -> 0..shape.n]]
           /\ status \in [Matches -> TournamentMatchStatus]
           /\ winner \in [Matches -> 0..shape.n]
           /\ undone \in [Matches -> {"no", "reverted", "overridden"}]
<1>1. TypeOK /\ SeatInv /\ ResultOK /\ PairedOK /\ AloneOK /\ AdminOK /\ PendingOK
  BY DEF Inv
<1>2. Resting
  BY <1>1, SagasRest
<1>3. admin.match \in Matches
  BY <1>1 DEF AdminOK
<1> QED BY <1>1, <1>2, <1>3 DEF TypeOK, AdminRecords

\* Withdrawal is done with one link, which has nobody now.
LEMMA NextLink ==
    ASSUME Wired, Inv, NEW role \in Roles, admin.step \in {WithdrawStep(role), PendingStep(role)},
           Goto(AfterWithdraw(role)), NoteRevert(role), Emptied(role),
           UNCHANGED <<shape, mode, misused, seat, winner, saga, crashes, repairs>>,
           status' \in [Matches -> TournamentMatchStatus], ResultOK',
           \A q \in Matches : status'[q] # status[q] => status'[q] = "pending" /\ ~HasBoth(q),
           \A q \in Matches : status'[q] # "pending" => HasBoth(q)
    PROVE  Inv'
<1> DEFINE m == admin.match
<1>1. /\ TypeOK /\ SeatInv /\ ResultOK /\ PairedOK /\ AloneOK /\ AdminOK /\ PendingOK
      /\ Resting /\ m \in Matches
      /\ admin.step \notin {"idle", "route", "mark", "record", "advance"}
      /\ UNCHANGED <<shape, seat, winner>>
  BY AdminParts DEF WithdrawStep, PendingStep, Roles
<1>2. admin.op # "process" /\ mode = "repair"
  BY <1>1 DEF AdminOK
<1>3. role = "loser" => Emptied("winner")
  BY <1>1 DEF AdminOK, WithdrawStep, PendingStep
<1>4. /\ AfterWithdraw(role) \in AdminSteps
      /\ AfterWithdraw(role) \in {"withdraw_loser", "record", "idle"}
      /\ AfterWithdraw(role) = "withdraw_loser" => role = "winner"
      /\ AfterWithdraw(role) = "record" => role = "loser" /\ admin.op = "reapply"
  BY DEF AfterWithdraw, AdminSteps, Roles
<1>5. /\ admin' \in AdminRecords'
      /\ admin'.op = admin.op /\ admin'.step = AfterWithdraw(role)
      /\ admin'.match = m /\ admin'.win = admin.win /\ admin'.lose = admin.lose
  BY <1>1, <1>4, GotoType
<1>6. Matches' = Matches /\ \A q, r : Target(q, r)' = Target(q, r) /\ (Goes(q, r)' <=> Goes(q, r))
  BY StillRows
<1>7. \A q : (HasBoth(q)' <=> HasBoth(q)) /\ Players(q)' = Players(q)
  BY DEF HasBoth, Players
<1>8. \A q, r : Sent(q, r)' = Sent(q, r)
  BY StillRows DEF Sent
<1>9. /\ undone' \in [Matches -> {"no", "reverted", "overridden"}]
      /\ SeatInv'
  <2>1. role = "loser" /\ winner[m] # 0 => \A r \in Roles : Goes(m, r) => Sent(m, r) = 0
    <3>1. winner[m] # 0 => Players(m) # {}
      BY <1>1 DEF ResultOK
    <3> QED BY <3>1, <1>3 DEF Emptied, Roles
  <2>2. undone \in [Matches -> {"no", "reverted", "overridden"}]
    BY <1>1 DEF TypeOK
  <2>3. CASE role = "loser" /\ winner[m] # 0
    <3>1. undone' = [undone EXCEPT ![m] = "reverted"]
      BY <2>3 DEF NoteRevert
    <3>2. \A q \in Matches \ {m} : winner'[q] = winner[q] /\ undone'[q] = undone[q]
      BY <1>1, <2>2, <3>1
    <3> QED BY <1>1, <2>1, <2>2, <2>3, <3>1, <3>2, RecordSeats
  <2>4. CASE ~(role = "loser" /\ winner[m] # 0)
    <3>1. undone' = undone
      BY <2>4 DEF NoteRevert
    <3> QED BY <1>1, <2>2, <3>1, StillSeats
  <2> QED BY <2>3, <2>4
<1>10. PairedOK'
  BY <1>6, <1>7 DEF PairedOK
<1>11. PendingOK'
  <2> SUFFICES ASSUME NEW x \in Matches, status'[x] = "pending", HasBoth(x)
               PROVE  mode \in {"manual", "repair"} /\ shape.format = "double"
    BY <1>6, <1>7 DEF PendingOK
  <2>1. status[x] = "pending"
    OBVIOUS
  <2> QED BY <2>1, <1>1, RestPending
<1>12. \A r \in Roles : Emptied(r)' <=> Emptied(r)
  BY <1>5, <1>6, <1>7, <1>8 DEF Emptied
<1>13. admin.op = "reapply" => /\ HasBoth(m) /\ admin.win # 0 /\ admin.win \in Players(m)
                               /\ admin'.lose = Other(m, admin.win)'
  BY <1>1, <1>5 DEF AdminOK, Other
<1>14. \A r \in Roles : admin'.step # PendingStep(r)
  BY <1>4, <1>5 DEF PendingStep
<1>15. AdminOK'
  BY <1>1, <1>2, <1>3, <1>4, <1>5, <1>6, <1>7, <1>12, <1>13, <1>14 DEF AdminOK, Roles
<1>16. seat' \in [Matches -> [Slots -> 0..shape.n]] /\ winner' \in [Matches -> 0..shape.n]
  BY <1>1 DEF TypeOK
<1> QED BY <1>1, <1>5, <1>9, <1>10, <1>11, <1>15, <1>16, AdminKeeps

\* Taking a player out of the match it was sent to, or refusing because that match has begun.
LEMMA WithdrawKeeps ==
    ASSUME Wired, Inv, NEW role \in Roles, WithdrawFromTarget(role),
           NEW m \in Matches, m = admin.match, NEW t, t = Target(m, role)
    PROVE  Inv'
<1>0. /\ admin.step = WithdrawStep(role)
      /\ UNCHANGED <<shape, mode, misused, status, winner, saga, crashes, repairs>>
  BY DEF WithdrawFromTarget
<1>1. /\ TypeOK /\ SeatInv /\ ResultOK /\ PairedOK /\ AloneOK /\ AdminOK /\ PendingOK
      /\ Resting /\ m \in Matches
      /\ seat \in [Matches -> [Slots -> 0..shape.n]]
      /\ status \in [Matches -> TournamentMatchStatus]
      /\ winner \in [Matches -> 0..shape.n]
      /\ undone \in [Matches -> {"no", "reverted", "overridden"}]
      /\ admin.step \notin {"idle", "route", "mark"}
      /\ mode = "repair" /\ admin.op # "process"
      /\ UNCHANGED <<shape, winner>>
  <2>1. admin.step \notin {"idle", "route", "mark", "record", "advance"}
    BY <1>0 DEF WithdrawStep
  <2> QED BY <1>0, <2>1, AdminParts DEF AdminOK
<1>2. \A q \in Matches : status[q] # "pending" => HasBoth(q)
  BY <1>0, <1>1 DEF PairedOK, PendingStep, WithdrawStep, Roles
<1>3. Matches' = Matches /\ \A q, r : Target(q, r)' = Target(q, r) /\ (Goes(q, r)' <=> Goes(q, r))
  BY <1>1, StillRows
<1>4. CASE NothingToWithdraw(m, role) /\ Goto(AfterWithdraw(role)) /\ NoteRevert(role) /\ UNCHANGED seat
  <2>1. Emptied(role)
    BY <1>1, <1>4, LinkFacts DEF Emptied, NothingToWithdraw, Goes, Sent, Slots
  <2>2. ResultOK'
    BY <1>0, <1>1, <1>3, <1>4 DEF ResultOK, Players
  <2> QED BY <1>0, <1>1, <1>2, <1>4, <2>1, <2>2, NextLink
<1>5. CASE admin' = NoAdmin /\ UNCHANGED <<seat, undone>>
  <2>1. \A q : (HasBoth(q)' <=> HasBoth(q)) /\ Players(q)' = Players(q)
    BY <1>5 DEF HasBoth, Players
  <2>2. SeatInv'
    BY <1>1, <1>5, StillSeats
  <2>3. ResultOK' /\ PairedOK'
    BY <1>0, <1>1, <1>2, <1>3, <1>5, <2>1 DEF ResultOK, PairedOK
  <2>4. AdminOK' /\ admin' \in AdminRecords'
    <3>1. 0 \in 0..shape.n
      BY <1>1, CaseFacts DEF TypeOK
    <3> QED BY <1>1, <1>5, <3>1 DEF AdminOK, NoAdmin, AdminRecords, AdminSteps
  <2>5. PendingOK'
    BY <1>0, <1>1, <1>3, <2>1, RestPending DEF PendingOK
  <2> QED BY <1>0, <1>1, <1>5, <2>2, <2>3, <2>4, <2>5, AdminKeeps
<1>6. CASE /\ ~NothingToWithdraw(m, role) /\ ~Refused(m, role)
           /\ seat' = [seat EXCEPT ![t][ResolvedSlot(m, t, role)] = 0]
           /\ Goto(PendingStep(role))
           /\ UNCHANGED undone
  <2>1. Goes(m, role) /\ Players(m) # {}
    BY <1>6 DEF NothingToWithdraw, Goes
  <2>2. t \in Matches \ {m} /\ Side(m, role) \in Slots /\ ResolvedSlot(m, t, role) = Side(m, role)
    BY <1>1, <2>1, LinkFacts
  <2>3. Sent(m, role) # 0 /\ Written(m, role, 0)
    BY <1>6, <2>1, <2>2 DEF NothingToWithdraw, Goes, Sent, Written
  <2>4. ~Begun(t)
    BY <1>6 DEF Refused, MovedOn, Begun
  <2>5. ~Bye(m)
    BY <1>1, <2>1 DEF Bye, SeatInv, SeatedOK, Players, Slots
  <2>6. SeatInv'
    BY <1>1, <1>6, <2>1, <2>3, <2>4, <2>5, EmptySeats DEF Begun
  <2>7. /\ \A q \in Matches, r \in Slots :
            seat'[q][r] = IF q = t /\ r = Side(m, role) THEN 0 ELSE seat[q][r]
        /\ \A q \in Matches, r \in Roles :
            Goes(q, r) => Sent(q, r)' = IF q = m /\ r = role THEN 0 ELSE Sent(q, r)
    BY <1>1, <2>1, <2>3, SeatsAfter
  <2>8. seat' \in [Matches -> [Slots -> 0..shape.n]]
    <3>1. 0 \in 0..shape.n
      BY <1>1, CaseFacts DEF TypeOK
    <3> QED BY <1>1, <2>2, <2>3, <3>1 DEF Written
  <2>9. \A q \in Matches : /\ HasBoth(q)' => HasBoth(q)
                           /\ q # t => (HasBoth(q)' <=> HasBoth(q)) /\ Players(q)' = Players(q)
    BY <2>7 DEF HasBoth, Players, Slots
  <2>10. winner[t] = 0
    BY <2>4 DEF Begun
  <2>11. ResultOK'
    BY <1>0, <1>1, <1>3, <1>6, <2>9, <2>10 DEF ResultOK
  <2>12. /\ admin' \in AdminRecords'
         /\ admin'.op = admin.op /\ admin'.step = PendingStep(role)
         /\ admin'.match = m /\ admin'.win = admin.win /\ admin'.lose = admin.lose
    <3>1. PendingStep(role) \in AdminSteps
      BY DEF PendingStep, AdminSteps
    <3> QED BY <1>1, <1>6, <3>1, GotoType
  <2>13. PairedOK'
    <3> SUFFICES ASSUME NEW q \in Matches, status[q] # "pending"
                 PROVE  \/ HasBoth(q)'
                        \/ q = t /\ ~Begun(q)'
      BY <1>0, <1>3, <2>12 DEF PairedOK
    <3>1. ~Begun(t)'
      BY <1>0, <1>1, <1>3, <2>4 DEF Begun
    <3> QED BY <1>2, <2>9, <3>1, <1>3
  <2>14. PendingOK'
    <3> SUFFICES ASSUME NEW x \in Matches, status[x] = "pending", HasBoth(x)'
                 PROVE  mode \in {"manual", "repair"} /\ shape.format = "double"
      BY <1>0, <1>1, <1>3 DEF PendingOK
    <3> QED BY <1>1, <2>9, RestPending
  <2>15. AdminOK'
    <3>1. Sent(m, role)' = 0
      BY <1>1, <2>1, <2>7
    <3>2. Emptied("winner")'
      <4>1. CASE role = "winner"
        BY <3>1, <2>12, <4>1 DEF Emptied
      <4>2. CASE role = "loser"
        <5>1. Emptied("winner")
          BY <1>0, <1>1, <4>2 DEF AdminOK, WithdrawStep
        <5>2. Goes(m, "winner") => Sent(m, "winner") = 0
          BY <5>1, <2>1 DEF Emptied
        <5>3. Goes(m, "winner") => Sent(m, "winner")' = 0
          BY <5>2, <2>7, <1>1 DEF Roles
        <5> QED BY <5>3, <2>12, <1>3 DEF Emptied
      <4> QED BY <4>1, <4>2 DEF Roles
    <3>3. ~Begun(t)'
      BY <1>0, <1>1, <1>3, <2>4 DEF Begun
    <3>4. admin.op \in {"process", "reapply"} =>
            /\ HasBoth(m)' /\ admin.win # 0 /\ admin.win \in Players(m)'
            /\ admin'.lose = Other(m, admin.win)'
      <4>1. seat'[m][1] = seat[m][1] /\ seat'[m][2] = seat[m][2]
        BY <2>2, <2>7 DEF Slots
      <4> QED BY <1>1, <2>2, <2>9, <2>12, <4>1 DEF AdminOK, Other
    <3>5. \A r \in Roles : PendingStep(role) = PendingStep(r) => r = role
      BY DEF PendingStep, Roles
    <3>6. PendingStep(role) \in {"pending_winner", "pending_loser"}
      BY DEF PendingStep
    <3>7. \A r \in Roles : admin'.step = PendingStep(r) =>
            Goes(m, r)' /\ Sent(m, r)' = 0 /\ ~Begun(Target(m, r))'
      BY <1>3, <2>1, <2>12, <3>1, <3>3, <3>5
    <3>8. admin'.op # "process" /\ mode' = "repair"
      BY <1>0, <1>1, <2>12
    <3> QED BY <1>3, <2>12, <3>2, <3>4, <3>6, <3>7, <3>8 DEF AdminOK
  <2> QED BY <1>0, <1>1, <1>6, <2>6, <2>8, <2>11, <2>12, <2>13, <2>14, <2>15, AdminKeeps
<1> QED BY <1>4, <1>5, <1>6 DEF WithdrawFromTarget

\* The target that lost a player goes back to pending, the second write of a withdrawal.
LEMMA ReturnKeeps ==
    ASSUME Wired, Inv, NEW role \in Roles, ReturnTargetToPending(role) PROVE Inv'
<1> DEFINE m == admin.match
           t == Target(m, role)
<1>0. /\ admin.step = PendingStep(role)
      /\ status' = [status EXCEPT ![t] = IF target_is_still_untouched(status[t]) THEN "pending"
                                         ELSE status[t]]
      /\ Goto(AfterWithdraw(role)) /\ NoteRevert(role)
      /\ UNCHANGED <<shape, mode, misused, seat, winner, saga, crashes, repairs>>
  <2>1. status' = [status EXCEPT ![t] = IF target_is_still_untouched(@) THEN "pending" ELSE @]
    BY DEF ReturnTargetToPending
  <2> QED BY <2>1 DEF ReturnTargetToPending
<1>1. /\ TypeOK /\ ResultOK /\ PairedOK /\ AdminOK
      /\ m \in Matches
      /\ status \in [Matches -> TournamentMatchStatus]
      /\ Goes(m, role) /\ Sent(m, role) = 0 /\ ~Begun(t)
      /\ mode = "repair"
      /\ UNCHANGED shape
  <2>1. admin.step \notin {"idle", "route", "mark", "record", "advance"}
    BY <1>0 DEF PendingStep
  <2> QED BY <1>0, <2>1, AdminParts DEF AdminOK
<1>2. t \in Matches /\ ~HasBoth(t)
  BY <1>1, LinkFacts DEF HasBoth, Sent, Slots
<1>3. status' = [status EXCEPT ![t] = "pending"] /\ winner[t] = 0
  BY <1>0, <1>1 DEF Begun
<1>4. /\ status' \in [Matches -> TournamentMatchStatus]
      /\ \A q \in Matches : status'[q] = IF q = t THEN "pending" ELSE status[q]
  BY <1>1, <1>2, <1>3 DEF TournamentMatchStatus
<1>5. Matches' = Matches
  BY <1>1, StillRows
<1>6. ResultOK'
  BY <1>0, <1>1, <1>3, <1>4, <1>5 DEF ResultOK, Players
<1>7. \A q \in Matches : status'[q] # "pending" => HasBoth(q)
  <2>1. \A r \in Roles : admin.step = PendingStep(r) => r = role
    BY <1>0 DEF PendingStep, Roles
  <2> QED BY <1>1, <1>4, <2>1 DEF PairedOK
<1>8. Emptied(role)
  BY <1>1 DEF Emptied
<1> QED BY <1>0, <1>2, <1>4, <1>6, <1>7, <1>8, NextLink

\* The administrator's process request records its result.
LEMMA OutcomeKeeps ==
    ASSUME Wired, Inv, ~misused, RecordOutcome, NEW m \in Matches, m = admin.match PROVE Inv'
<1> DEFINE w == admin.win
<1>0. /\ admin.step = "record"
      /\ IF winner[m] = w THEN UNCHANGED <<status, winner>>
         ELSE /\ status' = [status EXCEPT ![m] = "completed"]
              /\ winner' = [winner EXCEPT ![m] = w]
      /\ undone' = [undone EXCEPT ![m] = "no"]
      /\ Goto("advance")
      /\ UNCHANGED <<shape, mode, misused, seat, saga, crashes, repairs>>
  BY AdminParts DEF RecordOutcome, AdminOK
<1>1. /\ TypeOK /\ SeatInv /\ ResultOK /\ PairedOK /\ AloneOK /\ AdminOK /\ PendingOK
      /\ Resting /\ admin.step # "idle"
      /\ admin \in AdminRecords
      /\ seat \in [Matches -> [Slots -> 0..shape.n]]
      /\ status \in [Matches -> TournamentMatchStatus]
      /\ winner \in [Matches -> 0..shape.n]
      /\ undone \in [Matches -> {"no", "reverted", "overridden"}]
      /\ UNCHANGED <<shape, seat>>
  BY <1>0, AdminParts
<1>2. /\ HasBoth(m) /\ w # 0 /\ w \in Players(m) /\ admin.lose = Other(m, w)
      /\ admin.op \in {"process", "reapply"}
      /\ IF admin.op = "process" THEN mode = "manual" /\ winner[m] \in {0, w}
         ELSE mode = "repair" /\ Emptied("winner") /\ Emptied("loser")
  BY <1>0, <1>1 DEF AdminOK
<1>3. w \in 0..shape.n
  BY <1>1 DEF AdminRecords
<1>4. /\ winner' \in [Matches -> 0..shape.n]
      /\ status' \in [Matches -> TournamentMatchStatus]
      /\ undone' \in [Matches -> {"no", "reverted", "overridden"}]
      /\ \A q \in Matches : /\ winner'[q] = IF q = m THEN w ELSE winner[q]
                            /\ undone'[q] = IF q = m THEN "no" ELSE undone[q]
                            /\ q # m => status'[q] = status[q]
      /\ status'[m] \in {"completed", "forfeit"}
  BY <1>0, <1>1, <1>2, <1>3 DEF ResultOK, TournamentMatchStatus
<1>5. Matches' = Matches /\ \A q, r : Target(q, r)' = Target(q, r) /\ (Goes(q, r)' <=> Goes(q, r))
  BY <1>1, StillRows
<1>6. \A q : (HasBoth(q)' <=> HasBoth(q)) /\ Players(q)' = Players(q)
  BY <1>1 DEF HasBoth, Players
<1>7. \A role \in Roles : Goes(m, role) => Sent(m, role) \in {0, Fate(m, role)'}
  <2>1. CASE admin.op = "reapply"
    BY <1>2, <2>1 DEF Emptied, Roles
  <2>2. CASE winner[m] = 0
    BY <1>1, <1>2, <2>2 DEF SeatInv, SentOK, SeatedOK, Bye, HasBoth, Slots
  <2>3. CASE mode = "manual" /\ winner[m] = w
    <3>1. undone[m] = "no"
      BY <1>1, <2>3 DEF ResultOK
    <3>2. \A role \in Roles : Fate(m, role)' = Fate(m, role)
      BY <1>1, <1>4, <2>3 DEF Fate, Other
    <3> QED BY <1>1, <1>2, <2>3, <3>1, <3>2 DEF SeatInv, FateOK
  <2> QED BY <1>2, <2>1, <2>2, <2>3
<1>8. SeatInv'
  <2>1. \A q \in Matches \ {m} : winner'[q] = winner[q] /\ undone'[q] = undone[q]
    BY <1>4
  <2>2. winner'[m] # 0
    BY <1>2, <1>4
  <2> QED BY <1>1, <1>7, <2>1, <2>2, RecordSeats
<1>9. ResultOK'
  BY <1>0, <1>1, <1>2, <1>4, <1>5, <1>6 DEF ResultOK
<1>10. PairedOK'
  BY <1>0, <1>1, <1>2, <1>4, <1>5, <1>6 DEF PairedOK, PendingStep
<1>11. PendingOK'
  <2> SUFFICES ASSUME NEW x \in Matches, status'[x] = "pending", HasBoth(x)
               PROVE  mode \in {"manual", "repair"} /\ shape.format = "double"
    BY <1>0, <1>5, <1>6 DEF PendingOK
  <2>1. status[x] = "pending"
    BY <1>4
  <2> QED BY <2>1, <1>0, <1>1, RestPending
<1>12. /\ admin' \in AdminRecords'
       /\ admin'.op = admin.op /\ admin'.step = "advance"
       /\ admin'.match = m /\ admin'.win = w /\ admin'.lose = admin.lose
  BY <1>0, <1>1, GotoType DEF AdminSteps
<1>13. AdminOK'
  <2>1. Other(m, w)' = Other(m, w)
    BY <1>0, <1>12 DEF Other
  <2> QED BY <1>0, <1>2, <1>4, <1>5, <1>6, <1>12, <2>1 DEF AdminOK, PendingStep
<1>14. seat' \in [Matches -> [Slots -> 0..shape.n]]
  BY <1>1
<1> QED BY <1>0, <1>1, <1>4, <1>8, <1>9, <1>10, <1>11, <1>12, <1>13, <1>14, AdminKeeps

\* A reapplied result is carried along both links again.
LEMMA AdminCarries ==
    ASSUME Wired, Inv, NEW m \in Matches, m = admin.match, NEW role \in Roles, NEW to,
           <<role, admin.step, to>> \in {<<"winner", "advance", "route">>, <<"loser", "route", "mark">>},
           Goto(to), Place(m, role, Fate(m, role)),
           UNCHANGED <<shape, mode, misused, status, winner, saga, undone, crashes, repairs>>
    PROVE  Inv'
<1>0. to \in {"route", "mark"} /\ to \in AdminSteps /\ admin.step \in {"advance", "route"}
      /\ UNCHANGED <<shape, winner, undone>>
  BY DEF AdminSteps
<1>1. /\ TypeOK /\ SeatInv /\ ResultOK /\ PairedOK /\ AdminOK
      /\ admin.step # "idle"
      /\ status \in [Matches -> TournamentMatchStatus]
      /\ winner \in [Matches -> 0..shape.n]
      /\ undone \in [Matches -> {"no", "reverted", "overridden"}]
  BY <1>0, AdminParts
<1>2. /\ HasBoth(m) /\ admin.win # 0 /\ admin.win \in Players(m)
      /\ admin.lose = Other(m, admin.win)
      /\ winner[m] = admin.win /\ undone[m] = "no"
      /\ admin.op \in {"process", "reapply"}
      /\ admin.op = "process" <=> mode = "manual"
      /\ admin.op # "process" => mode = "repair"
  BY <1>0, <1>1 DEF AdminOK
<1>3. Carry(m, role)
  BY <1>1, AssignCarries
<1>4. /\ seat' \in [Matches -> [Slots -> 0..shape.n]]
      /\ SeatInv'
      /\ \A q \in Matches : HasBoth(q) => HasBoth(q)' /\ Players(q)' = Players(q)
      /\ \A q \in Matches : Players(q) \subseteq Players(q)'
  BY <1>0, <1>1, <1>2, <1>3, CarryKeeps
<1>5. Matches' = Matches
  BY <1>0, StillRows
<1>6. /\ admin' \in AdminRecords'
      /\ admin'.op = admin.op /\ admin'.step = to
      /\ admin'.match = m /\ admin'.win = admin.win /\ admin'.lose = admin.lose
  BY <1>0, <1>1, GotoType
<1>7. ResultOK'
  BY <1>1, <1>4, <1>5 DEF ResultOK
<1>8. PairedOK'
  BY <1>0, <1>1, <1>4, <1>5 DEF PairedOK, PendingStep
<1>9. PendingOK'
  BY <1>0, <1>6 DEF PendingOK
<1>10. AdminOK'
  <2>1. seat'[m] = seat[m]
    BY <1>1, <1>3, LinkFacts DEF Carry
  <2>2. Other(m, admin.win)' = Other(m, admin.win)
    BY <1>6, <2>1 DEF Other
  <2> QED BY <1>0, <1>2, <1>4, <1>5, <1>6, <2>2 DEF AdminOK, PendingStep
<1> QED BY <1>0, <1>1, <1>4, <1>6, <1>7, <1>8, <1>9, <1>10, AdminKeeps

\* advance_winner and route_loser, as a repair runs them.
LEMMA AdminAdvanceKeeps ==
    ASSUME Wired, Inv, AdvanceWinner \/ RouteLoser, NEW m \in Matches, m = admin.match
    PROVE  Inv'
<1>1. ASSUME admin.step \in {"advance", "route"}
      PROVE  admin.win = Fate(m, "winner") /\ admin.lose = Fate(m, "loser")
  BY <1>1 DEF Inv, AdminOK, Fate
<1>2. CASE AdvanceWinner
  <2>1. Place(m, "winner", Fate(m, "winner")) /\ admin.step = "advance" /\ Goto("route")
    BY <1>1, <1>2 DEF AdvanceWinner
  <2> QED BY <1>2, <2>1, AdminCarries DEF AdvanceWinner, Roles
<1>3. CASE RouteLoser
  <2>1. Place(m, "loser", Fate(m, "loser")) /\ admin.step = "route" /\ Goto("mark")
    BY <1>1, <1>3 DEF RouteLoser
  <2> QED BY <1>3, <2>1, AdminCarries DEF RouteLoser, Roles
<1> QED BY <1>2, <1>3

\* A single elimination is one bracket.
LEMMA OneBracket ==
    ASSUME TypeOK, shape.format = "single", NEW m \in Matches PROVE SameBracket(m) = Matches
<1>1. Matches = TreePositions("R", shape.n)
  BY KnownShape DEF Matches, Rows, Positions
<1> QED BY <1>1 DEF SameBracket, TreePositions

\* The closing pass marks every match of the bracket that has both opponents.
LEMMA MarkKeeps ==
    ASSUME Wired, Inv, FindNewlyReadyMatches, NEW m \in Matches, m = admin.match PROVE Inv'
<1>0. /\ admin.step = "mark"
      /\ status' = [q \in Matches |->
                      IF q \in SameBracket(m) /\ status[q] = "pending" /\ HasBoth(q)
                      THEN "ready" ELSE status[q]]
      /\ admin' = NoAdmin
      /\ UNCHANGED <<shape, mode, misused, seat, winner, saga, undone, crashes, repairs>>
  BY DEF FindNewlyReadyMatches
<1>1. /\ TypeOK /\ SeatInv /\ ResultOK /\ PairedOK /\ AdminOK
      /\ admin.step # "idle"
      /\ seat \in [Matches -> [Slots -> 0..shape.n]]
      /\ status \in [Matches -> TournamentMatchStatus]
      /\ winner \in [Matches -> 0..shape.n]
      /\ undone \in [Matches -> {"no", "reverted", "overridden"}]
      /\ mode \in {"manual", "repair"}
      /\ UNCHANGED <<shape, seat>>
  <2>1. mode \in {"manual", "repair"}
    BY <1>0, AdminParts DEF AdminOK
  <2> QED BY <1>0, <2>1, AdminParts
<1>2. Matches' = Matches
  BY <1>1, StillRows
<1>3. \A q : (HasBoth(q)' <=> HasBoth(q)) /\ Players(q)' = Players(q)
  BY <1>1 DEF HasBoth, Players
<1>4. SeatInv'
  BY <1>0, <1>1, StillSeats
<1>5. status' \in [Matches -> TournamentMatchStatus]
  BY <1>0, <1>1 DEF TournamentMatchStatus
<1>6. ResultOK'
  BY <1>0, <1>1, <1>2, <1>3 DEF ResultOK
<1>7. PairedOK'
  BY <1>0, <1>1, <1>2, <1>3 DEF PairedOK, PendingStep
<1>8. PendingOK'
  <2> SUFFICES ASSUME NEW x \in Matches, status'[x] = "pending", HasBoth(x)
               PROVE  shape.format = "double"
    BY <1>0, <1>1, <1>2, <1>3 DEF PendingOK
  <2>1. x \notin SameBracket(m)
    BY <1>0
  <2>2. shape.format \in {"single", "double"}
    BY <1>1, CaseFacts DEF TypeOK
  <2> QED BY <1>1, <2>1, <2>2, OneBracket
<1>9. AdminOK' /\ admin' \in AdminRecords'
  <2>1. 0 \in 0..shape.n
    BY <1>1, CaseFacts DEF TypeOK
  <2> QED BY <1>0, <1>1, <2>1 DEF AdminOK, NoAdmin, AdminRecords, AdminSteps
<1> QED BY <1>0, <1>1, <1>4, <1>5, <1>6, <1>7, <1>8, <1>9, AdminKeeps

-----------------------------------------------------------------------------
(* The invariant holds, and what it says of seats, statuses and records *)

\* Every step of a repair preserves the invariant.
LEMMA AdminStepKeeps == ASSUME Wired, Inv, ~misused, AdminStep PROVE Inv'
<1>1. PICK m : m = admin.match
  OBVIOUS
<1>2. admin.step # "idle"
  BY DEF AdminStep, WithdrawFromTarget, ReturnTargetToPending, RecordOutcome, AdvanceWinner,
         RouteLoser, FindNewlyReadyMatches, WithdrawStep, PendingStep
<1>3. m \in Matches
  BY <1>1, <1>2 DEF Inv, AdminOK
<1>4. ASSUME NEW role \in Roles, WithdrawFromTarget(role) PROVE Inv'
  <2>1. PICK t : t = Target(m, role)
    OBVIOUS
  <2> QED BY <1>1, <1>3, <1>4, <2>1, WithdrawKeeps
<1> QED BY <1>1, <1>3, <1>4, ReturnKeeps, OutcomeKeeps, AdminAdvanceKeeps, MarkKeeps DEF AdminStep

\* A step, by what takes it.
LEMMA NextParts ==
    ASSUME TypeOK, Next
    PROVE  \/ \E m \in Matches : Schedule(m) \/ StartMatch(m) \/ OverrideResult(m)
           \/ \E m \in Matches : \E w \in Players(m) : ConfirmResult(m, w) \/ Forfeit(m, w)
           \/ \E m \in Matches, w, l \in 1..shape.n :
                RevertProgression(m) \/ ProcessProgression(m, w, l) \/ ReapplyProgression(m, w)
           \/ \E m \in Matches : SagaStep(m) \/ CrashSaga(m) \/ Redrive(m)
           \/ AdminStep
<1>1. PICK c \in Cases : shape = c.shape
  BY DEF TypeOK
<1>2. c.shape.n \in Nat \ {0, 1}
  BY ProgressionAssumption
<1>3. 1 \in 1..shape.n
  BY <1>1, <1>2
<1> QED BY <1>3 DEF Next

\* One side of one match gets a value of its type.
LEMMA SeatType ==
    ASSUME TypeOK, NEW t, NEW s, NEW x \in 0..shape.n, seat' = [seat EXCEPT ![t][s] = x]
    PROVE  seat' \in [Matches -> [Slots -> 0..shape.n]]
<1>1. seat \in [Matches -> [Slots -> 0..shape.n]]
  BY DEF TypeOK
<1>2. \A q \in Matches : seat'[q] \in [Slots -> 0..shape.n]
  BY <1>1
<1> QED BY <1>1, <1>2

\* A request that goes on, whoever it names, writes values of the right types.
LEMMA AdminTypes == ASSUME Wired, TypeOK, AdminStep PROVE TypeOK'
<1>1. /\ UNCHANGED <<shape, mode, misused, saga, crashes, repairs>>
      /\ UNCHANGED shape
  BY DEF AdminStep, WithdrawFromTarget, ReturnTargetToPending, RecordOutcome, AdvanceWinner,
         RouteLoser, FindNewlyReadyMatches
<1>2. /\ seat \in [Matches -> [Slots -> 0..shape.n]]
      /\ status \in [Matches -> TournamentMatchStatus]
      /\ winner \in [Matches -> 0..shape.n]
      /\ admin \in AdminRecords
      /\ undone \in [Matches -> {"no", "reverted", "overridden"}]
      /\ 0 \in 0..shape.n
  <2>1. 0 \in 0..shape.n
    BY CaseFacts DEF TypeOK
  <2> QED BY <2>1 DEF TypeOK, AdminRecords
<1>3. Matches' = Matches
  BY <1>1, StillRows
<1>4. \A role \in Roles : /\ AfterWithdraw(role) \in AdminSteps
                          /\ PendingStep(role) \in AdminSteps
  BY DEF AfterWithdraw, PendingStep, AdminSteps
<1>5. \A step \in AdminSteps : Goto(step) => admin' \in AdminRecords'
  BY <1>1, GotoType
<1>6. NoAdmin \in AdminRecords'
  BY <1>1, <1>2 DEF AdminRecords, NoAdmin, AdminSteps
<1>7. \A role : NoteRevert(role) => undone' \in [Matches -> {"no", "reverted", "overridden"}]
  BY <1>2 DEF NoteRevert
<1> DEFINE Typed == /\ seat' \in [Matches -> [Slots -> 0..shape.n]]
                    /\ status' \in [Matches -> TournamentMatchStatus]
                    /\ winner' \in [Matches -> 0..shape.n]
                    /\ admin' \in AdminRecords'
                    /\ undone' \in [Matches -> {"no", "reverted", "overridden"}]
<1>8. Typed
  <2>1. ASSUME NEW role \in Roles, WithdrawFromTarget(role) PROVE Typed
    <3>1. UNCHANGED <<status, winner>>
      BY <2>1 DEF WithdrawFromTarget
    <3>2. CASE UNCHANGED seat
      BY <1>2, <1>4, <1>5, <1>6, <1>7, <2>1, <3>1, <3>2 DEF WithdrawFromTarget
    <3> QED BY <1>2, <1>4, <1>5, <1>6, <1>7, <2>1, <3>1, <3>2, SeatType DEF WithdrawFromTarget
  <2>2. ASSUME NEW role \in Roles, ReturnTargetToPending(role) PROVE Typed
    <3>1. status' \in [Matches -> TournamentMatchStatus]
      BY <1>2, <2>2 DEF ReturnTargetToPending, TournamentMatchStatus
    <3> QED BY <1>2, <1>4, <1>5, <1>7, <2>2, <3>1 DEF ReturnTargetToPending
  <2>3. CASE RecordOutcome
    <3>1. admin.win \in 0..shape.n /\ "advance" \in AdminSteps
      BY <1>2 DEF AdminRecords, AdminSteps
    <3> QED BY <1>2, <1>5, <2>3, <3>1 DEF RecordOutcome, TournamentMatchStatus
  <2>4. ASSUME NEW role, NEW x \in 0..shape.n, NEW m, Place(m, role, x)
        PROVE  seat' \in [Matches -> [Slots -> 0..shape.n]]
    BY <1>2, <2>4, SeatType DEF Place
  <2>5. CASE AdvanceWinner \/ RouteLoser
    <3>1. /\ admin.win \in 0..shape.n /\ admin.lose \in 0..shape.n
          /\ {"route", "mark"} \subseteq AdminSteps
      BY <1>2 DEF AdminRecords, AdminSteps
    <3> QED BY <1>2, <1>5, <2>4, <2>5, <3>1 DEF AdvanceWinner, RouteLoser
  <2>6. CASE FindNewlyReadyMatches
    BY <1>2, <1>6, <2>6 DEF FindNewlyReadyMatches, TournamentMatchStatus
  <2> QED BY <2>1, <2>2, <2>3, <2>5, <2>6 DEF AdminStep
<1> QED BY <1>1, <1>3, <1>8 DEF TypeOK, AdminRecords

\* So does every step, whatever an admin has had processed.
LEMMA TypesKept == ASSUME Wired, TypeOK, [Next]_vars PROVE TypeOK'
<1>1. CASE UNCHANGED vars
  BY <1>1 DEF vars, TypeOK, Matches
<1>2. ASSUME UNCHANGED <<shape, mode>>
      PROVE  /\ Matches' = Matches
             /\ RepairsLeft => \E c \in Cases : shape' = c.shape /\ mode' = c.mode
                                                 /\ repairs' \in 0..c.repairs
  BY <1>2, StillRows, CaseStill
<1>3. ASSUME NEW m \in Matches, Schedule(m) \/ StartMatch(m) \/ OverrideResult(m) PROVE TypeOK'
  <2>1. UNCHANGED <<shape, mode>> /\ RepairsLeft
    BY <1>3 DEF Schedule, StartMatch, OverrideResult, RepairsLeft
  <2>2. OverrideResult(m) => winner' \in [Matches -> 0..shape.n]
    <3>1. OverrideResult(m) => winner' = [winner EXCEPT ![m] = Other(m, winner[m])]
      BY DEF OverrideResult, TypeOK
    <3>2. Other(m, winner[m]) \in 0..shape.n
      BY DEF TypeOK, Other, Slots
    <3> QED BY <3>1, <3>2 DEF TypeOK
  <2>3. /\ status' \in [Matches -> TournamentMatchStatus]
        /\ undone' \in [Matches -> {"no", "reverted", "overridden"}]
        /\ UNCHANGED <<seat, saga, admin, crashes, misused>>
    BY <1>3 DEF Schedule, StartMatch, OverrideResult, TypeOK, TournamentMatchStatus
  <2>4. winner' \in [Matches -> 0..shape.n]
    BY <1>3, <2>2 DEF Schedule, StartMatch, TypeOK
  <2> QED BY <1>2, <2>1, <2>3, <2>4 DEF TypeOK
<1>4. ASSUME NEW m \in Matches, NEW w \in Players(m), ConfirmResult(m, w) \/ Forfeit(m, w)
      PROVE  TypeOK'
  <2>1. w \in 0..shape.n
    BY DEF TypeOK, Players, Slots
  <2>2. [step |-> "advance", win |-> w] \in [step : SagaSteps, win : 0..shape.n]
    BY <2>1 DEF SagaSteps
  <2>3. /\ UNCHANGED <<shape, mode, repairs>>
        /\ UNCHANGED <<seat, admin, crashes, misused>>
    BY <1>4 DEF ConfirmResult, Forfeit
  <2>4. saga' \in [Matches -> [step : SagaSteps, win : 0..shape.n]]
    <3>1. CASE UNCHANGED saga
      BY <3>1 DEF TypeOK
    <3>2. CASE saga' = [saga EXCEPT ![m] = [step |-> "advance", win |-> w]]
      BY <2>2, <3>2 DEF TypeOK
    <3> QED BY <1>4, <3>1, <3>2 DEF ConfirmResult, Forfeit
  <2>5. winner' \in [Matches -> 0..shape.n]
    <3>1. winner' = [winner EXCEPT ![m] = w]
      BY <1>4 DEF ConfirmResult, Forfeit
    <3> QED BY <2>1, <3>1 DEF TypeOK
  <2>6. status' \in [Matches -> TournamentMatchStatus]
    <3>1. PICK st \in {"completed", "forfeit"} : status' = [status EXCEPT ![m] = st]
      BY <1>4 DEF ConfirmResult, Forfeit
    <3> QED BY <3>1 DEF TypeOK, TournamentMatchStatus
  <2>7. undone' \in [Matches -> {"no", "reverted", "overridden"}]
    <3>1. undone' = [undone EXCEPT ![m] = "no"]
      BY <1>4 DEF ConfirmResult, Forfeit
    <3> QED BY <3>1 DEF TypeOK
  <2>8. RepairsLeft
    BY <2>3 DEF RepairsLeft
  <2> QED BY <1>2, <2>3, <2>4, <2>5, <2>6, <2>7, <2>8 DEF TypeOK
<1>5. ASSUME NEW m \in Matches, NEW w \in 1..shape.n, NEW l \in 1..shape.n,
             RevertProgression(m) \/ ProcessProgression(m, w, l) \/ ReapplyProgression(m, w)
      PROVE  TypeOK'
  <2>1. 0 \in 0..shape.n /\ w \in 0..shape.n /\ l \in 0..shape.n /\ Other(m, w) \in 0..shape.n
    BY CaseFacts DEF TypeOK, Other, Slots
  <2>2. PICK op \in {"process", "revert", "reapply"}, step \in {"record", "withdraw_winner"},
             x \in 0..shape.n, y \in 0..shape.n : Enter(op, step, m, x, y)
    BY <1>5, <2>1 DEF RevertProgression, ProcessProgression, ReapplyProgression
  <2>3. misused' \in BOOLEAN
    BY <1>5 DEF RevertProgression, ProcessProgression, ReapplyProgression, TypeOK
  <2>4. /\ UNCHANGED <<shape, mode>> /\ RepairsLeft
        /\ UNCHANGED <<seat, status, winner, saga, undone, crashes>>
        /\ admin' = [op |-> op, step |-> step, match |-> m, win |-> x, lose |-> y]
    BY <2>2 DEF Enter, RepairsLeft
  <2>5. admin' \in AdminRecords
    BY <2>4 DEF AdminRecords, AdminSteps
  <2> QED BY <1>2, <2>3, <2>4, <2>5 DEF TypeOK, AdminRecords
<1>6. ASSUME NEW m \in Matches, SagaStep(m) \/ CrashSaga(m) \/ Redrive(m) PROVE TypeOK'
  <2>1. UNCHANGED <<shape, mode, misused, winner, admin, undone, repairs>>
    BY <1>6 DEF SagaStep, StepAdvanceWinner, StepRouteLoser, ReadTarget, WriteTarget, CrashSaga, Redrive
  <2>2. RepairsLeft
    BY <2>1 DEF RepairsLeft
  <2>3. saga' \in [Matches -> [step : SagaSteps, win : 0..shape.n]]
    <3>1. PICK to : saga' = [saga EXCEPT ![m].step = to] /\ to \in SagaSteps
      BY <1>6 DEF SagaStep, StepAdvanceWinner, StepRouteLoser, ReadTarget, WriteTarget, CrashSaga,
                  Redrive, Step, WriteStep, SagaSteps
    <3> QED BY <3>1 DEF TypeOK
  <2>4. seat' \in [Matches -> [Slots -> 0..shape.n]]
    <3>1. saga[m].win \in 0..shape.n /\ Other(m, saga[m].win) \in 0..shape.n
      BY DEF TypeOK, Other, Slots
    <3>2. ASSUME NEW role, NEW x \in 0..shape.n, Assign(m, role, x)
          PROVE  seat' \in [Matches -> [Slots -> 0..shape.n]]
      BY <3>2, SeatType DEF Assign, TypeOK
    <3>3. CASE StepAdvanceWinner(m) \/ StepRouteLoser(m)
      BY <3>1, <3>2, <3>3 DEF StepAdvanceWinner, StepRouteLoser
    <3>4. CASE UNCHANGED seat
      BY <3>4 DEF TypeOK
    <3> QED BY <1>6, <3>3, <3>4 DEF SagaStep, ReadTarget, WriteTarget, CrashSaga, Redrive
  <2>5. status' \in [Matches -> TournamentMatchStatus]
    <3>1. ASSUME NEW role, WriteTarget(m, role) PROVE status' \in [Matches -> TournamentMatchStatus]
      BY <3>1 DEF WriteTarget, TypeOK, TournamentMatchStatus
    <3>2. CASE UNCHANGED status
      BY <3>2 DEF TypeOK
    <3> QED BY <1>6, <3>1, <3>2
            DEF SagaStep, StepAdvanceWinner, StepRouteLoser, ReadTarget, CrashSaga, Redrive
  <2>6. crashes' \in 0..MaxCrashes
    <3>1. crashes' = crashes \/ (crashes < MaxCrashes /\ crashes' = crashes + 1)
      BY <1>6 DEF SagaStep, StepAdvanceWinner, StepRouteLoser, ReadTarget, WriteTarget, CrashSaga, Redrive
    <3> QED BY <3>1, ProgressionAssumption DEF TypeOK
  <2> QED BY <1>2, <2>1, <2>2, <2>3, <2>4, <2>5, <2>6 DEF TypeOK
<1> QED BY <1>1, <1>3, <1>4, <1>5, <1>6, AdminTypes, NextParts

\* An admin who has had something processed that was no result has done so for good.
LEMMA MisusedStays == ASSUME TypeOK, [Next]_vars, misused PROVE misused'
<1>1. ASSUME NEW m \in Matches, NEW w \in 1..shape.n, NEW l \in 1..shape.n,
             RevertProgression(m) \/ ProcessProgression(m, w, l) \/ ReapplyProgression(m, w)
      PROVE  misused'
  BY <1>1 DEF RevertProgression, ProcessProgression, ReapplyProgression
<1>2. CASE AdminStep
  BY <1>2 DEF AdminStep, WithdrawFromTarget, ReturnTargetToPending, RecordOutcome, AdvanceWinner,
              RouteLoser, FindNewlyReadyMatches
<1>3. ASSUME NEW m \in Matches, SagaStep(m) \/ CrashSaga(m) \/ Redrive(m) PROVE misused'
  BY <1>3 DEF SagaStep, StepAdvanceWinner, StepRouteLoser, ReadTarget, WriteTarget, CrashSaga, Redrive
<1>4. ASSUME NEW m \in Matches, Schedule(m) \/ StartMatch(m) \/ OverrideResult(m) PROVE misused'
  BY <1>4 DEF Schedule, StartMatch, OverrideResult
<1>5. ASSUME NEW m \in Matches, NEW w \in Players(m), ConfirmResult(m, w) \/ Forfeit(m, w)
      PROVE  misused'
  BY <1>5 DEF ConfirmResult, Forfeit
<1>6. CASE UNCHANGED vars
  BY <1>6 DEF vars
<1> QED BY <1>1, <1>2, <1>3, <1>4, <1>5, <1>6, NextParts

\* The invariant is inductive while an admin names results: one case per disjunct
\* of Next.
LEMMA NextInv == ASSUME Wired, Inv, ~misused', [Next]_vars PROVE Inv'
<1>0. ~misused
  BY MisusedStays DEF Inv
<1>1. ASSUME NEW m \in Matches, SagaStep(m) \/ CrashSaga(m) \/ Redrive(m) PROVE Inv'
  BY <1>1, AdvanceKeeps, ReadKeeps, WriteKeeps, CrashKeeps, RedriveKeeps DEF SagaStep
<1>2. ASSUME NEW m \in Matches, Schedule(m) \/ StartMatch(m) \/ OverrideResult(m) PROVE Inv'
  BY <1>2, ScheduleKeeps, OverrideKeeps
<1>3. ASSUME NEW m \in Matches, NEW w \in Players(m), ConfirmResult(m, w) \/ Forfeit(m, w)
      PROVE  Inv'
  BY <1>3, ConfirmKeeps, ForfeitKeeps
<1>6. ASSUME NEW m \in Matches, NEW w \in 1..shape.n, NEW l \in 1..shape.n,
             RevertProgression(m) \/ ProcessProgression(m, w, l) \/ ReapplyProgression(m, w)
      PROVE  Inv'
  BY <1>6, RequestKeeps
<1>4. CASE AdminStep
  BY <1>0, <1>4, AdminStepKeeps
<1>5. CASE UNCHANGED vars
  <2>1. /\ TypeOK' /\ ResultOK' /\ PairedOK' /\ AloneOK' /\ AdminOK' /\ PendingOK'
    <3>0. UNCHANGED <<shape, mode, misused, seat, status, winner, saga, admin, undone, crashes, repairs>>
      BY <1>5 DEF vars
    <3>1. /\ Matches' = Matches
          /\ \A m, s : SourceOf(m, s)' = SourceOf(m, s)
          /\ \A m, role : Target(m, role)' = Target(m, role)
          /\ \A m, role : Goes(m, role)' <=> Goes(m, role)
          /\ \A m, role : Side(m, role)' = Side(m, role)
      BY <3>0, StillRows
    <3>2. \A m : HasBoth(m)' <=> HasBoth(m)
      BY <3>0 DEF HasBoth
    <3>3. \A m : Players(m)' = Players(m)
      BY <3>0 DEF Players
    <3>4. \A m, role : Sent(m, role)' = Sent(m, role)
      BY <3>0, <3>1 DEF Sent
    <3>5. \A m : Begun(m)' <=> Begun(m)
      BY <3>0 DEF Begun
    <3>6. TypeOK'
      BY <3>0, <3>1 DEF TypeOK, Inv
    <3>7. ResultOK' /\ PairedOK' /\ PendingOK'
      BY <3>0, <3>1, <3>2, <3>3, <3>5 DEF Inv, ResultOK, PairedOK, PendingOK
    <3>8. AloneOK'
      BY <3>0, <3>1, <3>2 DEF Inv, AloneOK, Running
    <3>9. AdminOK'
      BY <3>0, <3>1, <3>2, <3>3, <3>4, <3>5 DEF Inv, AdminOK, Emptied, Other
    <3> QED BY <3>6, <3>7, <3>8, <3>9
  <2>2. SeatInv'
    BY <1>5, StillSeats DEF vars, Inv
  <2> QED BY <2>1, <2>2 DEF Inv
<1> QED BY <1>1, <1>2, <1>3, <1>4, <1>5, <1>6, NextParts DEF Inv

\* What holds in every reachable state: the types, and the invariant until an
\* admin has had something processed that was no result.
IInv == TypeOK /\ (misused \/ Inv)

\* The inductive invariant holds of every reachable state of every well wired bracket.
THEOREM Invariance == ASSUME Wired PROVE Spec => []IInv
<1>1. Init => IInv
  BY InitInv DEF IInv, Inv
<1>2. IInv /\ [Next]_vars => IInv'
  <2> SUFFICES ASSUME IInv, [Next]_vars PROVE IInv'
    OBVIOUS
  <2>1. TypeOK' /\ (misused => misused')
    BY TypesKept, MisusedStays DEF IInv
  <2>2. CASE misused'
    BY <2>1, <2>2 DEF IInv
  <2>3. CASE ~misused'
    BY <2>1, <2>3, NextInv DEF IInv
  <2> QED BY <2>2, <2>3
<1> QED BY <1>1, <1>2, PTL DEF Spec

\* The invariant entails the property the runs check.
LEMMA InvIsSound == ASSUME Wired, Inv PROVE SeatsAreSound
<1>0. /\ TypeOK /\ SeatInv /\ ResultOK /\ PairedOK /\ AloneOK /\ AdminOK /\ PendingOK
  BY DEF Inv
<1>1. NobodyWaitsTwice
  <2>1. ASSUME NEW m \in Matches, ~is_terminal(status[m]), NEW s \in Slots, seat[m][s] # 0
        PROVE  Front(m, s, seat[m][s])
    <3>1. winner[m] = 0
      BY <1>0, <2>1 DEF ResultOK, is_terminal
    <3>2. ~Bye(m)
      BY <1>0, <2>1 DEF SeatInv, SeatedOK, Bye
    <3>3. \A role \in Roles : Goes(m, role) => Sent(m, role) = 0
      BY <1>0, <3>1, <3>2 DEF SeatInv, SentOK
    <3> QED BY <2>1, <3>3 DEF Front
  <2>2. ASSUME NEW m \in Matches, NEW q \in Matches, m # q,
               ~is_terminal(status[m]), ~is_terminal(status[q]),
               NEW x \in Players(m) \cap Players(q)
        PROVE  FALSE
    <3>1. PICK s \in Slots, r \in Slots : seat[m][s] = x /\ seat[q][r] = x /\ x # 0
      BY DEF Players, Slots
    <3>2. Front(m, s, x) /\ Front(q, r, x)
      BY <2>1, <2>2, <3>1
    <3> QED BY <1>0, <2>2, <3>1, <3>2 DEF SeatInv, FrontOK
  <2> QED BY <1>0, <2>2 DEF NobodyWaitsTwice, SeatInv, DistinctOK
<1>2. ReadyMeansPaired
  <2> SUFFICES ASSUME Quiet, NEW m \in Matches
               PROVE  /\ status[m] # "pending" => HasBoth(m)
                      /\ status[m] = "pending" /\ HasBoth(m) =>
                            \/ \E q \in Matches : saga[q].step = "dead"
                            \/ mode \in {"manual", "repair"} /\ shape.format = "double"
    BY DEF ReadyMeansPaired
  <2>1. admin.step = "idle" /\ \A q \in Matches : saga[q].step \in {"none", "done", "dead"}
    BY DEF Quiet, Running
  <2>2. status[m] # "pending" => HasBoth(m)
    BY <1>0, <2>1 DEF PairedOK, PendingStep
  <2>3. status[m] = "pending" /\ HasBoth(m) =>
            \/ \E q \in Matches : saga[q].step = "dead"
            \/ mode \in {"manual", "repair"} /\ shape.format = "double"
    BY <1>0, <2>1 DEF PendingOK, Ahead
  <2> QED BY <2>2, <2>3
<1>3. RecordMatchesBracket
  BY <1>0 DEF RecordMatchesBracket, SeatInv, FateOK, Fate, Goes, Sent, Side, Roles
<1> QED BY <1>0, <1>1, <1>2, <1>3 DEF SeatsAreSound

\* The seats of a bracket, its statuses and its results tell one story, whatever
\* is forfeited, processed, overridden, reverted and reapplied and wherever a
\* saga dies, until an admin has something processed that is no result of the
\* match: nobody waits in two matches, what is offered for play is paired, no full
\* match is forgotten, and the next match holds the recorded winner.
THEOREM SeatsStaySound == ASSUME Wired PROVE Spec => []SeatsAreSound
<1>1. IInv => SeatsAreSound
  BY InvIsSound DEF IInv, SeatsAreSound
<1> QED BY <1>1, Invariance, PTL

-----------------------------------------------------------------------------
(* The abstract bracket, step by step *)

Started == {m \in Matches : winner[m] # 0 \/ ~target_is_still_untouched(status[m])}

\* The abstract tree's constants and mapped state, read through the refinement.
LEMMA TreeView ==
    ASSUME TypeOK
    PROVE  /\ Tree!Places = Matches
           /\ \A m \in Matches, s \in Slots : FeederOf[shape][m][s] = SourceOf(m, s).pos
           /\ \A m \in Matches : DrawnAt[shape][m] = Rows[shape][m].seated
BY KnownShape DEF Tree!Places, DrawnAt, FeederOf, Matches, SourceOf

\* The generated bracket is an initial state of the abstract tree.
LEMMA InitTree == Wired /\ Init => Tree!TreeInit
<1> SUFFICES ASSUME Wired, Init PROVE Tree!TreeInit
  OBVIOUS
<1>1. TypeOK /\ shape \in Shapes
  BY InitType, KnownShape
<1>2. seat = [p \in Tree!Places |-> [s \in Slots |-> DrawnAt[shape][p][s]]]
  <2>1. seat = [m \in Matches |-> Rows[shape][m].seated]
    BY DEF Init
  <2>2. seat \in [Matches -> [Slots -> 0..shape.n]]
    BY <1>1 DEF TypeOK
  <2>3. \A m \in Matches : Rows[shape][m].seated = [s \in Slots |-> DrawnAt[shape][m][s]]
    BY <2>1, <2>2, <1>1, TreeView
  <2> QED BY <2>1, <2>3, <1>1, TreeView
<1>3. {m \in Matches : winner[m] # 0 \/ ~target_is_still_untouched(status[m])} = {}
  BY DEF Init, target_is_still_untouched
<1> QED BY <1>1, <1>2, <1>3 DEF Tree!TreeInit, Tree!Sides, Slots

\* Nothing the abstract bracket sees has changed.
LEMMA TreeStutters ==
    ASSUME UNCHANGED <<shape, seat>>, Started' = Started
    PROVE  [Tree!TreeNextStep]_(Tree!treeVars)
BY DEF Started, Tree!treeVars

\* A match that starts is the tree's Begin step.
LEMMA TreeBegins ==
    ASSUME TypeOK, NEW m \in Matches, HasBoth(m), m \notin Started,
           UNCHANGED <<shape, seat>>, Started' = Started \cup {m}
    PROVE  [Tree!TreeNextStep]_(Tree!treeVars)
<1>1. Tree!Begin(m)
  BY DEF Tree!Begin, Started, HasBoth
<1> QED BY <1>1, TreeView DEF Tree!TreeNextStep

\* A seat written from a started match is the tree's Fill or Empty step.
LEMMA TreeFills ==
    ASSUME Wired, TypeOK, NEW m \in Matches, NEW role \in Roles, Goes(m, role),
           Target(m, role) \notin Started, m \in Started, NEW x \in {seat[m][1], seat[m][2]},
           Written(m, role, x) \/ Written(m, role, 0),
           UNCHANGED shape, Started' = Started
    PROVE  [Tree!TreeNextStep]_(Tree!treeVars)
<1> DEFINE t == Target(m, role)
           s == Side(m, role)
<1>1. t \in Matches /\ s \in Slots /\ SourceOf(t, s).pos = m
  BY LinkFacts
<1>2. FeederOf[shape][t][s] = m
  BY <1>1, TreeView
<1>3. Tree!Feeders(t, s) = {seat[m][1], seat[m][2]}
  BY <1>2 DEF Tree!Feeders, Started
<1>4. Tree!Fill(t, s) \/ Tree!Empty(t, s)
  BY <1>3 DEF Tree!Fill, Tree!Empty, Started, Written
<1> QED BY <1>1, <1>4, TreeView DEF Tree!TreeNextStep, Tree!Sides, Slots

\* The started matches are those whose status says so.
LEMMA StartedOf ==
    ASSUME NEW m \in Matches PROVE m \in Started <=> Begun(m)
BY DEF Started, Begun

\* No match starts when none of them begins.
LEMMA StartedSame ==
    ASSUME UNCHANGED shape,
           \A m \in Matches : Begun(m)' <=> Begun(m)
    PROVE  Started' = Started
<1>1. Matches' = Matches
  BY StillRows
<1>2. Started = {m \in Matches : Begun(m)} /\ Started' = {m \in Matches' : Begun(m)'}
  BY DEF Started, Begun
<1> QED BY <1>1, <1>2

\* Carrying a player along a link is a step of the tree.
LEMMA CarryTree ==
    ASSUME Wired, Inv, NEW m \in Matches, NEW role \in Roles, winner[m] # 0, undone[m] = "no",
           Carry(m, role), UNCHANGED <<shape, status, winner>>
    PROVE  [Tree!TreeNextStep]_(Tree!treeVars)
<1>0. TypeOK /\ SeatInv /\ ResultOK /\ PairedOK /\ UNCHANGED shape
  BY DEF Inv
<1>1. Started' = Started
  BY StartedSame DEF Begun
<1>2. CASE seat' = seat
  BY <1>1, <1>2, TreeStutters
<1>3. CASE Goes(m, role) /\ Sent(m, role) = 0 /\ Written(m, role, Fate(m, role))
  <2>1. Target(m, role) \in Matches /\ Side(m, role) \in Slots
    BY <1>0, <1>3, LinkFacts
  <2>2. ~Begun(Target(m, role))
    BY <1>0, <1>3, <2>1, BegunPaired DEF HasBoth, Sent, Slots
  <2>3. Begun(m) /\ Fate(m, role) \in {seat[m][1], seat[m][2]}
    BY <1>0, FatesDiffer DEF Begun, Slots
  <2> QED BY <1>0, <1>1, <1>3, <2>1, <2>2, <2>3, StartedOf, TreeFills
<1> QED BY <1>0, <1>2, <1>3, CarryEffect

\* Every step of a saga is a step of the tree or a stutter.
LEMMA SagaTree ==
    ASSUME Wired, Inv, NEW m \in Matches, SagaStep(m) \/ CrashSaga(m) \/ Redrive(m)
    PROVE  [Tree!TreeNextStep]_(Tree!treeVars)
<1>0. TypeOK /\ ResultOK /\ AloneOK
  BY DEF Inv
<1>1. ASSUME saga[m].step \in {"advance", "route"}
      PROVE  /\ winner[m] # 0 /\ undone[m] = "no"
             /\ saga[m].win = Fate(m, "winner") /\ Other(m, saga[m].win) = Fate(m, "loser")
  BY <1>0, <1>1 DEF AloneOK, Fate
<1>2. CASE StepAdvanceWinner(m)
  <2>1. Assign(m, "winner", Fate(m, "winner")) /\ winner[m] # 0 /\ undone[m] = "no"
    BY <1>1, <1>2 DEF StepAdvanceWinner, Step
  <2>2. Carry(m, "winner")
    BY <1>0, <2>1, AssignCarries DEF Roles
  <2> QED BY <1>2, <2>1, <2>2, CarryTree DEF StepAdvanceWinner, Roles
<1>3. CASE StepRouteLoser(m)
  <2>1. Assign(m, "loser", Fate(m, "loser")) /\ winner[m] # 0 /\ undone[m] = "no"
    BY <1>1, <1>3 DEF StepRouteLoser, Step
  <2>2. Carry(m, "loser")
    BY <1>0, <2>1, AssignCarries DEF Roles
  <2> QED BY <1>3, <2>1, <2>2, CarryTree DEF StepRouteLoser, Roles
<1>4. ASSUME NEW role \in Roles, WriteTarget(m, role) PROVE [Tree!TreeNextStep]_(Tree!treeVars)
  <2>1. saga[m].step = WriteStep(role) /\ status' = [status EXCEPT ![Target(m, role)] = "ready"]
        /\ UNCHANGED <<shape, seat, winner>>
    BY <1>4 DEF WriteTarget, Step
  <2>2. Goes(m, role) /\ status[Target(m, role)] = "pending"
    BY <1>0, <2>1 DEF AloneOK
  <2>3. Target(m, role) \in Matches
    BY <1>0, <2>2, LinkFacts
  <2>4. \A q \in Matches : status'[q] = IF q = Target(m, role) THEN "ready" ELSE status[q]
    BY <1>0, <2>1, <2>3 DEF TypeOK
  <2>5. \A q \in Matches : Begun(q)' <=> Begun(q)
    BY <2>1, <2>2, <2>4 DEF Begun, target_is_still_untouched
  <2> QED BY <2>1, <2>5, StartedSame, TreeStutters
<1>5. ASSUME NEW role \in Roles, ReadTarget(m, role) \/ CrashSaga(m) \/ Redrive(m)
      PROVE  [Tree!TreeNextStep]_(Tree!treeVars)
  <2>1. UNCHANGED <<shape, seat, status, winner>>
    BY <1>5 DEF ReadTarget, CrashSaga, Redrive
  <2>2. Started' = Started
    BY <2>1, StartedSame DEF Begun
  <2> QED BY <2>1, <2>2, TreeStutters
<1> QED BY <1>2, <1>3, <1>4, <1>5 DEF SagaStep, Roles

\* The record of match m is written while both its sides are known.
LEMMA RecordTree ==
    ASSUME TypeOK, NEW m \in Matches, HasBoth(m), UNCHANGED <<shape, seat>>,
           \A q \in Matches \ {m} : winner'[q] = winner[q] /\ status'[q] = status[q],
           Begun(m) => Begun(m)'
    PROVE  [Tree!TreeNextStep]_(Tree!treeVars)
<1>0. UNCHANGED shape
  OBVIOUS
<1>1. \A q \in Matches \ {m} : Begun(q)' <=> Begun(q)
  BY DEF Begun
<1>2. CASE Begun(m) \/ ~Begun(m)'
  <2>1. \A q \in Matches : Begun(q)' <=> Begun(q)
    BY <1>1, <1>2
  <2> QED BY <1>0, <2>1, StartedSame, TreeStutters
<1>3. CASE ~Begun(m) /\ Begun(m)'
  <2>1. Started = {q \in Matches : Begun(q)} /\ Started' = {q \in Matches : Begun(q)'}
    BY <1>0, StillRows DEF Started, Begun
  <2>2. Started' = Started \cup {m} /\ m \notin Started
    BY <1>1, <1>3, <2>1
  <2> QED BY <2>2, TreeBegins
<1> QED BY <1>2, <1>3

\* Every ordinary request is a step of the tree or a stutter.
LEMMA QuietTree ==
    ASSUME Wired, Inv, NEW m \in Matches, NEW w \in Players(m) \cup {0},
           \/ Schedule(m) \/ StartMatch(m) \/ OverrideResult(m)
           \/ ConfirmResult(m, w) \/ Forfeit(m, w)
    PROVE  [Tree!TreeNextStep]_(Tree!treeVars)
<1>0. /\ TypeOK /\ ResultOK /\ PairedOK
      /\ winner \in [Matches -> 0..shape.n] /\ status \in [Matches -> TournamentMatchStatus]
  BY DEF Inv, TypeOK
<1>1. admin.step = "idle" /\ UNCHANGED <<shape, seat>>
  BY DEF Schedule, StartMatch, OverrideResult, ConfirmResult, Forfeit, MayEnter, Quiet
<1>2. status[m] # "pending"
  BY <1>0 DEF Schedule, StartMatch, OverrideResult, ConfirmResult, Forfeit, ResultOK,
              can_schedule, can_start, can_submit_result, can_forfeit
<1>3. HasBoth(m)
  BY <1>0, <1>1, <1>2 DEF PairedOK, PendingStep
<1>4. \A q \in Matches \ {m} : winner'[q] = winner[q] /\ status'[q] = status[q]
  BY <1>0 DEF Schedule, StartMatch, OverrideResult, ConfirmResult, Forfeit
<1>5. Begun(m) => Begun(m)'
  <2>1. CASE Schedule(m)
    BY <1>0, <2>1 DEF Schedule, Begun, can_schedule, target_is_still_untouched
  <2>2. CASE StartMatch(m)
    BY <1>0, <2>2 DEF StartMatch, Begun, target_is_still_untouched
  <2>3. CASE ConfirmResult(m, w)
    BY <1>0, <2>3 DEF ConfirmResult, Begun, target_is_still_untouched
  <2>4. CASE Forfeit(m, w)
    BY <1>0, <2>4 DEF Forfeit, Begun, target_is_still_untouched
  <2>5. CASE OverrideResult(m)
    <3>1. winner'[m] = Other(m, winner[m]) /\ winner[m] # 0
      BY <1>0, <2>5 DEF OverrideResult
    <3> QED BY <1>3, <3>1 DEF Begun, Other, HasBoth
  <2> QED BY <2>1, <2>2, <2>3, <2>4, <2>5
<1> QED BY <1>0, <1>1, <1>3, <1>4, <1>5, RecordTree

\* A withdrawal empties a seat of a match that has not started.
LEMMA WithdrawTree ==
    ASSUME Wired, Inv, NEW role \in Roles, WithdrawFromTarget(role),
           NEW m \in Matches, m = admin.match, NEW t, t = Target(m, role)
    PROVE  [Tree!TreeNextStep]_(Tree!treeVars)
<1>0. TypeOK /\ SeatInv /\ UNCHANGED <<shape, status, winner>> /\ UNCHANGED shape
  BY DEF Inv, WithdrawFromTarget
<1>1. Started' = Started
  BY <1>0, StartedSame DEF Begun
<1>2. CASE UNCHANGED seat
  BY <1>0, <1>1, <1>2, TreeStutters
<1>3. CASE /\ ~NothingToWithdraw(m, role) /\ ~Refused(m, role)
           /\ seat' = [seat EXCEPT ![t][ResolvedSlot(m, t, role)] = 0]
  <2>1. Goes(m, role) /\ Players(m) # {}
    BY <1>3 DEF NothingToWithdraw, Goes
  <2>2. t \in Matches \ {m} /\ Side(m, role) \in Slots /\ ResolvedSlot(m, t, role) = Side(m, role)
    BY <1>0, <2>1, LinkFacts
  <2>3. Sent(m, role) # 0 /\ Written(m, role, 0)
    BY <1>3, <2>1, <2>2 DEF NothingToWithdraw, Goes, Sent, Written
  <2>4. ~Begun(t)
    BY <1>3 DEF Refused, MovedOn, Begun
  <2>5. ~Bye(m)
    BY <1>0, <2>1 DEF Bye, SeatInv, SeatedOK, Players, Slots
  <2>6. Begun(m)
    BY <1>0, <2>1, <2>3, <2>5 DEF SeatInv, SentOK, Begun
  <2>7. \E x : x = seat[m][1]
    OBVIOUS
  <2> QED BY <1>0, <1>1, <2>1, <2>2, <2>3, <2>4, <2>6, <2>7, StartedOf, TreeFills
<1> QED BY <1>2, <1>3 DEF WithdrawFromTarget

\* Every step of a repair is a step of the tree or a stutter.
LEMMA AdminTree ==
    ASSUME Wired, Inv, ~misused, AdminStep PROVE [Tree!TreeNextStep]_(Tree!treeVars)
<1>1. PICK m : m = admin.match
  OBVIOUS
<1>2. admin.step # "idle"
  BY DEF AdminStep, WithdrawFromTarget, ReturnTargetToPending, RecordOutcome, AdvanceWinner,
         RouteLoser, FindNewlyReadyMatches, WithdrawStep, PendingStep
<1>3. TypeOK /\ ResultOK /\ AdminOK /\ m \in Matches
      /\ winner \in [Matches -> 0..shape.n] /\ status \in [Matches -> TournamentMatchStatus]
  BY <1>1, <1>2 DEF Inv, AdminOK, TypeOK
<1>4. ASSUME NEW role \in Roles, WithdrawFromTarget(role)
      PROVE  [Tree!TreeNextStep]_(Tree!treeVars)
  <2>1. PICK t : t = Target(m, role)
    OBVIOUS
  <2> QED BY <1>1, <1>3, <1>4, <2>1, WithdrawTree
<1>5. ASSUME NEW role \in Roles, ReturnTargetToPending(role)
      PROVE  [Tree!TreeNextStep]_(Tree!treeVars)
  <2>0. UNCHANGED <<shape, seat, winner>>
    BY <1>5 DEF ReturnTargetToPending
  <2>1. PICK t : t = Target(m, role)
    OBVIOUS
  <2>2. admin.step = PendingStep(role)
        /\ status' = [status EXCEPT ![t] = IF target_is_still_untouched(status[t]) THEN "pending"
                                           ELSE status[t]]
    <3>1. status' = [status EXCEPT ![t] = IF target_is_still_untouched(@) THEN "pending" ELSE @]
      BY <1>1, <1>5, <2>1 DEF ReturnTargetToPending
    <3> QED BY <1>5, <3>1 DEF ReturnTargetToPending
  <2>3. Goes(m, role) /\ ~Begun(t)
    BY <1>1, <1>2, <1>3, <2>1, <2>2 DEF AdminOK
  <2>4. t \in Matches
    BY <1>3, <2>1, <2>3, LinkFacts
  <2>5. \A q \in Matches : status'[q] = IF q = t THEN "pending" ELSE status[q]
    BY <1>3, <2>2, <2>3, <2>4 DEF Begun
  <2>6. \A q \in Matches : Begun(q)' <=> Begun(q)
    BY <2>0, <2>3, <2>5 DEF Begun, target_is_still_untouched
  <2> QED BY <2>0, <2>6, StartedSame, TreeStutters
<1>6. CASE RecordOutcome
  <2>1. HasBoth(m) /\ admin.win # 0
    BY <1>1, <1>3, <1>6 DEF AdminOK, RecordOutcome
  <2>2. /\ UNCHANGED <<shape, seat>>
        /\ IF winner[m] = admin.win THEN UNCHANGED <<status, winner>>
           ELSE /\ status' = [status EXCEPT ![m] = "completed"]
                /\ winner' = [winner EXCEPT ![m] = admin.win]
    BY <1>1, <1>3, <1>6 DEF RecordOutcome, AdminOK
  <2>3. \A q \in Matches \ {m} : winner'[q] = winner[q] /\ status'[q] = status[q]
    BY <1>3, <2>2
  <2>4. winner'[m] # 0
    BY <1>3, <2>1, <2>2
  <2> QED BY <1>3, <2>1, <2>2, <2>3, <2>4, RecordTree DEF Begun
<1>7. ASSUME admin.step \in {"advance", "route"}
      PROVE  /\ winner[m] # 0 /\ undone[m] = "no"
             /\ admin.win = Fate(m, "winner") /\ admin.lose = Fate(m, "loser")
  BY <1>1, <1>3, <1>7 DEF AdminOK, Fate
<1>8. CASE AdvanceWinner
  <2>1. Place(m, "winner", Fate(m, "winner")) /\ winner[m] # 0 /\ undone[m] = "no"
    BY <1>1, <1>7, <1>8 DEF AdvanceWinner
  <2>2. Carry(m, "winner")
    BY <1>3, <2>1, AssignCarries DEF Roles
  <2> QED BY <1>3, <1>8, <2>1, <2>2, CarryTree DEF AdvanceWinner, Roles
<1>9. CASE RouteLoser
  <2>1. Place(m, "loser", Fate(m, "loser")) /\ winner[m] # 0 /\ undone[m] = "no"
    BY <1>1, <1>7, <1>9 DEF RouteLoser
  <2>2. Carry(m, "loser")
    BY <1>3, <2>1, AssignCarries DEF Roles
  <2> QED BY <1>3, <1>9, <2>1, <2>2, CarryTree DEF RouteLoser, Roles
<1>10. CASE FindNewlyReadyMatches
  <2>1. UNCHANGED <<shape, seat, winner>>
    BY <1>10 DEF FindNewlyReadyMatches
  <2>2. \A q \in Matches : \/ status'[q] = status[q]
                           \/ status[q] = "pending" /\ status'[q] = "ready"
    BY <1>10 DEF FindNewlyReadyMatches
  <2>3. \A q \in Matches : Begun(q)' <=> Begun(q)
    BY <2>1, <2>2 DEF Begun, target_is_still_untouched
  <2> QED BY <2>1, <2>3, StartedSame, TreeStutters
<1> QED BY <1>4, <1>5, <1>6, <1>8, <1>9, <1>10 DEF AdminStep

\* Every step of the bracket maps to a step of the tree or a stutter.
LEMMA NextTree ==
    ASSUME Wired, Inv, ~misused, [Next]_vars PROVE [Tree!TreeNextStep]_(Tree!treeVars)
<1>1. ASSUME NEW m \in Matches, SagaStep(m) \/ CrashSaga(m) \/ Redrive(m)
      PROVE  [Tree!TreeNextStep]_(Tree!treeVars)
  BY <1>1, SagaTree
<1>2. ASSUME NEW m \in Matches, Schedule(m) \/ StartMatch(m) \/ OverrideResult(m)
      PROVE  [Tree!TreeNextStep]_(Tree!treeVars)
  BY <1>2, QuietTree
<1>3. ASSUME NEW m \in Matches, NEW w \in Players(m), ConfirmResult(m, w) \/ Forfeit(m, w)
      PROVE  [Tree!TreeNextStep]_(Tree!treeVars)
  BY <1>3, QuietTree
<1>4. ASSUME NEW m \in Matches, NEW w \in 1..shape.n, NEW l \in 1..shape.n,
             RevertProgression(m) \/ ProcessProgression(m, w, l) \/ ReapplyProgression(m, w)
      PROVE  [Tree!TreeNextStep]_(Tree!treeVars)
  <2>1. UNCHANGED <<shape, seat, status, winner>>
    BY <1>4 DEF RevertProgression, ProcessProgression, ReapplyProgression, Enter
  <2>2. Started' = Started
    BY <2>1, StartedSame DEF Begun
  <2> QED BY <2>1, <2>2, TreeStutters
<1>5. CASE UNCHANGED vars
  <2>1. UNCHANGED <<shape, seat, status, winner>>
    BY <1>5 DEF vars
  <2>2. Started' = Started
    BY <2>1, StartedSame DEF Begun
  <2> QED BY <2>1, <2>2, TreeStutters
<1> QED BY <1>1, <1>2, <1>3, <1>4, <1>5, AdminTree, NextParts DEF Inv

\* Sagas that die and are driven again, forfeits, overrides, reverts and
\* reapplies never touch a pairing that was played, and fill every side from the
\* match it is wired to: the bracket implements BracketTree, until an admin has
\* something processed that is no result of the match.
THEOREM BracketImplementsTree == ASSUME Wired PROVE Spec => ImplementsTree
<1>1. Init => Tree!TreeInit
  BY InitTree
<1>2. IInv /\ [Next]_vars => [misused \/ Tree!TreeNextStep]_(Tree!treeVars)
  BY NextTree DEF IInv
<1> QED BY <1>1, <1>2, Invariance, PTL DEF Spec, ImplementsTree

=============================================================================
