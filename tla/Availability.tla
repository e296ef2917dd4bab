---------------------------- MODULE Availability ----------------------------
(***************************************************************************)
(* When a player or a side can play: weekly windows, overrides of a single *)
(* date, the free slots of a date computed from them, and the times        *)
(* suggested for a match from what the two sides have in common.  One      *)
(* weekday and one date on it; the clock has a few ticks a day.            *)
(***************************************************************************)
EXTENDS Requests, Sequences, FiniteSets, SequencesExt

CONSTANTS
    AvPlayer,       \* the player who keeps windows and overrides over HTTP
    AvCallers,      \* users who ask for suggestions
    AvTicks,        \* ticks of the day: a time is 0 .. AvTicks
    AvTickMinutes,  \* minutes of a tick
    AvMinTicks,     \* min_duration_minutes of a request, in ticks
    MaxAvRows       \* bound: windows and overrides of the player at a time

VARIABLES
    av_windows,     \* set of [owner, start, end, preferred]
    av_overrides,   \* sequence of [owner, type, allday, start, end]
    av_suggested    \* sequence of [start, end, score, auto, status]

avTables == <<av_windows, av_overrides, av_suggested>>
avVars == <<requestVars, avTables>>

ASSUME AvailabilityAssumption ==
    /\ AvTicks \in Nat \ {0}
    /\ AvTickMinutes \in Nat \ {0}
    /\ AvMinTicks \in Nat
    /\ MaxAvRows \in Nat

AvTimes == 0 .. AvTicks
AvSides == {"r1", "r2"}
OverrideType == {"blocked", "available"}
SuggestionStatus == {"suggested", "accepted", "rejected", "expired"}

AvAllowed(op) == scenario.of = "availability" /\ op \in scenario.ops

\* The windows and overrides of the two registrations are the scenario's: no
\* endpoint writes them.
AvInit ==
    IF scenario.of # "availability"
    THEN av_windows = {} /\ av_overrides = << >> /\ av_suggested = << >>
    ELSE /\ av_windows = scenario.windows
         /\ av_overrides = scenario.overrides
         /\ av_suggested = << >>

----------------------------------------------------------------------------
(* The free slots of a date. *)

TimeSlot(a, b, pref) == [start |-> a, end |-> b, preferred |-> pref]

\* Ends meeting are no overlap.
overlaps(x, y) == x.start < y.end /\ y.start < x.end

AvMax(a, b) == IF a < b THEN b ELSE a
AvMin(a, b) == IF a < b THEN a ELSE b

slot_intersect(x, y) ==
    TimeSlot(AvMax(x.start, y.start), AvMin(x.end, y.end), x.preferred /\ y.preferred)

\* What a block leaves of a slot: nothing, one piece or two.
remove_time_from_slot(slot, a, b) ==
    IF b <= slot.start \/ a >= slot.end THEN <<slot>>
    ELSE (IF a > slot.start THEN <<[slot EXCEPT !.end = a]>> ELSE << >>)
         \o (IF b < slot.end THEN <<[slot EXCEPT !.start = b]>> ELSE << >>)

RemoveFromAll(slots, a, b) ==
    FlattenSeq([i \in DOMAIN slots |-> remove_time_from_slot(slots[i], a, b)])

\* One override applied to the slots so far.
apply_override(slots, o) ==
    IF o.allday THEN slots
    ELSE IF o.type = "blocked" THEN RemoveFromAll(slots, o.start, o.end)
    ELSE Append(slots, TimeSlot(o.start, o.end, TRUE))

\* A slot that overlaps or touches the last one is merged into it.
merge_slot(merged, slot) ==
    IF merged # << >> /\ slot.start <= Last(merged).end
    THEN Append(Front(merged), [Last(merged) EXCEPT
            !.end = AvMax(@, slot.end), !.preferred = @ /\ slot.preferred])
    ELSE Append(merged, slot)

\* A stable sort by the start, then one sweep.
merge_time_slots(slots) ==
    FoldLeft(merge_slot, << >>, SortSeq(slots, LAMBDA x, y : x.start < y.start))

find_windows(owner) == {w \in av_windows : w.owner = owner}

\* The windows of an owner, in order of their start.
BaseSlots(owner) ==
    LET ws == SetToSortSeq(find_windows(owner),
                LAMBDA x, y : x.start < y.start \/ (x.start = y.start /\ x.end < y.end)) IN
    [i \in DOMAIN ws |-> TimeSlot(ws[i].start, ws[i].end, ws[i].preferred)]

OverridesOf(owner) == SelectSeq(av_overrides, LAMBDA o : o.owner = owner)

\* Rows of the same date come in any order.
RowOrders(s) == {[i \in DOMAIN s |-> s[f[i]]] : f \in Permutations(DOMAIN s)}

\* get_availability_for_date, for one order of the date's overrides.
DateSlots(owner, overrides) ==
    IF \E i \in DOMAIN overrides : overrides[i].type = "blocked" /\ overrides[i].allday
    THEN << >>
    ELSE merge_time_slots(FoldLeft(apply_override, BaseSlots(owner), overrides))

----------------------------------------------------------------------------
(* The player's windows and overrides. *)

CountOf(owner) == Cardinality(find_windows(owner)) + Len(OverridesOf(owner))

\* One row per owner and slot: the check of create_window and the index.
window_exists(owner, a, b) ==
    \E w \in find_windows(owner) : w.start = a /\ w.end = b

MayCreateWindow(a, b) == a < b /\ ~window_exists(AvPlayer, a, b)

CreateWindow(p, a, b, pref) ==
    /\ AvAllowed("window")
    /\ CountOf(AvPlayer) < MaxAvRows
    /\ MayCreateWindow(a, b)
    /\ Request(p, [pc |-> "av_window",
                   new |-> [owner |-> AvPlayer, start |-> a, end |-> b, preferred |-> pref]])
    /\ UNCHANGED avTables

InsertWindow(p) ==
    /\ At(p, "av_window")
    /\ av_windows' = IF window_exists(AvPlayer, req[p].new.start, req[p].new.end)
                     THEN av_windows ELSE av_windows \cup {req[p].new}
    /\ Finish(p)
    /\ UNCHANGED <<av_overrides, av_suggested>>

\* A field that is not sent keeps its value; CHECK and index decide over the
\* row that results.
UpdatedWindow(w, a, b) ==
    [w EXCEPT !.start = IF a = {} THEN @ ELSE CHOOSE x \in a : TRUE,
              !.end = IF b = {} THEN @ ELSE CHOOSE x \in b : TRUE]

UpdateWindow(p, w, a, b) ==
    /\ AvAllowed("update")
    /\ w.owner = AvPlayer
    /\ LET new == UpdatedWindow(w, a, b) IN
       /\ new.start < new.end
       /\ ~\E x \in find_windows(AvPlayer) \ {w} : x.start = new.start /\ x.end = new.end
       /\ av_windows' = (av_windows \ {w}) \cup {new}
    /\ Request(p, NoRequest)
    /\ UNCHANGED <<av_overrides, av_suggested>>

DeleteWindow(p, w) ==
    /\ AvAllowed("window")
    /\ w.owner = AvPlayer
    /\ av_windows' = av_windows \ {w}
    /\ Request(p, NoRequest)
    /\ UNCHANGED <<av_overrides, av_suggested>>

\* All day, or a range that is not empty.
ValidRange(allday, a, b) == IF allday THEN a = 0 /\ b = AvTicks ELSE a < b

InsertOverride(o) == av_overrides' = Append(av_overrides, o)

CreateOverride(p, type, allday, a, b) ==
    /\ AvAllowed("override")
    /\ CountOf(AvPlayer) < MaxAvRows
    /\ ValidRange(allday, a, b)
    /\ InsertOverride([owner |-> AvPlayer, type |-> type, allday |-> allday,
                       start |-> a, end |-> b])
    /\ Request(p, NoRequest)
    /\ UNCHANGED <<av_windows, av_suggested>>

DeleteOverride(p, i) ==
    /\ AvAllowed("override")
    /\ av_overrides[i].owner = AvPlayer
    /\ av_overrides' = RemoveAt(av_overrides, i)
    /\ Request(p, NoRequest)
    /\ UNCHANGED <<av_windows, av_suggested>>

----------------------------------------------------------------------------
(* Suggestions for the match of the two sides. *)

\* 50, 20 more for a preferred time, up to 30 for the length.
calculate_confidence_score(preferred, ticks) ==
    AvMin(100, 50 + (IF preferred THEN 20 ELSE 0)
                  + AvMin(30, ((ticks - AvMinTicks) * AvTickMinutes) \div 10))

LongEnough(o) == o.end - o.start >= AvMinTicks

Suggestion(o) ==
    [start |-> o.start, end |-> o.end, auto |-> TRUE, status |-> "suggested",
     score |-> calculate_confidence_score(o.preferred, o.end - o.start)]

\* Every pair of slots that overlap for long enough.
Overlaps(xs, ys) ==
    LET pairs == {<<i, j>> \in (DOMAIN xs) \X (DOMAIN ys) :
                    /\ overlaps(xs[i], ys[j])
                    /\ LongEnough(slot_intersect(xs[i], ys[j]))}
        order == SetToSortSeq(pairs, LAMBDA x, y : x[1] < y[1] \/ (x[1] = y[1] /\ x[2] < y[2])) IN
    [k \in DOMAIN order |-> Suggestion(slot_intersect(xs[order[k][1]], ys[order[k][2]]))]

\* The user who registered a side, or its only player; not the other members
\* of its roster.
verify_match_participant(u) == \E r \in AvSides : scenario.registrant[r] = u

GenerateSuggestions(p, u) ==
    /\ AvAllowed("suggest")
    /\ u \in scenario.staff \/ verify_match_participant(u)
    /\ Request(p, [pc |-> "av_clear"])
    /\ UNCHANGED avTables

\* Pending suggestions the generator made go; decisions stay.
delete_auto_generated_pending(p) ==
    /\ At(p, "av_clear")
    /\ av_suggested' = SelectSeq(av_suggested, LAMBDA s : ~(s.auto /\ s.status = "suggested"))
    /\ Continue(p, [pc |-> "av_read"])
    /\ UNCHANGED <<av_windows, av_overrides>>

\* Both sides' slots of the date, each with its rows in some order.
ReadBothSides(p) ==
    /\ At(p, "av_read")
    /\ \E o1 \in RowOrders(OverridesOf("r1")), o2 \in RowOrders(OverridesOf("r2")) :
         LET found == Overlaps(DateSlots("r1", o1), DateSlots("r2", o2)) IN
         IF found = << >> THEN Finish(p)
         ELSE Continue(p, [pc |-> "av_insert", todo |-> found])
    /\ UNCHANGED avTables

InsertSuggestion(p) ==
    /\ At(p, "av_insert")
    /\ av_suggested' = Append(av_suggested, Head(req[p].todo))
    /\ IF Len(req[p].todo) = 1 THEN Finish(p)
       ELSE Continue(p, [req[p] EXCEPT !.todo = Tail(@)])
    /\ UNCHANGED <<av_windows, av_overrides>>

AvDie(p) == scenario.of = "availability" /\ Die(p) /\ UNCHANGED avTables

AvOptional == {{}} \cup {{t} : t \in AvTimes}

AvNext ==
    \/ \E p \in Users :
        \/ \E a, b \in AvTimes, pref \in BOOLEAN : CreateWindow(p, a, b, pref)
        \/ \E w \in av_windows : \/ \E a, b \in AvOptional : UpdateWindow(p, w, a, b)
                                 \/ DeleteWindow(p, w)
        \/ \E type \in OverrideType, allday \in BOOLEAN, a, b \in AvTimes :
                CreateOverride(p, type, allday, a, b)
        \/ \E i \in DOMAIN av_overrides : DeleteOverride(p, i)
        \/ \E u \in AvCallers : GenerateSuggestions(p, u)
    \/ \E p \in Tasks :
        \/ InsertWindow(p) \/ delete_auto_generated_pending(p)
        \/ ReadBothSides(p) \/ InsertSuggestion(p)
        \/ AvDie(p)

AvSpec == RequestsInit /\ AvInit /\ [][AvNext]_avVars

----------------------------------------------------------------------------
(* Properties. *)

\* The rows: a weekly window, an exception on a day, a time the matchmaker found.
AvailabilityWindowRow ==
    {w \in [owner : {AvPlayer} \cup AvSides, start : AvTimes, end : AvTimes, preferred : BOOLEAN] : w.start < w.end}
AvailabilityOverrideRow ==
    [owner : {AvPlayer} \cup AvSides, type : OverrideType, allday : BOOLEAN, start : AvTimes, end : AvTimes]
SuggestedTime ==
    [start : AvTimes, end : AvTimes, score : 50 .. 100, auto : BOOLEAN, status : SuggestionStatus]

\* The columns have their types, and the index and the CHECKs hold.
AvTypeOK ==
    /\ RequestsTypeOK
    /\ av_windows \subseteq AvailabilityWindowRow
    /\ \A v, w \in av_windows :
            v.owner = w.owner /\ v.start = w.start /\ v.end = w.end => v = w
    /\ Range(av_overrides) \subseteq AvailabilityOverrideRow
    /\ Range(av_suggested) \subseteq SuggestedTime

\* The tick from t to t + 1 lies in a row's range.
Covers(r, t) == r.start <= t /\ t < r.end

\* Whether a tick is free, said without slots: an all-day block ends it, else
\* the last override of the tick decides, else a window does.
IsFree(owner, overrides, t) ==
    LET on == {i \in DOMAIN overrides : ~overrides[i].allday /\ Covers(overrides[i], t)} IN
    /\ ~\E i \in DOMAIN overrides : overrides[i].type = "blocked" /\ overrides[i].allday
    /\ IF on = {} THEN \E w \in find_windows(owner) : Covers(w, t)
       ELSE \E i \in on : /\ \A j \in on : j <= i
                          /\ overrides[i].type = "available"

\* get_availability_for_date returns the free ticks and no other, as slots in
\* order with a gap between any two.
SlotsAreFreeTime ==
    \A owner \in {AvPlayer} \cup AvSides : \A o \in RowOrders(OverridesOf(owner)) :
        LET s == DateSlots(owner, o) IN
        /\ \A t \in 0 .. AvTicks - 1 :
                IsFree(owner, o, t) <=> \E i \in DOMAIN s : Covers(s[i], t)
        /\ \A i \in DOMAIN s : i > 1 => s[i - 1].end < s[i].start

\* The ticks in which both sides can play, whatever the order of the rows.
BothFree(t) ==
    \A r \in AvSides : \A o \in RowOrders(OverridesOf(r)) : IsFree(r, o, t)

\* What is suggested is time both sides have, and enough of it.
SuggestionsAreMutual ==
    (\A r \in AvSides : Len(OverridesOf(r)) <= 1) =>
        \A i \in DOMAIN av_suggested :
            LET s == av_suggested[i] IN
            /\ s.end - s.start >= AvMinTicks
            /\ \A t \in s.start .. s.end - 1 : BothFree(t)

\* After a generation nothing is missing and nothing is there twice: each
\* longest stretch of common time is suggested once, however often one asks.
SuggestionsAreComplete ==
    scenario.of = "availability" /\ scenario.serial /\ crashes = 0 /\ Quiescent /\ requests > 0
        /\ scenario.ops = {"suggest"} /\ (\A r \in AvSides : Len(OverridesOf(r)) <= 1) =>
        LET stretch == {x \in AvTimes \X AvTimes :
                          /\ x[2] - x[1] >= AvMinTicks /\ x[1] < x[2]
                          /\ \A t \in x[1] .. x[2] - 1 : BothFree(t)
                          /\ x[1] = 0 \/ ~BothFree(x[1] - 1)
                          /\ x[2] = AvTicks \/ ~BothFree(x[2])} IN
        /\ {<<av_suggested[i].start, av_suggested[i].end>> : i \in DOMAIN av_suggested} = stretch
        /\ Len(av_suggested) = Cardinality(stretch)

\* What the calendars offer is free time, and what is suggested is all the
\* time both sides share.
SlotsAreSound == AvTypeOK /\ SlotsAreFreeTime /\ SuggestionsAreMutual /\ SuggestionsAreComplete

=============================================================================
