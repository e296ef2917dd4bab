------------------------------ MODULE StagePlay ------------------------------
(***************************************************************************)
(* A tournament under way whose brackets are decided by standings: Swiss   *)
(* rounds, and groups that feed a playoff stage.  A confirmed result runs  *)
(* the tail of the completion saga (standings, then the next stage), an    *)
(* admin asks for the next Swiss round, corrects results and edits a       *)
(* pending stage.  Generating a round or the playoffs is a plan: the list  *)
(* of statements the service issues one after the other.                   *)
(* Source: services/tournament/{service,progression,standings}.rs,         *)
(* bracket_generator/swiss.rs, adapters/tournament/{standings,stage,       *)
(* bracket,match_}.rs                                                      *)
(***************************************************************************)
EXTENDS Requests, Integers, Sequences, FiniteSets, SequencesExt
LOCAL INSTANCE BracketGenerator

CONSTANTS
    WIN_POINTS,     \* for a won match and for a bye
    SpScores        \* the differences a result may have, for its winner

ASSUME StagePlayAssumption == WIN_POINTS \in Nat /\ SpScores \subseteq Nat \ {0}

VARIABLES
    sp_cup,         \* the tournament's status
    sp_entry,       \* sp_entry[e]: the status of the registration seeded e
    sp_brackets,    \* the rows of tournament_brackets, by id
    sp_matches,     \* the matches, by bracket and bracket_position
    sp_table,       \* sp_table[b][e]: the row of e in the standings of bracket b
    sp_byes,        \* tournament_bracket_byes
    sp_stage        \* the group (or only) stage, and the playoff stage

spTables == <<sp_cup, sp_entry, sp_brackets, sp_matches, sp_table, sp_byes, sp_stage>>
spVars == <<requestVars, spTables>>

StageStatus == {"pending", "active", "completed", "cancelled"}

Nobody == 0
NoMatch == <<0, NoPos>>

\* A match is scored for its first side; nobody has won a row without result.
MatchRow(pos) ==
    [p1 |-> Nobody, p2 |-> Nobody, status |-> "pending", winner |-> Nobody, score |-> 0,
     winner_to |-> NoPos, loser_to |-> NoPos, format |-> "none", saga |-> "none"]
MatchSides(m) == {sp_matches[m].p1, sp_matches[m].p2} \ {Nobody}
Loser(m) == IF sp_matches[m].winner = sp_matches[m].p1 THEN sp_matches[m].p2 ELSE sp_matches[m].p1
MatchesOf(b) == {m \in DOMAIN sp_matches : m[1] = b}
RoundOf(m) == m[2][2]

Bracket(stage, type, group, total) ==
    [stage |-> stage, type |-> type, group |-> group, total_rounds |-> total, current_round |-> 1]
StandingRow(position) == [won |-> 0, lost |-> 0, diff |-> 0, points |-> 0, position |-> position]

\* The members of S in some order, and in the order of op.
Listed(S) == FoldSet(LAMBDA x, seq : Append(seq, x), <<>>, S)
Sorted(S, op(_, _)) == SortSeq(Listed(S), op)

-----------------------------------------------------------------------------
(* Swiss pairing *)

\* swiss_initial_round: the top half against the bottom half, in seed order;
\* the last of an odd field has a bye.
swiss_initial_round(field) ==
    LET half == Len(field) \div 2
    IN  [pairs |-> [i \in 1..half |-> <<field[i], field[i + half]>>],
         bye   |-> IF Len(field) % 2 = 1 THEN field[Len(field)] ELSE Nobody]

\* The place in the ranking that gets the bye of an odd field.
ByePlace(sorted, had_bye) ==
    LET without == {i \in 1..Len(sorted) : sorted[i] \notin had_bye}
    IN  IF without = {} THEN Len(sorted) ELSE Max(without)

\* Mutant: the next in the ranking, met before or not.
NextInRanking(sorted, met, i, paired) == {j \in (i + 1)..Len(sorted) : j \notin paired}

\* Whom the i-th in the ranking may still be paired with.
FreshOpponents(sorted, met, i, paired) ==
    {j \in (i + 1)..Len(sorted) : j \notin paired /\ {sorted[i], sorted[j]} \notin met}

\* The first i of the ranking each take the next opponent they have not met.
GreedyPairs(sorted, met) ==
    LET upto[i \in 0..Len(sorted)] ==
          IF i = 0 THEN [paired |-> {}, pairs |-> <<>>]
          ELSE LET s == upto[i - 1]
                   free == FreshOpponents(sorted, met, i, s.paired)
               IN  IF i \in s.paired \/ free = {} THEN s
                   ELSE [paired |-> s.paired \cup {i, Min(free)},
                         pairs  |-> Append(s.pairs, <<sorted[i], sorted[Min(free)]>>)]
    IN  upto[Len(sorted)]

\* swiss_next_round: those the greedy pass left over meet again.
swiss_next_round(ranking, met, had_bye) ==
    LET odd    == Len(ranking) % 2 = 1
        place  == ByePlace(ranking, had_bye)
        sorted == IF odd THEN RemoveAt(ranking, place) ELSE ranking
        greedy == GreedyPairs(sorted, met)
        left   == Sorted((1..Len(sorted)) \ greedy.paired, <)
    IN  [pairs |-> greedy.pairs \o
                   [i \in 1..(Len(left) \div 2) |-> <<sorted[left[2 * i - 1]], sorted[left[2 * i]]>>],
         bye   |-> IF odd THEN ranking[place] ELSE Nobody]

-----------------------------------------------------------------------------
(* The state a started tournament is in *)

Field == [i \in 1..scenario.n |-> i]
GroupField(g) == SelectSeq(Field, LAMBDA e : GroupOf(scenario.groups, e) = g)
InGroups == scenario.groups > 1
Played(b) == IF InGroups THEN GroupField(b) ELSE Field

\* The pairs of round r of a started bracket with these participants.
StartedPairs(field, r) ==
    IF scenario.format = "swiss"
    THEN IF r = 1 THEN swiss_initial_round(field).pairs ELSE <<>>
    ELSE LET rr == Listed(round_robin(Len(field), r))
         IN  [i \in 1..Len(rr) |-> <<field[rr[i][1]], field[rr[i][2]]>>]

StartedRounds(field) == IF scenario.format = "swiss" THEN 1 ELSE RoundRobinRounds(Len(field))
StartedBye(field) == IF scenario.format = "swiss" THEN swiss_initial_round(field).bye ELSE Nobody

StartedKeys ==
    UNION {UNION {{<<b, <<scenario.format, r, i>>>> : i \in 1..Len(StartedPairs(Played(b), r))} :
                  r \in 1..StartedRounds(Played(b))} : b \in 1..scenario.groups}

StartedMatch(m) ==
    LET pair == StartedPairs(Played(m[1]), RoundOf(m))[m[2][3]]
    IN  [MatchRow(m[2]) EXCEPT !.p1 = pair[1], !.p2 = pair[2], !.status = "ready"]

\* Standings rows in seed order; a recorded bye is counted, which ranks them.
StartedTable(field) ==
    LET bye == StartedBye(field)
        place(e) == CHOOSE i \in 1..Len(field) : field[i] = e
    IN  [e \in ToSet(field) |->
            IF e = bye THEN [won |-> 1, lost |-> 0, diff |-> 0, points |-> WIN_POINTS, position |-> 1]
            ELSE StandingRow(IF bye = Nobody THEN place(e) ELSE place(e) + 1)]

SpInit ==
    IF scenario.of = "stages"
    THEN /\ sp_cup = "in_progress"
         /\ sp_entry = [e \in 1..scenario.n |-> scenario.entered]
         /\ sp_brackets = [b \in 1..scenario.groups |->
                             Bracket("group", scenario.format, b,
                                     IF scenario.format = "swiss" THEN scenario.rounds
                                     ELSE RoundRobinRounds(Len(Played(b))))]
         /\ sp_matches = [m \in StartedKeys |-> StartedMatch(m)]
         /\ sp_table = [b \in 1..scenario.groups |-> StartedTable(Played(b))]
         /\ sp_byes = {<<b, StartedBye(Played(b)), 1>> :
                         b \in {b \in 1..scenario.groups : StartedBye(Played(b)) # Nobody}}
         /\ sp_stage = [group   |-> [status |-> "active"],
                        playoff |-> [status |-> IF InGroups THEN "pending" ELSE "none",
                                     format |-> "bo3"]]
    ELSE /\ sp_cup = "none" /\ sp_entry = <<>> /\ sp_brackets = <<>> /\ sp_matches = <<>>
         /\ sp_table = <<>> /\ sp_byes = {} /\ sp_stage = <<>>

Running == scenario.of = "stages"
MayDo(op) == Running /\ op \in scenario.ops

-----------------------------------------------------------------------------
(* Standings *)

\* A win for every completed match that names e, and for every recorded bye.
DerivedWins(b, e) ==
    Cardinality({m \in MatchesOf(b) : sp_matches[m].status = "completed" /\ sp_matches[m].winner = e})
    + Cardinality({x \in sp_byes : x[1] = b /\ x[2] = e})

Counted(b) == {m \in MatchesOf(b) : sp_matches[m].status = "completed" /\ sp_matches[m].winner # Nobody}

\* DERIVE_STANDINGS_SQL, without the positions.
Derived(b) ==
    [e \in DOMAIN sp_table[b] |->
        [won    |-> DerivedWins(b, e),
         lost   |-> Cardinality({m \in Counted(b) : e = Loser(m)}),
         diff   |-> MapThenSumSet(LAMBDA m : sp_matches[m].score,
                                                {m \in Counted(b) : sp_matches[m].p1 = e})
                    - MapThenSumSet(LAMBDA m : sp_matches[m].score,
                                    {m \in Counted(b) : sp_matches[m].p2 = e}),
         points |-> WIN_POINTS * DerivedWins(b, e)]]

RanksAbove(r, s) ==
    \/ r.points > s.points
    \/ r.points = s.points /\ r.diff > s.diff
    \/ r.points = s.points /\ r.diff = s.diff /\ r.won > s.won

\* recalculate_positions: ROW_NUMBER orders those who are level as it likes;
\* here in the order of their seeds, or the other way round.
Rankings(rows) ==
    {LET before(x, y) == \/ RanksAbove(rows[x], rows[y])
                         \/ ~RanksAbove(rows[y], rows[x]) /\ way * x < way * y
     IN  [e \in DOMAIN rows |-> 1 + Cardinality({x \in DOMAIN rows : before(x, e)})] : way \in {1, -1}}

\* list_by_bracket: the standings in the order of their positions.
Standing(b) == Sorted(DOMAIN sp_table[b], LAMBDA a, c : sp_table[b][a].position < sp_table[b][c].position)

-----------------------------------------------------------------------------
(* Plans: the statements a service issues, each with what it is about *)

Do(name, b, m, arg) == [do |-> name, bracket |-> b, match |-> m, with |-> [x \in {name} |-> arg]]

\* The k-th bracket a plan creates itself is called -k in its later statements.
BracketId(p, b) == IF b < 0 THEN req[p].made[-b] ELSE b

Recompute(b) == <<Do("derive", b, NoMatch, 0), Do("rank", b, NoMatch, 0)>>

\* Mutant: the saga is marked as finished before its last step.
DoneEarly(m) == Recompute(m[1]) \o <<Do("saga_done", 0, m, 0), Do("advance_stage", m[1], NoMatch, 0)>>

\* What a recorded result still has to do: the saga's steps 7 and 7.5.
SagaTail(m) == Recompute(m[1]) \o <<Do("advance_stage", m[1], NoMatch, 0), Do("saga_done", 0, m, 0)>>

Task(plan, m) == [pc |-> "run", todo |-> plan, match |-> m, made |-> <<>>, rows |-> <<>>]
Stmt(p, name) == At(p, "run") /\ Head(req[p].todo).do = name
This(p) == Head(req[p].todo)
Arg(p) == This(p).with[This(p).do]

\* The next statement of the plan, or the end of the request.
Proceed(p, todo) == IF todo = <<>> THEN Finish(p) ELSE Continue(p, [req[p] EXCEPT !.todo = todo])
Onward(p) == Proceed(p, Tail(req[p].todo))

\* DeriveStandings reads; the statement writes what it read under the locks it
\* waited for, and ranks the rows in the same transaction.
DeriveStandings(p) ==
    /\ Stmt(p, "derive")
    /\ Continue(p, [req[p] EXCEPT !.todo = Tail(@), !.rows = Derived(This(p).bracket)])
    /\ UNCHANGED spTables

WriteStandings(p) ==
    LET rows == req[p].rows
    IN  /\ Stmt(p, "rank")
        /\ \E pos \in Rankings(rows) :
              sp_table' = [sp_table EXCEPT ![This(p).bracket] =
                  [e \in DOMAIN rows |->
                      [won |-> rows[e].won, lost |-> rows[e].lost, diff |-> rows[e].diff,
                       points |-> rows[e].points, position |-> pos[e]]]]
        /\ Onward(p)
        /\ UNCHANGED <<sp_cup, sp_entry, sp_brackets, sp_matches, sp_byes, sp_stage>>

\* bulk_create, in one transaction: the unique position refuses all of it.
BulkCreate(p) ==
    LET rows == Arg(p)
        b == BracketId(p, This(p).bracket)
        fresh == {<<b, pos>> : pos \in DOMAIN rows}
    IN  /\ Stmt(p, "bulk_create")
        /\ IF fresh \cap DOMAIN sp_matches = {}
           THEN /\ sp_matches' = [m \in DOMAIN sp_matches \cup fresh |->
                                     IF m \in fresh THEN rows[m[2]] ELSE sp_matches[m]]
                /\ Onward(p)
           ELSE UNCHANGED sp_matches /\ Finish(p)
        /\ UNCHANGED <<sp_cup, sp_entry, sp_brackets, sp_table, sp_byes, sp_stage>>

\* assign_participant
AssignParticipant(p) ==
    LET m == <<BracketId(p, This(p).match[1]), This(p).match[2]>>
        slot == Arg(p)[1]
        who == Arg(p)[2]
    IN  /\ Stmt(p, "assign")
        /\ sp_matches' = IF slot = 1 THEN [sp_matches EXCEPT ![m].p1 = who]
                         ELSE [sp_matches EXCEPT ![m].p2 = who]
        /\ Onward(p)
        /\ UNCHANGED <<sp_cup, sp_entry, sp_brackets, sp_table, sp_byes, sp_stage>>

\* record_bye, keyed on bracket, registration and round.
RecordBye(p) ==
    /\ Stmt(p, "bye")
    /\ sp_byes' = sp_byes \cup {<<This(p).bracket, Arg(p)[1], Arg(p)[2]>>}
    /\ Onward(p)
    /\ UNCHANGED <<sp_cup, sp_entry, sp_brackets, sp_matches, sp_table, sp_stage>>

\* The bracket row's total_rounds or current_round.
UpdateBracket(p) ==
    LET b == BracketId(p, This(p).bracket)
    IN  /\ Stmt(p, "update_bracket")
        /\ sp_brackets' = IF This(p).bracket > 0
                          THEN [sp_brackets EXCEPT ![b].current_round = Arg(p)]
                          ELSE [sp_brackets EXCEPT ![b].total_rounds = Arg(p)]
        /\ Onward(p)
        /\ UNCHANGED <<sp_cup, sp_entry, sp_matches, sp_table, sp_byes, sp_stage>>

\* The matches that became ready: pending, with both sides.
FullPending(b) == {m \in MatchesOf(b) : sp_matches[m].status = "pending" /\ Cardinality(MatchSides(m)) = 2}

\* mark_ready_matches lists those and then writes each row, whatever it says by then.
MarkReady(p) ==
    LET ready == Listed(FullPending(BracketId(p, This(p).bracket)))
        writes == [i \in 1..Len(ready) |-> Do("set_ready", 0, ready[i], 0)]
    IN  /\ Stmt(p, "mark_ready")
        /\ Proceed(p, writes \o Tail(req[p].todo))
        /\ UNCHANGED spTables

SetReady(p) ==
    /\ Stmt(p, "set_ready")
    /\ sp_matches' = [sp_matches EXCEPT ![This(p).match].status = "ready"]
    /\ Onward(p)
    /\ UNCHANGED <<sp_cup, sp_entry, sp_brackets, sp_table, sp_byes, sp_stage>>

\* find_newly_ready_matches lists them too; mark_pending_as_ready_bulk writes those
\* of the list that are still pending.
FindNewlyReady(p) ==
    /\ Stmt(p, "find_ready")
    /\ LET ready == FullPending(BracketId(p, This(p).bracket))
       IN  Proceed(p, <<Do("bulk_ready", 0, NoMatch, ready)>> \o Tail(req[p].todo))
    /\ UNCHANGED spTables

MarkPendingAsReady(p) ==
    /\ Stmt(p, "bulk_ready")
    /\ sp_matches' = [m \in DOMAIN sp_matches |->
                         IF m \in Arg(p) /\ sp_matches[m].status = "pending"
                         THEN [sp_matches[m] EXCEPT !.status = "ready"] ELSE sp_matches[m]]
    /\ Onward(p)
    /\ UNCHANGED <<sp_cup, sp_entry, sp_brackets, sp_table, sp_byes, sp_stage>>

CreateBracketRow(p) ==
    /\ Stmt(p, "create_bracket")
    /\ sp_brackets' = Append(sp_brackets, Bracket("playoff", Arg(p), 0, 0))
    /\ sp_table' = Append(sp_table, <<>>)
    /\ LET made == Append(req[p].made, Len(sp_brackets) + 1)
       IN  Continue(p, [req[p] EXCEPT !.todo = Tail(@), !.made = made])
    /\ UNCHANGED <<sp_cup, sp_entry, sp_matches, sp_byes, sp_stage>>

SetProgressionLinks(p) ==
    LET m == <<BracketId(p, This(p).match[1]), This(p).match[2]>>
    IN  /\ Stmt(p, "link")
        /\ sp_matches' = [sp_matches EXCEPT ![m].winner_to = Arg(p)[1], ![m].loser_to = Arg(p)[2]]
        /\ Onward(p)
        /\ UNCHANGED <<sp_cup, sp_entry, sp_brackets, sp_table, sp_byes, sp_stage>>

\* transition_stages: both statuses in one transaction.
transition_stages(stage) == [stage EXCEPT !.group.status = "completed", !.playoff.status = "active"]

TransitionStages(p) ==
    /\ Stmt(p, "transition")
    /\ sp_stage' = transition_stages(sp_stage)
    /\ Onward(p)
    /\ UNCHANGED <<sp_cup, sp_entry, sp_brackets, sp_matches, sp_table, sp_byes>>

SagaDone(p) ==
    /\ Stmt(p, "saga_done")
    /\ sp_matches' = [sp_matches EXCEPT ![This(p).match].saga = "done"]
    /\ Onward(p)
    /\ UNCHANGED <<sp_cup, sp_entry, sp_brackets, sp_table, sp_byes, sp_stage>>

-----------------------------------------------------------------------------
(* The next stage *)

\* The brackets of a playoff, in the order they are created, and their rounds.
PlayoffBrackets(sh) == IF sh.format = "single" THEN <<"R">> ELSE <<"WR", "LR", "GF">>
PlayoffRounds(sh, type) ==
    CASE type = "LR" -> LbRounds(sh.n) [] type = "GF" -> 1 [] OTHER -> Rounds(sh.n)

PositionsIn(sh, type) == {pos \in Positions(sh) : pos[1] = type}
TypeIndex(sh, pos) == CHOOSE k \in 1..Len(PlayoffBrackets(sh)) : PlayoffBrackets(sh)[k] = pos[1]

\* First-round assignments, then the byes: the seats the generator fills.
SeatStmts(sh, field, round) ==
    LET seats == {ps \in Positions(sh) \X {1, 2} : ps[1][2] = round /\ Seated(sh, ps[1], ps[2]) # 0}
        stmt(ps) == Do("assign", 0, <<-TypeIndex(sh, ps[1]), ps[1]>>, <<ps[2], field[Seated(sh, ps[1], ps[2])]>>)
        order == Listed(seats)
    IN  [i \in 1..Len(order) |-> stmt(order[i])]

LinkStmts(sh) ==
    LET linked == {pos \in Positions(sh) : \/ winner_progresses_to(sh, pos) # NoPos
                                           \/ sh.format = "double" /\ loser_progresses_to(sh, pos) # NoPos}
        order == Listed(linked)
        stmt(pos) == Do("link", 0, <<-TypeIndex(sh, pos), pos>>,
                        <<winner_progresses_to(sh, pos),
                          IF sh.format = "double" THEN loser_progresses_to(sh, pos) ELSE NoPos>>)
    IN  [i \in 1..Len(order) |-> stmt(order[i])]

PlayoffRows(sh, type, format) == [pos \in PositionsIn(sh, type) |-> [MatchRow(pos) EXCEPT !.format = format]]

\* Every bracket of the playoff, one statement each.
ForEach(sh, stmt(_, _)) == [k \in 1..Len(PlayoffBrackets(sh)) |-> stmt(k, PlayoffBrackets(sh)[k])]
PlayoffSeats(sh, field) == SeatStmts(sh, field, 1) \o SeatStmts(sh, field, 2) \o LinkStmts(sh)

\* generate_se_playoff
generate_se_playoff(field, format) ==
    LET sh == [format |-> "single", n |-> Len(field)]
    IN  <<Do("create_bracket", 0, NoMatch, "R"), Do("update_bracket", -1, NoMatch, Rounds(sh.n)),
          Do("bulk_create", -1, NoMatch, PlayoffRows(sh, "R", format))>>
        \o PlayoffSeats(sh, field) \o <<Do("find_ready", -1, NoMatch, 0)>>

\* generate_de_playoff: an empty losers bracket is neither updated nor filled.
generate_de_playoff(field, format) ==
    LET sh == [format |-> "double", n |-> Len(field)]
        used(type) == PositionsIn(sh, type) # {}
        creates == ForEach(sh, LAMBDA k, type : Do("create_bracket", 0, NoMatch, type))
        updates == ForEach(sh, LAMBDA k, type : Do("update_bracket", -k, NoMatch, PlayoffRounds(sh, type)))
        fills   == ForEach(sh, LAMBDA k, type : Do("bulk_create", -k, NoMatch, PlayoffRows(sh, type, format)))
        kept(seq) == SelectSeq(seq, LAMBDA st : used(PlayoffBrackets(sh)[-st.bracket]))
    IN  creates \o kept(updates) \o kept(fills)
        \o PlayoffSeats(sh, field) \o <<Do("find_ready", -1, NoMatch, 0)>>

\* check_bracket_completion, check_stage_completion and what
\* check_tournament_completion tells the admin: a forfeit does not count.
check_bracket_completion(b) == \A m \in MatchesOf(b) : sp_matches[m].status \in {"completed", "cancelled"}
GroupBrackets == {b \in 1..Len(sp_brackets) : sp_brackets[b].stage = "group"}
check_stage_completion == \A b \in GroupBrackets : check_bracket_completion(b)

\* advance_stage_if_complete: an unfinished bracket or stage, a stage that is
\* no group stage or was completed before, or nothing after it: nothing to do.
advance_stage_if_complete(b) ==
    /\ check_bracket_completion(b)
    /\ sp_brackets[b].stage = "group" /\ InGroups
    /\ sp_stage.group.status # "completed"
    /\ check_stage_completion

\* The best of each group, group winners first.
Advancing == cross_seed_for_playoffs([g \in 1..scenario.groups |-> Standing(g)], scenario.advance)

\* The group standings are read, then the playoffs are drawn from them.
AdvanceStage(p) ==
    /\ Stmt(p, "advance_stage")
    /\ IF advance_stage_if_complete(This(p).bracket)
       THEN Continue(p, [req[p] EXCEPT !.todo = <<Do("draw", 0, NoMatch, Advancing)>> \o Tail(@), !.made = <<>>])
       ELSE Onward(p)
    /\ UNCHANGED spTables

\* advance_to_next_stage: the brackets first, both statuses last.
advance_to_next_stage(field, format) ==
    (IF scenario.playoff = "single" THEN generate_se_playoff(field, format)
     ELSE generate_de_playoff(field, format))
    \o <<Do("transition", 0, NoMatch, 0)>>

DrawPlayoffs(p) ==
    /\ Stmt(p, "draw")
    /\ Continue(p, [req[p] EXCEPT !.todo = advance_to_next_stage(Arg(p), sp_stage.playoff.format) \o Tail(@)])
    /\ UNCHANGED spTables

-----------------------------------------------------------------------------
(* The next Swiss round *)

FirstSwiss == Min({b \in 1..Len(sp_brackets) : sp_brackets[b].type = "swiss"})
CurrentRound(b) == {m \in MatchesOf(b) : RoundOf(m) = sp_brackets[b].current_round}

\* The current round was played: every match of it is completed.
RoundIsOver(b) ==
    CurrentRound(b) # {} /\ \A m \in CurrentRound(b) : sp_matches[m].status = "completed"

\* The approved registrations with a row in the standings, by points and then
\* by seed; the Buchholz score is never stored.
PairingSeed(b, e) == IF scenario.seeded THEN e ELSE sp_table[b][e].position
SwissRanking(b) ==
    Sorted({e \in DOMAIN sp_table[b] : sp_entry[e] = "approved"},
        LAMBDA x, y : \/ sp_table[b][x].points > sp_table[b][y].points
                      \/ /\ sp_table[b][x].points = sp_table[b][y].points
                         /\ PairingSeed(b, x) < PairingSeed(b, y))

HaveMet(b) == {MatchSides(m) : m \in {m \in MatchesOf(b) : Cardinality(MatchSides(m)) = 2}}

\* Fewer matches than rounds so far is taken for a bye.
HadBye(b) ==
    {e \in DOMAIN sp_table[b] :
        Cardinality({m \in MatchesOf(b) : e \in MatchSides(m)}) < sp_brackets[b].current_round}

\* The statements that create a round.
RoundPlan(b, round, drawn) ==
    LET rows == [pos \in {<<"swiss", round, i>> : i \in 1..Len(drawn.pairs)} |-> MatchRow(pos)]
        seat(i) == Do("assign", 0, <<b, <<"swiss", round, (i + 1) \div 2>>>>,
                      <<2 - (i % 2), drawn.pairs[(i + 1) \div 2][2 - (i % 2)]>>)
    IN  <<Do("bulk_create", b, NoMatch, rows)>>
        \o [i \in 1..(2 * Len(drawn.pairs)) |-> seat(i)]
        \o (IF drawn.bye = Nobody THEN <<>> ELSE <<Do("bye", b, NoMatch, <<drawn.bye, round>>)>>)
        \o Recompute(b)
        \o <<Do("update_bracket", b, NoMatch, round), Do("mark_ready", b, NoMatch, 0)>>

\* generate_next_swiss_round: refused unless the tournament is under way, the
\* round is over, another one is planned and two can be paired.
MayGenerate(b) ==
    /\ sp_cup = "in_progress"
    /\ RoundIsOver(b)
    /\ sp_brackets[b].current_round < sp_brackets[b].total_rounds
    /\ Len(SwissRanking(b)) >= 2

GenerateNextSwissRound(p) ==
    /\ MayDo("next_round") /\ scenario.format = "swiss"
    /\ LET b == FirstSwiss
       IN  /\ MayGenerate(b)
           /\ Request(p, Task(RoundPlan(b, sp_brackets[b].current_round + 1,
                                        swiss_next_round(SwissRanking(b), HaveMet(b), HadBye(b))), NoMatch))
    /\ UNCHANGED spTables

-----------------------------------------------------------------------------
(* Results *)

StandingsMatch(m) == sp_brackets[m[1]].stage = "group"

\* A result is confirmed: the match is completed, and its saga goes on with the
\* standings.  The score of the winner is the higher one.
ConfirmResult(p) ==
    /\ MayDo("confirm")
    /\ \E m \in DOMAIN sp_matches : \E w \in MatchSides(m) : \E d \in SpScores :
          /\ StandingsMatch(m) /\ sp_matches[m].status = "ready"
          /\ sp_matches' = [sp_matches EXCEPT ![m].status = "completed", ![m].winner = w, ![m].saga = "open",
                                              ![m].score = IF w = sp_matches[m].p1 THEN d ELSE -d]
          /\ Request(p, Task(SagaTail(m), m))
    /\ UNCHANGED <<sp_cup, sp_entry, sp_brackets, sp_table, sp_byes, sp_stage>>

\* The background pass takes up a saga whose task died.
RedriveSaga(p) ==
    /\ Running
    /\ \E m \in DOMAIN sp_matches :
          /\ sp_matches[m].saga = "open"
          /\ \A q \in Tasks : req[q] # NoRequest => req[q].match # m
          /\ Wake(p, Task(SagaTail(m), m))
    /\ UNCHANGED spTables

\* A side is forfeited, or a match is cancelled: neither starts a saga.
ForfeitOrCancel(p) ==
    /\ MayDo("forfeit")
    /\ \E m \in DOMAIN sp_matches :
          /\ StandingsMatch(m) /\ sp_matches[m].status = "ready"
          /\ \/ \E w \in MatchSides(m) :
                   sp_matches' = [sp_matches EXCEPT ![m].status = "forfeit", ![m].winner = w]
             \/ sp_matches' = [sp_matches EXCEPT ![m].status = "cancelled"]
    /\ Request(p, NoRequest)
    /\ UNCHANGED <<sp_cup, sp_entry, sp_brackets, sp_table, sp_byes, sp_stage>>

\* A participant whose matches of the round are played leaves the tournament.
LeaveTournament(p) ==
    /\ MayDo("leave")
    /\ \E e \in DOMAIN sp_entry :
          /\ sp_entry[e] \in {"approved", "checked_in"}
          /\ \A m \in DOMAIN sp_matches : e \in MatchSides(m) => sp_matches[m].status # "ready"
          /\ sp_entry' = [sp_entry EXCEPT ![e] = "withdrawn"]
    /\ Request(p, NoRequest)
    /\ UNCHANGED <<sp_cup, sp_brackets, sp_matches, sp_table, sp_byes, sp_stage>>

\* revert_progression of a standings format, whatever the status of the match: a
\* recorded outcome is cleared, scores and status stay, and the standings are
\* derived again.
Revert(m) ==
    (IF sp_matches[m].winner = Nobody THEN <<>> ELSE <<Do("clear", m[1], m, 0)>>) \o Recompute(m[1])

RevertResult(p) ==
    /\ MayDo("repair")
    /\ \E m \in DOMAIN sp_matches : StandingsMatch(m) /\ Request(p, Task(Revert(m), NoMatch))
    /\ UNCHANGED spTables

\* reapply_progression: any registration as the winner, over the other side (the
\* first one if the winner is on neither); revert, record the new winner, and the
\* same follow-up as after a result.
ReapplyResult(p) ==
    /\ MayDo("repair")
    /\ \E m \in DOMAIN sp_matches : \E w \in DOMAIN sp_entry :
          /\ StandingsMatch(m)
          /\ (IF sp_matches[m].p1 = w THEN sp_matches[m].p2 ELSE sp_matches[m].p1) # Nobody
          /\ Request(p, Task(Revert(m) \o <<Do("record", m[1], m, w)>> \o Recompute(m[1])
                             \o <<Do("find_ready", m[1], NoMatch, 0), Do("advance_stage", m[1], NoMatch, 0)>>,
                             NoMatch))
    /\ UNCHANGED spTables

ClearResult(p) ==
    /\ Stmt(p, "clear")
    /\ sp_matches' = [sp_matches EXCEPT ![This(p).match].winner = Nobody]
    /\ Onward(p)
    /\ UNCHANGED <<sp_cup, sp_entry, sp_brackets, sp_table, sp_byes, sp_stage>>

\* submit_result over the same scores.
RecordOutcome(p) ==
    /\ Stmt(p, "record")
    /\ sp_matches' = [sp_matches EXCEPT ![This(p).match].winner = Arg(p),
                                        ![This(p).match].status = "completed"]
    /\ Onward(p)
    /\ UNCHANGED <<sp_cup, sp_entry, sp_brackets, sp_table, sp_byes, sp_stage>>

\* update_stage: only a pending stage is edited; the write does not ask again.
MayEditStage == sp_stage.playoff.status = "pending"

UpdateStage(p) ==
    /\ MayDo("edit") /\ MayEditStage
    /\ \E f \in {"bo1", "bo3"} : Request(p, Task(<<Do("edit", 0, NoMatch, f)>>, NoMatch))
    /\ UNCHANGED spTables

WriteStageRow(p) ==
    /\ Stmt(p, "edit")
    /\ sp_stage' = [sp_stage EXCEPT !.playoff.format = Arg(p)]
    /\ Onward(p)
    /\ UNCHANGED <<sp_cup, sp_entry, sp_brackets, sp_matches, sp_table, sp_byes>>

\* The organiser cancels the tournament.
CancelCup(p) ==
    /\ MayDo("cancel") /\ sp_cup = "in_progress"
    /\ sp_cup' = "cancelled"
    /\ Request(p, NoRequest)
    /\ UNCHANGED <<sp_entry, sp_brackets, sp_matches, sp_table, sp_byes, sp_stage>>

-----------------------------------------------------------------------------
SpStep(p) ==
    /\ Running /\ req[p] # NoRequest
    /\ \/ DeriveStandings(p) \/ WriteStandings(p) \/ BulkCreate(p) \/ AssignParticipant(p)
       \/ RecordBye(p) \/ UpdateBracket(p) \/ CreateBracketRow(p)
       \/ MarkReady(p) \/ SetReady(p) \/ FindNewlyReady(p) \/ MarkPendingAsReady(p)
       \/ SetProgressionLinks(p) \/ TransitionStages(p) \/ SagaDone(p) \/ AdvanceStage(p)
       \/ DrawPlayoffs(p) \/ ClearResult(p) \/ RecordOutcome(p) \/ WriteStageRow(p)

SpRequest(p) ==
    \/ GenerateNextSwissRound(p) \/ ConfirmResult(p) \/ ForfeitOrCancel(p) \/ LeaveTournament(p)
    \/ RevertResult(p) \/ ReapplyResult(p) \/ UpdateStage(p) \/ CancelCup(p)

SpNext ==
    \E p \in Tasks : \/ SpRequest(p) \/ RedriveSaga(p) \/ SpStep(p)
                     \/ Running /\ Die(p) /\ UNCHANGED spTables

SpSpec == RequestsInit /\ SpInit /\ [][SpNext]_spVars

\* A task that is not dead goes on, and the pass wakes up for ever.
SpFairness == WF_spVars(RedriveSaga(Pass)) /\ WF_spVars(\E p \in Tasks : SpStep(p))
SpFairSpec == SpSpec /\ SpFairness

-----------------------------------------------------------------------------
(* Properties *)

MatchStatuses == {"pending", "ready", "completed", "forfeit", "cancelled"}

\* The rows of tournament_stages, tournament_brackets, tournament_matches and
\* tournament_standings.
StageRow == [status : StageStatus \cup {"none"}]
TournamentBracketRow ==
    {b \in [stage : {"group", "playoff"}, type : {"round_robin", "swiss", "R", "WR", "LR", "GF"},
            group : Nat, total_rounds : Nat, current_round : Nat \ {0}] :
        b.current_round <= b.total_rounds + 1}
IsMatchRow(r) ==
    /\ {r.p1, r.p2, r.winner} \subseteq 0 .. scenario.n
    /\ r.status \in MatchStatuses /\ r.saga \in {"none", "open", "done"} /\ r.score \in Int
SpStandingRow == [won : Nat, lost : Nat, diff : Int, points : Nat, position : Nat]

\* Type invariant.
SpTypeOK ==
    Running =>
    /\ RequestsTypeOK
    /\ sp_cup \in {"in_progress", "cancelled"}
    /\ sp_entry \in [1..scenario.n -> {"approved", "checked_in", "withdrawn"}]
    /\ DOMAIN sp_table = DOMAIN sp_brackets
    /\ \A b \in DOMAIN sp_brackets :
          /\ sp_brackets[b] \in TournamentBracketRow
          /\ \A e \in DOMAIN sp_table[b] : sp_table[b][e] \in SpStandingRow
    /\ \A m \in DOMAIN sp_matches :
          /\ m[1] \in DOMAIN sp_brackets
          /\ IsMatchRow(sp_matches[m])
          /\ sp_matches[m].status = "ready" => Cardinality(MatchSides(m)) = 2
    /\ [status |-> sp_stage.group.status] \in StageRow
    /\ [status |-> sp_stage.playoff.status] \in StageRow

SwissBrackets == {b \in DOMAIN sp_brackets : sp_brackets[b].type = "swiss"}
InRound(b, r) == {m \in MatchesOf(b) : RoundOf(m) = r}
ByesIn(b, r) == {x[2] : x \in {x \in sp_byes : x[1] = b /\ x[3] = r}}
PlayersIn(b, r) == UNION {MatchSides(m) : m \in InRound(b, r)}

\* Two admins who ask for the next round at the same time get one round: in no
\* round does a participant sit in two matches, or in a match and on a bye.
OneSeatPerRound ==
    Running =>
    \A b \in SwissBrackets : \A r \in 1..sp_brackets[b].current_round :
        /\ \A m1, m2 \in InRound(b, r) : m1 # m2 => MatchSides(m1) \cap MatchSides(m2) = {}
        /\ ByesIn(b, r) \cap PlayersIn(b, r) = {}

\* Nobody is left out: in a round that was generated to its end everyone who is
\* still in the tournament plays or has the bye, and there is at most one bye.
EverybodyPlays ==
    (Running /\ Quiescent /\ crashes = 0) =>
    \A b \in SwissBrackets :
        LET r == sp_brackets[b].current_round
        IN  /\ \A e \in DOMAIN sp_table[b] :
                  sp_entry[e] # "withdrawn" => e \in PlayersIn(b, r) \cup ByesIn(b, r)
            /\ Cardinality(ByesIn(b, r)) <= 1

MetBefore(b, r) == {MatchSides(m) : m \in {m \in MatchesOf(b) : RoundOf(m) < r}}

\* Rematches are left-overs: two who both play somebody they have met before
\* have met each other too, or the pairing would have put them together.
RematchesAreLeftOver ==
    Running =>
    \A b \in SwissBrackets : \A r \in 2..sp_brackets[b].current_round :
        LET again == UNION {MatchSides(m) : m \in {m \in InRound(b, r) : MatchSides(m) \in MetBefore(b, r)}}
        IN  \A x, y \in again : x # y => {x, y} \in MetBefore(b, r)

\* Byes go round: nobody gets a second bye in a round in which somebody plays
\* who never had one.
ByesGoRound ==
    Running =>
    \A b \in SwissBrackets : \A x, y \in sp_byes :
        (x[1] = b /\ y[1] = b /\ x[2] = y[2] /\ x[3] < y[3]) =>
            \A e \in PlayersIn(b, y[3]) : \E r \in 1..(y[3] - 1) : e \notin PlayersIn(b, r)

\* Standings are derived, never accumulated: whatever results, corrections,
\* crashes and redrives came before, once the work is done the points of a
\* participant are those of its wins and byes, and the positions follow them.
StandingsFollowResults ==
    (/\ Running /\ scenario.serial /\ Quiescent
     /\ \A m \in DOMAIN sp_matches : sp_matches[m].saga # "open"
     /\ crashes > 0 => scenario.ops \cap {"repair", "next_round"} = {})
    => \A b \in GroupBrackets :
          LET t == sp_table[b]
              wins(e) == {m \in MatchesOf(b) : sp_matches[m].status = "completed" /\ sp_matches[m].winner = e}
              byes(e) == {r \in 1..sp_brackets[b].current_round : e \in ByesIn(b, r)}
          IN  /\ \A e \in DOMAIN t : t[e].points = WIN_POINTS * (Cardinality(wins(e)) + Cardinality(byes(e)))
              /\ \A x, y \in DOMAIN t : t[x].points > t[y].points => t[x].position < t[y].position

PlayoffFirsts == {b \in DOMAIN sp_brackets : sp_brackets[b].type \in {"R", "WR"}}
PlayoffShape == [format |-> scenario.playoff, n |-> scenario.groups * scenario.advance]
SeatedIn(b) == UNION {MatchSides(m) : m \in MatchesOf(b)}

\* A bracket the generator finished: every seat taken, every link set, and the
\* full matches ready.
WholePlayoff(b) ==
    \A pos \in PositionsIn(PlayoffShape, IF scenario.playoff = "single" THEN "R" ELSE "WR") :
        /\ <<b, pos>> \in DOMAIN sp_matches
        /\ LET row == sp_matches[<<b, pos>>]
           IN  /\ Seated(PlayoffShape, pos, 1) # 0 => row.p1 # Nobody
               /\ Seated(PlayoffShape, pos, 2) # 0 => row.p2 # Nobody
               /\ row.winner_to = winner_progresses_to(PlayoffShape, pos)
               /\ row.p1 # Nobody /\ row.p2 # Nobody => row.status # "pending"

\* A stage that is active can be played: wherever a task dies while the playoffs
\* are generated, an active playoff stage has a whole bracket.
ActiveStageIsPlayable ==
    (Running /\ InGroups /\ sp_stage.playoff.status = "active") => \E b \in PlayoffFirsts : WholePlayoff(b)

\* The playoffs hold those who earned it: as many of every group as advance, and
\* nobody stays behind who ranks above one of the own group who advanced.
\* (A task that died before it derived its own group's standings is made up for
\* only after another group's last result may have seeded the playoffs.)
PlayoffsFollowGroups ==
    (/\ Running /\ InGroups /\ sp_stage.playoff.status = "active"
     /\ "repair" \notin scenario.ops /\ scenario.serial /\ crashes = 0) =>
    \A b \in PlayoffFirsts : WholePlayoff(b) =>
        \A g \in GroupBrackets :
            LET in == SeatedIn(b) \cap DOMAIN sp_table[g]
            IN  /\ Cardinality(in) = scenario.advance
                /\ \A x \in DOMAIN sp_table[g] \ in : \A y \in in : ~RanksAbove(sp_table[g][x], sp_table[g][y])

\* The playoffs are seeded once, however often a result of the finished stage
\* is corrected afterwards.
PlayoffsSeededOnce == (Running /\ scenario.serial /\ crashes = 0) => Cardinality(PlayoffFirsts) <= 1

\* The last result of the group stage opens the playoffs, also when the task
\* that recorded it dies and the saga has to be driven again.  (A stage whose
\* last match is cancelled instead has no saga to open them.)
GroupsReachPlayoffs ==
    (Running /\ InGroups /\ "forfeit" \notin scenario.ops /\ check_stage_completion)
        ~> (Running => sp_stage.playoff.status = "active")

\* A Swiss tournament goes on: when a round is played, another is planned and
\* two or more participants are left, the next round can be generated.
SwissGoesOn ==
    (Running /\ scenario.format = "swiss" /\ Quiescent /\ sp_cup = "in_progress" /\ ~InGroups) =>
    LET b == FirstSwiss
        left == {e \in DOMAIN sp_table[b] : sp_entry[e] # "withdrawn"}
    IN  (RoundIsOver(b) /\ sp_brackets[b].current_round < sp_brackets[b].total_rounds /\ Cardinality(left) >= 2)
            => MayGenerate(b)

\* Every Swiss round is a fair pairing of all who are left.
RoundsAreFair == OneSeatPerRound /\ EverybodyPlays /\ RematchesAreLeftOver /\ ByesGoRound

\* A stage is played to its end and hands over to the next one: standings
\* follow the results, and the playoffs hold those the standings name, once.
StageIsSound ==
    SpTypeOK /\ RoundsAreFair /\ StandingsFollowResults
    /\ ActiveStageIsPlayable /\ PlayoffsFollowGroups /\ PlayoffsSeededOnce

=============================================================================
