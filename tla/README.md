# A TLA+ verification project for the portal

The portal is a Rust/Axum service on PostgreSQL that runs leagues, tournaments
and pick-up games, provisions the game servers they are played on, and collects
the demos and statistics of what was played.  This project models its core
logic: who may enter a competition, how its brackets and stages are built and
advance, how a match is scheduled, vetoed, served, reported, disputed and
completed, and what that leaves in the players' records.  Everything here is
translated from the source under `src/crates/`.

## 1. The system

### 1.1 How the program is built

* `portal-core`: identifiers, enums and their state machines.
* `portal-domain`: services (`services/**`), entities and repository traits.
* `portal-db`: the repositories as SQL statements; migrations hold the
  constraints and partial unique indexes the services rely on.
* `portal-api`: HTTP handlers, websockets, the game-server and pick-up flows, and
  the background lifecycle pass.
* `portal-plugins`, `portal-scanner`, `portal-storage`, `portal-cli`,
  `portal-app`: parsing plugins, the demo scanner, object storage, the
  administration client and the process shell.

All state that matters is in the database, apart from the websocket lobbies and
the agents' connections.  Handlers run concurrently on a Tokio pool, and one
background task ticks for ever.  A service method is a sequence of statements on
autocommit at READ COMMITTED: it reads a row, decides, and writes
`UPDATE ... WHERE id = $1`.  A few operations use an explicit transaction, and a
few updates repeat their precondition in the `WHERE` clause.  Whatever is not in
one of these two groups can be interleaved with everything else, and a crash, a
client that hangs up or a database error can end a request between any two
statements.  That is where the hard behaviour is, and it is the shape of every
module: **one action per statement or transaction**, a program counter per
request in flight.

### 1.2 Components

| Component | State | Operations | Interacts with |
|---|---|---|---|
| Match status machine | none | guards and the transition table | every service |
| Match lifecycle, forfeits | `tournament_matches`, `match_status_log`, `forfeit_records` | transition, schedule, check_in, start, forfeit, no-show, double forfeit, admin transition | pass, veto, servers, results |
| Background pass | none of its own | check-in windows, timeouts, auto-confirmation, saga re-drive, reservations, substitutions, expiry of evidence | nearly all services |
| Result claims, disputes | `result_claims`, `disputes`, match row | submit, confirm, auto-confirm, override; raise, assign, resolve | lifecycle, saga |
| Completion saga, result reviews | `saga_executions`, `result_reviews` | execute, pause, resume, re-drive; acknowledge, approve, reject | progression, standings, records |
| Bracket generators, progression | matches, links, match slots | generate; advance, route, process, revert, reapply | saga, admins |
| Standings and stages | `bracket_standings`, stages | Swiss rounds, tables, groups, playoffs | saga, admins |
| Map veto and its lobby | `veto_sessions`, `veto_actions`; sockets | coin flip, ban, pick, side, wheel, timeout; join, leave | lifecycle, pass, servers |
| Scheduling, delegates, availability | proposals, delegations, windows, overrides, suggestions | propose, counter, answer, expire; compute slots, suggest | lifecycle, pass |
| Tournament lifecycle, registration, check-in, seeding | tournaments, registrations, invitations | publish, open, start, cancel, complete; register, approve, withdraw, check in, seed | generators, forfeits, awards |
| Game servers, server operations | reservations, events, servers, certificates, holds, substitutions, round backups | reserve, load, observe, release; enrol, console, substitute, restore | lifecycle, claims, agents |
| Pick-up games | lobbies, rosters | gather, deal, lock, play, rematch, cancel, sweep | veto, servers, results |
| League teams, leagues, eligibility | teams, rosters, seats, members, invitations, settings | found, register, seat, captaincy, ownership, archive; join, invite, apply | tournaments |
| Users, sessions, bans, roles | users, players, refresh tokens, bans, roles, grants | register, sign in, refresh, ban, lift, grant, revoke | every handler |
| Awards | awards, results | author, finalize, void | tournaments, demos |
| Games and map pools | catalog, default pools, tiers, tournament pools | edit, validate | veto, claims |
| Evidence, demos | evidence, demos, links, statistics | upload, attach, detach, process, validate, expire | storage, scanner, saga |
| Discovered matches, Steam tracking | tracking, discovered matches, history, ratings | poll, submit, lease, enrich, requeue | external bots |
| Lineups, player records | lineups, profiles, ledger | declare, lock, resolve from demos, count | saga, demos |

`PROJECT.json` lists every component with its sources, its modules, its status
and what is left out of it.

### 1.3 What is hard, and what must hold

The 40 entries under `hazards` in `PROJECT.json` name the lines where this code
can go wrong in ways a test hardly reaches.  They are of five sorts:

* *Blind writes.*  A check is made on a row that was read one or more statements
  ago (lifecycle, veto cursor, reservations, entry, leagues).
* *Several rows for one fact.*  A dispute and a disputed match, an evidence row
  and a link, a roster and a grant, a hold and a process in practice mode.
* *Work that dies.*  A saga, a bracket generation, a reservation, a leased
  enrichment: somebody has to find it and finish it, once.
* *Late and lost messages.*  Webhooks, agent commands, heartbeats, sockets.
* *Index arithmetic.*  Bracket wiring, Swiss pairing, free slots.

## 2. Modules

`Requests` has what all components share: the tasks in flight (`req`), how a
request arrives, continues, ends and dies, and the budgets of a scenario.  The
first four components (rows 1 to 6 below) were written before it and keep the
same machinery under names of their own.

| Module | Models | Checked by |
|---|---|---|
| `MatchStatus` | the status enum, its guards and edges | all that use it |
| `MatchLifecycle` | match lifecycle, forfeits, check-in phases of the pass | `lifecycle_*` |
| `ResultClaims` | claims, confirmation, disputes, override | `claims_*` |
| `CompletionSaga` | the saga, its table, reviews, the re-drive | `saga_*` |
| `BracketGenerator` | single and double elimination as functions of the field size | `bracket` |
| `BracketTree`, `BracketProgression` | what a bracket promises; the statements that play, repair and re-drive it | `bracket` |
| `Requests` | requests, budgets, deaths | |
| `VetoSession`, `VetoLobby`, `VetoChat` | veto sessions; sockets, presence and the life of a lobby; its chat and broadcasts | `matchday` |
| `Schedule`, `Availability` | proposals, delegates, what a player is asked for; free time and suggestions | `matchday` |
| `Pugs` | pick-up games | `matchday` |
| `GameServers`, `ServerOps` | reservations and matches on servers; enrolment, console, substitutions, restores | `matchday` |
| `TournamentEntry` | a tournament up to its first round, and its end | `organisation` |
| `StagePlay` | Swiss rounds, groups, standings, playoffs | `organisation` |
| `LeagueTeams`, `Leagues`, `Eligibility` | teams and rosters; membership; entry rules and how they compose | `organisation` |
| `Accounts` | users, sessions, bans, roles | `organisation` |
| `Awards`, `GameCatalog` | awards and leaderboards; maps, pools and tiers | `organisation` |
| `SeedData` | the seed of a development stack, its reset, bootstrap and import | `organisation` |
| `DemoCatalog`, `DemoPipeline` | demos and evidence; discovery and enrichment | `demos` |
| `Cs2Match`, `Cs2Stats` | the CS2 plugin: formats and match config; facts, totals and ranks | `matchday`, `demos` |
| `PlayerRecords`, `DemoValidation` | lineups and statistics; a claim against its demos, and which match a demo is linked to or suggested for | `demos` |
| `MC*` | constants, scenarios and composition for TLC | |
| `*_proofs` | theorems (section 4) | |

`MCMatchDay`, `MCOrganisation` and `MCDemos` compose the components that share
`Requests`.  A behaviour begins by choosing a *scenario*: the component it
exercises (`of`), how many requests may arrive, how many may die, whether they
overlap (`serial`), which groups of operations are enabled (`ops`), and the rows
that exist at the start.  Scenarios keep the product of the components' states
out of the model (the components interact through the rows each of them models
of the others, not through interleavings of all of them at once) and let one run
say both what holds under overlap and what holds for requests one at a time.  A
property that is claimed only of the latter says `scenario.serial => ...`, and
its comment says so.

The three modules about a match overlap on the match row.  Each has the columns
its own component reads and writes, and states the moves of the others that it
depends on as actions of its own (`RaiseDispute` in `MatchLifecycle`, `PlayMatch`
in `ResultClaims`, `ConfirmClaim` in `CompletionSaga`).  The same holds of the
rest: `MatchMovesOn` in `Schedule` stands for the lifecycle, and so on.

### 2.1 MatchLifecycle

One match row.  `status`, `participants`, `checkedIn`, `startedAt`, `winner`,
`loser` are its columns (a registration id is the slot it stands in; NULL is 0
or absence), `forfeitRecords` and `log` the two tables written with it.  Times
are abstracted to what queries tell apart: `scheduled_at` is null, in the future
or within the check-in lead (`list_scheduled_due`), `check_in_deadline` is null,
in the future or past (`list_checkin_expired`).  `req[p]` is the request that
handler `p` or the pass is executing: operation, next statement, slot, target
and the status it read.

An operation starts with an action that contains its first read and its early
returns (`CheckIn`, `Schedule`, `ProcessForfeit`, `OpenCheckInWindow`, ...) and
goes on with the statements `Statement(p)` lists.  `TransitionRead`,
`TransitionWrite` and `TransitionLog` are `transition`, which most operations end
in.  A rejected request changes nothing and has no action.  `Die` ends a request
between two statements.  `RaiseDispute` and `ResolveRematch` are the two moves of
the dispute component that bring a played match back; bracket progression shows
as `AssignParticipant` and `MarkPendingAsReadyBulk`.

### 2.2 ResultClaims

The result of one match: the status and the winner of its row, the tables
`claims` and `disputes` by id, and the requests in flight.  A score is abstracted
to the side that wins by it; `due` says whether `auto_confirm_at` has passed.
`by = 0` is a claim of the game server.  `CreateClaim` is the transaction
`create_and_supersede_pending`: the set of rows its UPDATE saw is fixed in
`SupersedePending`, and a row that left pending meanwhile is not touched (the
update waits for the row lock and tests the row again).  `ConfirmAndApplyToMatch`
treats one claim of a request (`ids`); the sweep treats its whole list and then
runs the sagas it `owed`.  A saga is one step here.  `cancel_claim` and
`cancel_dispute` have no route; they are in the model under the feature `cancel`.
`resolve_adjusted` is `OverturnWrite`: both name a winner.  `AdminTransition` takes
any edge of the state machine, raises no dispute and records no winner; the history
variable `forced` remembers where an admin has moved the match.  Scheduling and play
up to `in_progress` are `PlayMatch`.

### 2.3 CompletionSaga

One match and what its result moves: the match its winner goes to, the match its
loser goes to (`target`, in a double elimination bracket), or the standings of
its group (`counted`) and the seeding of the next stage (`seeded`).  A second
match (`sibling`) feeds the winner's next match and runs the same steps.
`sagas` is `saga_executions` and `reviews` is `result_reviews`, both in order of
creation; `req[p]` is the request of a handler or of the pass.

`StartSaga`, `RetireStaleLiveSaga` and `RestartSaga` are `start_saga`: an insert
that fails on the partial unique index `uq_saga_executions_live_per_match`, the
retirement of a row older than ten minutes, the second insert.  `Step(p)` lists
the steps of `execute_completion` in order, one action per statement that another
request could notice.  `RedriveStuckCompletionSagas`, `RedriveNext`,
`RecordRetry`, `RaiseProgressionStall` and `InsertStallReview` are the re-drive
phase of the pass.  `Acknowledge`, `Approve`, `Reject` and their statements are
the review service and its handlers, `ResumeRead` and `ResumeCheck` the way back
into the saga.  `StepError` is a statement that fails (the error reaches
`fail_saga`), `Die` a process that stops.

What is abstracted:

* every step saves its name in the history of the row; the only entry that is
  ever read is `standings_updated`, so only that saving is an action of its own;
* `SagaGrowsStale` applies to rows whose owner is gone: a run is assumed to take
  less than the ten minutes of `STALE_LIVE_SAGA_MINUTES` (and of
  `PORTAL_SAGA_STUCK_MINUTES`, whose default is ten too);
* the rows the pass fetched are remembered as snapshots and written back whole,
  as `record_retry` does;
* the reads at the head of a resume are one action;
* a claim's demos agree or not by a free choice;
* this match is the last of its group, so that its result opens the next stage.

### 2.4 Brackets

`BracketGenerator` computes, for a format and a number of entrants, the matches,
the source of each side, the first seating and the links of winners and losers,
as `single_elimination.rs` and `double_elimination.rs` do.  `BracketProgression`
plays such a bracket.  `mode` says what is played: results with sagas that die
and are driven again, forfeits that an admin processes by hand, or overrides with
revert and reapply.  `BracketTree` is the abstract specification: a side is filled
only by the match it is wired to, may be emptied and filled again until its own
match is under way, and nobody touches the pairing of a match that is or was
played.  `ImplementsTree` is the refinement.  The endpoints that process and reapply
a result take any registration for its winner (and loser) and look neither at the
match's sides nor at its record; so do the actions, and the history variable
`misused` notes the first request that names no result of its match.  From then on
seats and record need not agree, and `SeatsAreSound` and `ImplementsTree` promise
nothing but types.

### 2.5 The match day

* `VetoSession`: `veto` is the session's row (cursor, maps left, maps chosen),
  `vetoActions` the action rows, unique by number.  Every operation reads the
  session, inserts or finds the action of the number it read, and writes the
  cursor from what it read.
* `VetoLobby`: lobby objects are numbered; the manager's entry, each socket's
  object and the two counts are separate variables, as in `lobby_manager.rs`.
* `VetoChat`: the messages of a match, and per socket who it speaks as, the
  broadcasts its receiver holds and what its client was sent.  A socket
  subscribes, reads its history in one or two queries and only then takes
  broadcasts; a message is inserted and then broadcast.  The history keeps the
  oldest `max_history_messages`, and the filter on it (SQL) and the filter on
  broadcasts (the handler) are separate.  A receiver that is more than
  `BROADCAST_CAPACITY` behind (256 in the code, 2 in the runs; broadcasts of presence
  and of the veto, which fill the same channel, are not modelled) skips the oldest.  Admin and system messages and the
  admin's history are written and read by nothing in the repository.
* `Schedule`: proposals in order of creation, rosters, delegations, and who took
  a turn for whom.  `Availability`: windows, overrides and suggestions on one
  weekday with a few ticks; `SlotsAreFreeTime` and the two properties of the
  suggestions compare the interval arithmetic of the code with sets of ticks.
  `list_by_player` is the query that tells a player what is to be done, as a function
  of what it sees of one match (`ActPictures`).
* `Cs2Match`: the veto formats and map names of the CS2 plugin, and the match config
  as a function of the finished veto, the tournament's settings and the catalogue.
* `Pugs`: the lobby's row, seats, captains, the wheel's entries, and the hidden
  tournament with its one match.
* `GameServers`: the servers' rows, the reservations in order of creation, the
  stored events, the webhooks under way, and `gsWorld`, what MatchZy on a server
  really does.  `ServerOps`: one server's row, certificates, sockets, holds,
  substitutions and backups, and the CS2 process.

### 2.6 The organisation

* `TournamentEntry`: the tournament's row, registrations, invitations, stages and
  what `start_tournament` built.  `StagePlay`: brackets decided by standings; a
  generation is a *plan*, the list of statements the service issues, executed one
  by one and cut anywhere, and its last statements list the full matches before they write them.
* `LeagueTeams`: teams, rosters (`<<team, season>>`), seats, grants, invitations.
  `Leagues`: membership, invitations, settings, and the entry of a roster into a
  cup by the rules of `Eligibility`.
* `Accounts`: users and their players, refresh tokens by session, bans, roles and
  grants.
* `Awards`: awards, results, the stat facts they rank.  `GameCatalog`: a game's
  maps, default pool and tiers, and the pools of its tournaments.
* `SeedData`: the rows of a database by id and reference, and the statements of the
  administration client's seed, reset and imports under the foreign keys.  A reset
  fails on references it does not sweep (`Unswept`): a pick-up game or an invitation
  of a seeded user, and a guest team of the seeded league that plays elsewhere.

### 2.7 Demos and records

* `DemoCatalog`: one demo's row, its players, projected statistics, links, the
  evidence of the matches, and the files in storage.  A recording arrives from a
  game server (`PostDemo`), from the scanner's loop or from the scan command.
* `Cs2Stats`: rank tiers, facts and totals of a parsed demo.
* `DemoPipeline`: tracking entry, discovered match, history rows, and what each
  external bot works on.
* `PlayerRecords`: lineups, links, the ledger of applied statistics, profiles and
  rating history.  `DemoValidation`, over it: the latest claim of a match with its
  score, games and demos, and what the saga's validation made of it; and as functions
  over small sets of demos and matches, the automatic link, the suggestions and their
  relevance, and what the two scanners submit of a parsed demo.

## 3. Runs

`Serial = TRUE` (or `serial` in a scenario) admits a request only when no other is
in flight, which separates what the sequential code gets wrong from what
overlapping requests do to it.

| Run | Shows | Bounds |
|---|---|---|
| `lifecycle_serial` | `LogExplainsStatus`: the log is a chain that ends in the status; `NoLostAdvance`: two check-ins advance the match; `CheckInEnds` | 1 user, 4 requests, 1 crash, admins may force any legal status; no double forfeit by admins and no rematch, which leave the machine by design |
| `lifecycle_concurrent` | `RowIsCoherent`: types, scheduled => time, winner with loser | 2 users, 3 requests, 1 crash, disputes, rematches; admins do not force `scheduled` |
| `claims_concurrent` | `ClaimSettledOnce`, `SagaOncePerClaim`, `DisputedHasOpenDispute`, `ConfirmedByOpponent` | 2 users, sweep, 2 claims, 1 dispute, 3 requests, 1 crash; an admin may force any legal status |
| `claims_serial` | `NothingIsOpenTwice`: one pending claim, one open dispute; `CompletedHasWinner`; `PendingClaimSettles` | 1 user, 2 claims, 2 disputes, 4 requests, 1 crash; an admin may force any legal status |
| `saga_concurrent` | `OneRunner`, `SagaAppliesItsResult`, `FullMatchIsReady` | 2 users, 3 saga rows, 1 review, 2 results, 2 review requests, 1 crash, `max_retries` 1 |
| `saga_live` | `SagaSettles`: a completion that has a row is applied or reported; `StatsOncePerResult` | serial, 4 saga rows, 3 review requests, 2 failing statements, 1 crash |
| `bracket` | `DrawIsSound`: wiring and fair seeding; `SeatsAreSound`: nobody waits in two matches, ready means paired, the bracket agrees with the record; `ImplementsTree`; `ChampionEmerges` | drawn: 2 to 16 entrants; played: small brackets of both formats, 1 dead saga; an admin processes twice or reapplies and reverts three times in a single elimination, once each in a double one, with any winner and loser |
| `matchday` | `VetoIsFair`, `LobbyIsSound`, `PugIsSound`, `ReservationsAreSound`, `OperationsAreSound`, `SidesUnderstandEachOther` | per scenario 0 to 4 requests and 0 or 1 crash; two tasks overlap where the scenario is not serial; 1 server, 2 matches |
| `matchday_live` | `MatchDayMovesOn`: a due proposal expires, a veto ends, a pick-up game ends, a blocked substitution settles, a reservation ends | serial scenarios |
| `organisation` | `EntryIsSound`, `StageIsSound`, `RostersAreSound`, `MembershipIsSound`, `AccountsAreSound`, `HonoursMapsAndSeedAreSound`; `StepsKeepTheRules`; `TournamentMovesOn` | 4 entrants, 3 rounds, 2 groups; 2 teams, 3 seasons; 2 leagues; 2 accounts, 2 administrators; 2 awards, 2 demos; 3 maps; 4 commands on the seeded data |
| `demos` | `EvidenceIsSound`, `PipelineTellsTruth`, `RecordsFollowGames`; `StepsKeepTheRecord`; `DemosMoveOn` | 2 matches, 2 evidence rows, 2 bots, 2 players |
| `swiss_stalls` | (violated) `SwissGoesOn` | a Swiss tournament whose participants checked in |

The group properties of the composed runs are conjunctions of named parts, and
the comment at each part says what it claims and of which executions.  The most
important parts:

* *Match day.*  The maps left and chosen are those of a prefix of the action rows,
  and no map is used twice (`MapsFollowActions`); turns follow the format; every
  open socket is in the lobby that is broadcast to and a side counts as present
  exactly while a socket of it is counted; a locked lobby stays locked and its
  teams are disjoint; nobody is told to connect to a server that plays another
  match; a failed load is requeued; a practice never runs under a match; an agreed
  time stands; no side answers its own proposal; slots are exactly the free time
  and suggestions exactly the common time.
* *Organisation.*  No place beyond the capacity; one set of brackets per start;
  whoever withdrew is forfeited; in a Swiss round nobody sits twice, nobody is left
  out, rematches are left-overs, byes go round; standings follow the results; the
  playoffs hold those who earned it and are seeded once; one primary team per
  season; the captain's grant follows the owner; a finished roster is history; who
  is in a closed league was let in; a cup's and its league's rules are both met;
  one valid token per session; a banned account is out until the last ban is
  lifted; the podium is the ranking; maps offered in a veto are accepted in a
  result.
* *Demos.*  No link points at a deleted row; evidence and links agree; a match is
  marked enriched only with every player's history; a bot that dies costs an
  attempt, never the match; a match counts once per player; a locked lineup never
  changes; everybody who is credited was counted when the saga ends.

*Bounds.*  Two overlapping requests and the pass give three writers of one row;
each stale-write pattern in this code needs two (a reader that writes late and a
writer in between), and a third request acts on the result.  The longest serial
stories (claim, supersede, dispute, take, resolve; propose, counter, accept,
reschedule) are what the serial scenarios' budgets are for.  One crash is enough
to cut any one request anywhere.  `MaxRequests`, `MaxFaults`, `MaxCrashes`, the
`n` and `c` of a scenario and the id sets are the bounds; all are in the guards of
`Request`, `Die` and the actions that create rows.  `CHECK_DEADLOCK FALSE`: with
the budget of requests used up and everything settled, nothing more happens, as in
the program.

In the saga runs `max_retries` is 1 rather than the program's 3: the cases are a
row with retries left and one without.  Three rows are a failed or dead run, its
re-drive and the run of a second result; when all rows are in use a start waits
for ever, which ends the story and cannot hide a violation of an invariant.  In
`saga_live` a shortage of rows would show as a completion that never settles; four
rows are enough for one result and three faults.

*Fairness.*  `WF` of the steps of requests that were taken up: Tokio polls a task
until it ends, unless it dies.  The pass ticks for ever, swallows the errors of a
tick and runs every phase in every tick: `WF` of a phase that stays enabled until
it runs, `SF` of one that the pass's own other phases disable while they run
(`GsWake`, `SweepPugs`, `RetryApplying`).  `WF` of the clock: deadlines pass,
leases expire, rows grow stale, halftime ends.  `SF` of what the agents' and the
bots' own retry loops promise: an agent reconnects and sends heartbeats again and
again, MatchZy plays on and posts again, a bot that keeps polling gets through
once, and the scanner, which asks again for ever, does not fail every time to submit
statistics that the service has under the demo's name (`internal_submit_demo_stats`;
`StatsLand` supposes that the service has them, with players in them).  In `bracket` and `Pugs` matches are played to an end.  Users owe nothing
else.

*Reading the violation.*  `swiss_stalls` states what a comment in
`services/tournament/service.rs` says of the pairing: that the registrations it
leaves out are withdrawn or disqualified.  The trace checks participants in, plays
round one, and cannot generate round two, because the pairing asks for `approved`
and check-in has set `checked_in`.  It needs no race.

### 3.1 Further behaviour met while modelling

These are behaviours of the code that the models show and that no run is kept
for, either because no document promises otherwise, because they are another case
of a stale write, or because a property is claimed only of executions without
them.

* Lifecycle
  * `update_status` writes by id: a request that validated an earlier status
    overwrites a terminal one.  A rematch brings a match back to `checking_in` and
    keeps its check-ins, so nobody can advance it but an admin or the timeout.
  * `process_double_forfeit` accepts any status: after a result or a forfeit it
    leaves a cancelled match that keeps its winner.  `ForfeitService` writes the
    status without a row of `match_status_log`.
  * Only `start_match` stamps `started_at`; the game server's events reach
    `in_progress` without it.  Nothing decides on the column.
* Claims and disputes
  * A confirmation tests the claim, not the match: it turns a forfeit into a
    completed match.  A match completed by a dispute starts no saga.
  * An admin may move a match to `completed` without a winner, or to `disputed`
    without a dispute (`admin_transition` checks the edge and nothing else):
    `CompletedHasWinner` and `DisputedHasOpenDispute` speak of matches that were not
    (`forced` records it).
  * Two racing submissions leave two pending claims; both can be confirmed, and
    each starts a saga.  A server claim supersedes a participant's claim that was
    inserted after its check.  A dispute that names a superseded claim leaves the
    pending one alive.
* Reviews and the saga
  * Two captains who acknowledge at the same time each read the other as missing;
    an admin can still approve.
  * The guard against a double resume reads before it starts: two overlapping
    resumes run one after the other, and match statistics count twice.  It takes any
    completed saga of the match for this result: after a rejection and a second
    result the new winner is not moved.
  * A crash after the approval and before the resume leaves a paused row; a second
    crash between the retirement of a stale row and the insert of its successor
    leaves nothing to re-drive; the re-drive of an old failed row after a later
    result applies the old winner again; attempts for one result are not bounded by
    `max_retries`, since each re-driven run has a row and a count of its own.
* Brackets
  * `process_progression` and `reapply_progression` accept any registration as the
    winner, of a match with any sides and status: one that does not sit in the match
    is seated in the next one, and a participant can then wait in two matches.
  * A refused `reapply` or `revert` over the loser's side leaves the winner's side
    emptied; a crash between `clear_participant` and `update_status` leaves a ready
    match with one side; with byes some first matches of the losers bracket never
    fill.
* Stages and entry
  * `reapply_progression` on a match decided by standings takes any registration and
    any status, and beats the other side (the first one, if the winner is on
    neither); `revert_progression` keeps status and scores.  The matches of a first
    or a next Swiss round are marked ready from a list read before, so a row that was
    written meanwhile goes back to `ready`; the playoffs' are not.
  * `cross_seed_for_playoffs` interleaves the groups; with three groups of which two
    advance, the winner and the runner-up of the third meet in the first playoff
    round.  The Swiss pairing is greedy: it can repeat a match although another
    pairing would not.
  * The settings of groups and playoffs are read after the start is claimed: groups
    of fewer than two, more to advance than a group has, or a setting that cannot be
    read leave a tournament in progress without a stage (`StartBuilds` excepts it).
  * A forfeited match does not complete its stage match, so it neither advances the
    playoffs nor lets the round close by itself.
  * `admin_check_in` and the processing of no-shows may overbook a tournament; a
    cancellation or a withdrawal that races the start leaves a bracket with its
    participant;
    disqualifying before the start forfeits nothing.
* What is asked of players
  * A confirmed claim completes the match before its saga raises a review, and the
    query of the action items leaves completed matches out: `acknowledge_review` is
    asked of nobody.  A pending claim of the game server, and any claim while the
    match is still in progress, asks nobody either (`SomebodyIsAsked` lists these);
    a player who left a roster goes on being asked for its matches.
* Schedule
  * `accept_proposal` does not look at the match again: an answer to a proposal made
    before the match moved on writes `scheduled` over any status, a terminal one
    included.
* Veto
  * A socket whose receiver is `BROADCAST_CAPACITY` broadcasts behind skips the
    oldest, and one whose history could not be read starts without it; both go on
    without a word to the client.
  * A stale `start_session` resets a session that has moved on; two coin flips at
    once overwrite each other; an action that races the timeout can take the cursor
    back to an earlier number (the rows then refuse a fork); a task that dies before
    the server assignment leaves it to an admin; a wheel has no deadline.
* Servers
  * A crash between `create_pending` and `store_config` leaves a reservation without
    config; an idle heartbeat frees a reserved server; a late `series_start` or
    cancel revives a row; the second of two releases frees the server under the next
    match; a refused stop keeps the console's hold.
  * A map whose name is all digits and that is not from the workshop is read as a
    workshop id by the match config; an existing game row keeps its map when the
    config is built again with another list.
* Pick-up games
  * A rematch can lose a seat; a failed lock keeps its slug, which blocks the retry;
    two creations at once exceed the creator's limit.
* League teams and leagues
  * Two captains who demote themselves or leave at once leave none; counts before
    inserts can be exceeded by two requests at once; a member can be added who does
    not meet the rules, which are tested at entry.
  * An override with its audit row passes the refusal of a finished season too
    (`roster_lock.rs:208-211` says it cannot): `FinishedRosterIsHistory` speaks of
    rosters without such a row.  Limits may be lowered under the teams and seats
    that are already there.
  * An application is approved or rejected by whoever manages the league named in the
    path, which nothing compares with the league of the application.
* Accounts
  * Two bans, for everything and for one league, can be in force at once; the account
    stays out until the last is lifted.  The bans are checked for requests that do
    not overlap: a ban recorded while another is lifted is a further stale write.
  * An expired ban still keeps the account out until it is lifted, and blocks a new
    one of the same scope by the partial unique index.
* Awards, games
  * A void that races a finalization leaves results of a voided award; the scope's
    lock is read before the write; with more than `FINALIZE_CANDIDATE_LIMIT` tied
    players the rest is cut off; a crash between two awards leaves the second open.
  * Removing a map leaves it in pools, removing the last one brings the plugin's list
    back; two edits at once lose one; an open-ended middle tier disables the overlap
    check; two upserts at once leave two pools for one tournament.
  * A veto request may name a pool of its own, which nothing compares with the
    catalog: its maps can then be ones no result may name (`VetoMapsAccepted` speaks
    of requests without one).
* Demos and records
  * A rating read from a demo goes into the history and leaves the profile's rating and
    peak alone, so the highest rating shown and `peak_rating` may differ.  A lineup
    that cannot be read is logged and the registration's own player is credited, a
    team's side nobody; the step still counts as done (`EveryoneIsCredited` and
    `OnlyPlayersAreCredited` speak of executions in which it can be read).
  * The deletion of evidence takes the match from the path and never compares it with
    the row's: naming another match removes the demo's link to that one, and leaves
    the row's own link pointing at a deleted row (`NoPointerIntoHole` and
    `EvidenceHasLink` suppose that the match is named).
  * In a match of teams, whose registrations have no Steam ids, a claim with the sides
    swapped is valid; so it is for a demo without players (`VerdictsAgree` excepts
    both).
  * A demo whose statistics are never published under its name stays `pending` for
    ever, and one parsed without players is `ready` and submitted again on every pass.
  * A worker that dies in its last leased attempt leaves the match `pending` for
    ever; a late delivery after the tracking entry was removed can count a match
    again.
  * A demo's team 1 is compared with participant 1, though a parsed file names its
    teams in the order of a hash map: an honest claim may wait for an admin
    (`HonestClaimPasses` supposes the order).  A claim without demos skips the rules
    of lineups, another map alone raises no review, and a series is bounded by its
    number of games only (2-1 is accepted of a best of five).
  * `build_evidence_context` gives a team's registration no Steam ids, so a match of
    teams is never suggested a demo; `portal-cli scan` reads the teams of a parsed
    file as an array, which they are not, and submits no score and no player.

## 4. Proofs

`MatchLifecycle_proofs` proves for every set of users, every bound and every
choice of the options:

* `TypeInvariant`: `Spec => []TypeOK`.  `TypeOK` is not inductive: the statements
  take slots from the request, and a slot may be 0 there.  The strengthening says
  at which program counters the slot is a real participant.
* `ScheduledMatchHasTime`: `Spec => []ScheduledHasTime`, assuming admins do not
  force the status `scheduled` (`admin_transition` stamps no time).  The
  strengthening: a request on its way to write `scheduled` already wrote the
  time, and no statement clears the time.
* `WinnerComesWithLoser`: `Spec => []WinnerHasLoser`: the two columns are only
  ever written together.
* `RowStaysCoherent`: the three facts together, the invariant `RowIsCoherent` of
  `lifecycle_concurrent`, under the assumption of `ScheduledMatchHasTime`.
* `LogExplainsTheStatus` and `SecondCheckInAdvances`, the invariants
  `LogExplainsStatus` and `NoLostAdvance` of `lifecycle_serial`, assuming that
  requests do not overlap (`Serial`) and that no rematch is ordered (a rematch
  writes no log row and keeps the check-ins).  Neither is inductive.  `SerialInv`
  says that one request is in flight and that what it read is still the row's,
  except that the bulk statement may have made a pending match ready; that a match
  before its check-in window has no check-ins; that a pending match has no log.
  `LogInv` then says, until a request dies, where the log ends while its last row
  is still to be written, and that once the forfeit service has recorded a forfeit
  the match is terminal or about to be.  `AdvanceInv` says that whoever completed
  the pair of check-ins is on its way to advance the match.

`ResultClaims_proofs` proves for every set of users, claim ids and dispute ids
and every set of features:

* `TypeInvariant`: `Spec => []TypeOK`, with `RequestOK`: which fields of a request
  are set at which program counter.
* `DisputedMatchHasOpenDispute`: the writes that raise a dispute commit together,
  and so do those that resolve it; the proof is by the cases of the two
  transactions; the only other statement that sets `disputed` is an admin's, which
  `forced` remembers.
* `SettledOnce`: the action property that a claim leaves `pending` at most once.
  Every write of a claim's status tests the status again in its statement.
* `SagaStartsOnce`: not inductive as it stands, because the saga is started by a
  later statement than the confirmation.  The strengthening `SagaInv` says that a
  claim a process still owes a saga is confirmed, has none yet, and is owed by
  that process alone.
* `OpponentConfirms`: the strengthening `ConfirmInv` carries the check made when
  the request arrived to the statement that confirms: a confirm request names
  claims that exist and are not its own side's.
* `NothingOpenTwice`: served one at a time (`Serial`), a match never has two
  pending claims nor two open disputes.  The strengthening `SerialInv` says that at
  most one request is in flight, and that what its last statement read
  (`ReadHolds`) still holds when its next one writes: the pending claims it is
  about to supersede, the open dispute it looked for, the dispute it found open.
  Requests that overlap can leave two open, so `claims_concurrent` does not state it.
* `CompletedMatchHasWinner`: assuming `Serial` and that disputes are not cancelled,
  a completed match has a winner unless an admin completed it, or made it disputed,
  by hand.  The strengthening `WinnerInv` follows a dispute
  from the request to its resolution: what is disputed is a claim that exists, or a
  match that had a winner when it was read, so every dispute row has an original
  result for `resolve_uphold` to restore.  It uses `DisputedMatchHasOpenDispute`:
  the one way to name no result, a match that is disputed already, ends at the read
  that looks for an open dispute.

`CompletionSaga_proofs` proves for every set of users, every format, every bound
on rows, results, failures and crashes and every `max_retries` of at least 1:

* `TypeInvariant`: `Spec => []TypeOK`; among the types, no row's retry count
  exceeds `max_retries`.
* `CompletionRunsAlone`: `Spec => []OneRunner`.  The live-row index alone does not
  give it: a live row could be retired, or written back by the re-drive, while
  its owner still runs.  The strengthening `Inv` says that a request runs a saga
  exactly at the program counters of its steps, that its row is then running and
  not stale (`OwnerOK`), and that every row the pass remembers exists, was failed
  or left behind when it was fetched, and is stale if it is running
  (`SnapshotOK`).  So what the pass writes back and what it retires is never the
  row of a running process, and an insert succeeds only where nobody runs.
* `CompletedSagaIsApplied`: `Spec => SagaAppliesItsResult`.  The strengthening
  `Work` says that a request runs the input of its own row and that the steps
  behind its program counter are still in place; nobody else can undo them, by
  `OneRunner`.  `OnlyCompleteSaga` shows that no other statement, a row written
  back from memory in particular, turns a row completed.
* `FedMatchIsReady`: `Spec => []FullMatchIsReady`.  Assigning a side and making
  the match ready are statements of their own, and two matches do both to the same
  row.  The strengthening `ReadyInv` says that a match a request assigned a side to
  is still on its list, or is settled: it has the side, and it is ready or the
  other match has yet to look at it.  Whoever assigns last finds both sides there.

* `ResultCountedOnce`: assuming `Serial`, `Spec => []StatsOncePerResult`, which
  speaks of the states before the first failed statement or crash.  The
  strengthening `CountInv` says that until then no row is failed and a running one
  is the one of the request in flight, so nothing is ever re-driven and no row is
  retired; that a confirmation on its way brings a result not yet counted, and a
  resumed saga one that nobody counted; and that once anything was counted there
  is a completed row for `continue_after_review` to see.

These proofs rest on the assumption, stated in section 2.3, that a run takes less
than the ten minutes after which its row counts as left behind.

`BracketProgression_proofs` proves, for every set of draws, every wiring of winners and
losers and any number of matches, what the abstract specification promises to
whatever implements it:

* `WiringIsFollowed`: `TreeSpec => []SeatsFollowWiring`: whoever sits in a match was
  drawn there or played the match that side is wired to.  The strengthening
  `TreeInv` adds that a match that has begun had both its sides: the repairs only
  touch matches that have not begun, so nobody's feeder can change under a seat.
* `PlayedPairingsStay`: `TreeSpec => PairingsAreFinal`: a match that has begun stays
  begun, with the same two sides.

Of the code's statements it proves, for every set of brackets and every bound on
crashes and repairs, under one assumption: the rows of each bracket are wired as
`WellWired` says (a link and the source of the side it leads to name each other;
everybody is drawn once; only a first-round bye is seated ahead).  That the
generators wire them so is arithmetic on powers of two and an induction over
rounds, which the provers do not reach; it is a conjunct of `DrawIsSound`, which TLC
evaluates on every drawing of `bracket`.

* `Invariance`: `Spec => []IInv`: the types hold whatever an admin names (`TypesKept`),
  and the invariant `Inv` until an admin's request to process or reapply names no
  result of its match (`~misused`): the endpoints check nothing, so nothing more can
  be claimed of what follows.
* `SeatsStaySound`: `Spec => []SeatsAreSound`, with a saga that may die between any
  two statements and be driven again, and an admin whose repair takes up to seven
  statements.  Nobody waits in two matches is not inductive: a reapplied result
  carries a player out of a match it left long ago.  `FrontOK` says instead that
  nobody is at the front twice, where a participant is at the front of a match if
  no link of that match has taken it on; carrying a player along a link moves its
  front and withdrawing it moves it back (`FillSeats`, `EmptySeats`).  For that a
  link may only ever hold the one its result sends (`FateOK`; an overridden result
  is the exception until it is reapplied), the two links of a match never hold the
  same player (`ApartOK`), and what a link holds played the match it leaves
  (`SentOK`).  A withdrawal is two statements: between them the target is ready
  with an empty side, the exception `PairedOK` names and `AdminOK` bounds.
  `AloneOK` says that one saga runs at a time and what it was started with is the
  recorded winner; `PendingOK` says who will still look at a full match that is
  pending.
* `BracketImplementsTree`: `Spec => ImplementsTree`: the same invariant gives each
  statement its step of `BracketTree`, so the two theorems about the tree
  hold of the code's statements.

`MatchDay_proofs` proves for every set of users, every set of formats of up to
`MaxActions` actions whose first action is not the second team's, every map pool
and every bound on requests and crashes:

* `VetoStaysFair`: `VetoSpec => []VetoIsFair`, the invariant of `matchday`.  The
  session's cursor is written back from what its writer read, so the row may go
  back; none of the four facts is inductive.  `Cursors` says that every cursor,
  the one in the row and the one each acting request remembers, stands at or
  before the end of a prefix of the action rows that explains it (`CursorOK`), and
  that the rows have no gap, follow the format and use every map once (`RowsOK`).
  Two facts carry the proof: rows are only ever added (`Grows`), so a cursor read
  long ago is still explained (`GrowsPrefix`), and a cursor that moves over the row
  of its own number is explained again (`CursorAdvances`), whoever wrote that row.
  `FlipOK` adds that nobody acts before the coin fell and that, while it fell once,
  everybody remembers the same first side; `AssignOK` that whoever completed the
  veto is about to ask for a server.  That the maps selected are as many as the
  format plays counts one set twice (`EquallyMany`).

It also proves for every set of sockets, every assignment of sides to them and
every number of lobby objects:

* `LobbyStaysSound`: `LobbySpec => []LobbyIsSound`: no two sockets of one match sit
  in different lobbies, and the presence counters are the numbers of open sockets.
  The strengthening `ListedAreJoined` says that a lobby lists exactly the sockets
  that joined it and have not begun to leave, so what `remove_if_empty` tests before
  it drops the lobby is the truth.

And of the pick-up games, it proves for every set of players, every team size, any
number of lobbies and every bound on requests and crashes, and for any seating of the lobby
that is open at the start, as long as its creator sits in it:

* `PugStaysSound`: `PugSpec => []PugIsSound`, the invariant of `matchday`.  Locking a
  lobby is one compare-and-swap and then up to five statements without a
  transaction, next to hooks, cancellations and a sweeper that write the status
  blindly; none of the facts is inductive.  `LockInv` says that at most one request
  holds the lock of a lobby (`OneLocker`), that the lobby it works on is not open
  and has no match attached (`Fits`), that a match is only built with teams that
  were read apart, and that whoever acts on a match acts on one that was built.  A
  step that writes one lobby keeps this when what it writes fits together and leaves
  the other holders alone (`LobbyStep`); every action is an instance.  `SeatsInv`
  says that the creator never leaves, which a rematch relies on when it looks up
  his old team.  `SerialInv` is what makes `CancelledPugIsTornDown` hold: served one
  at a time, the request that will write `cancelled` has ended the match and, unless
  it comes from a reconciliation, the veto; a reconciliation ends the veto last, so
  until it does somebody is on the way to it or a task has died.

`Demos_proofs` proves for every set of players, any number of enrichers, every
budget, every bound on requests and crashes, and for leases that outlive an
attempt or do not:

* `PipelineStaysTruthful`: `DpSpec => []PipelineTellsTruth`, the invariant of
  `demos` about the discovery and enrichment of matches.  None of its three facts is
  inductive: the statements that credit a player, write the marker and settle the
  demo come from requests that began long before, for a match that may have been
  removed, found again, claimed by somebody else or requeued since.  The
  strengthening `WorkIsSound` says of every request in flight and every job a bot
  holds what it has dealt with so far: a player no longer on the request's list has
  his history row, or his rating, *if* the match it names is still the one that is
  stored.  Two facts carry the proof: the ids of tracking entries and matches only
  grow and go together (`RowsMatch`), and a step takes no row away from a match that
  stays stored (`NothingLost`), so what a request knew it still knows (`JobKept`).
  `CreditedOnce` ties the aggregate, which survives a removal, to the history row,
  which does not: the claim that the entry was never removed is needed there alone.
* `RecordsStayWithGames`: `PrSpec => []RecordsFollowGames`, the invariant of `demos`
  about lineups, profiles and ratings, for any number of matches, players, demos and
  tasks.  That the ledger and the counters move together is inductive with a
  lemma about cardinalities (`LedgerGrows`).  The other three facts are promised at
  rest or served one by one, and say nothing of the steps between: `OneByOne` says
  that a started match is locked or a request to lock it is on its way, and that a
  declaration on its way is for a match that has not started; `GamesFollowDemos`
  that what a request is about to write for a side is what some demo has there;
  `PeakExplained` that the peak bounds the column's default, the reported ratings and
  those on their way to the history, and is one of them.
* `PromisesAreFinal`: `PrSpec => [][LockedPromiseStands]_prVars`, a conjunct of
  `StepsKeepTheRecord`: a lock is final for the promised rows, also for a
  declaration that was checked before it.

`Organisation_proofs` proves for every finite set of entrants, every set of leagues, any
number of tasks, requests and crashes, every minimum field of at least two and every
set of scenarios whose starting entries, status and format are values of their types:

* `EntryStaysSound`: `EntrySpec => []EntryIsSound`, the invariant of `organisation` about
  the entry to a tournament.  `EntryTypes` says what each request remembers at each
  program counter and that nobody who is entered ever loses the row, so a field read
  for a draw still names entrants when it is written.  `StartIsClaimed` says that at
  most one request is past the claim of a start, that every bracket was built by it or
  by a start before, and that the tournament then never goes back to a status a start
  may be claimed from.  The other facts are promised of requests that do not overlap:
  `FreshJob` says what the one request in flight read is still so, which is how its
  writes keep everybody in the league of the tournament (`LeaguesAgree`) and a withdrawn
  participant's forfeit on its way (`SeatsAgree`, `Leaving`).  `SeedJob` says that the
  seeds still to be written differ from one another and from those already written,
  and that everybody else who is listed is unseeded or is about to be overwritten.

  The attempt to prove it changed the model's claim.  `OneBracketSet` had been stated
  of every overlap and is not so: `update_status` writes the status without comparing
  it, so a request to open, reopen or close the registration that read the tournament
  before a start claimed it puts it back, a second start gets through the claim, and if
  neither has built a bracket when it looks for one, both build (`services/tournament/service.rs:313-351` and `:972`,
  `adapters/tournament/tournament.rs:175-197`; the comment there says "must NOT build a
  second bracket set").  The property now speaks of scenarios without those operations,
  or of requests that do not overlap.

`Accounts_proofs` proves for every set of people, roles and callers, any number of tasks,
requests and crashes and every set of scenarios whose people exist and whose callers hold
built-in roles:

* `AccountsStaySound`: `AcSpec => []AccountsAreSound`, the invariant of `organisation`
  about accounts.  Each request is a chain of statements that others interleave with,
  so what the tables hold is only part of the invariant; `AccountTypes` adds what each request remembers, among it that whoever is
  about to be issued a token has been provisioned, and `AccountsAgree` the rest, a
  conjunct for each promise.  `RenewedOnce`: at most one request is about to issue the
  next token of a session, and meanwhile every token of that session is revoked; it is the
  conditional update of `try_revoke` that gives this, since the token was read valid by
  everybody who presents it.  `AccountsWhole`: where only the API registers, user and
  player come with one transaction.  The last three are of requests that do not overlap
  (`OneAtATime`).  `BansHold`: an account that is active despite a standing platform
  ban is the one whose ban the command line has recorded and not yet enforced, and a
  request that will restore an account has found no ban standing.  `SignedOut`: no
  request about to issue a token has a banned user.  `LiftsFinish`: who is banned is
  held by a platform ban, or the request that lifts the last one is on its way to restore
  the account.

  Looking for the invariant corrected three statements of the model.  A user without a
  player *can* be left by `portal user create`, which inserts the two in statements of their
  own, so `AccountIsWhole` speaks of the scenarios without that command; `BanIsEnforced`
  does not hold once `portal user ban` died between recording the ban and disabling the
  account, so it speaks of what happens without a death there; and the assumptions
  lacked that callers hold built-in roles and that the marker of a missing SteamID is
  not a SteamID.

What stays with TLC.  Liveness under fairness (`CheckInEnds`,
`PendingClaimSettles`, `SagaSettles`, `ChampionEmerges`, `MatchDayMovesOn`,
`TournamentMovesOn`, `DemosMoveOn`) is outside the prover's reach.  So is
`DrawIsSound`: what the generators compute is recursive in the number of rounds.
The invariants and step properties of `organisation` other than the entry's and the
accounts', those of `demos` other than the pipeline's and the records' and those of
`matchday` other than the veto's, its lobby's and the pick-up games', are model-checked
only.


## 5. Not modelled

* Parsing, formatting, notification, routing and the shape of requests and
  responses.  Authorization is in the actions that let somebody act; a request that
  is refused changes nothing and has no action.
* Object storage, image uploads and the Steam and S3 clients (pure I/O); the order
  of their calls is in `DemoCatalog` and `DemoPipeline`.
* The plugins' parsing of console output, and matchmaking criteria, which nothing
  calls.
* The append-only audit log, the table of system settings, the process shell, and
  the administration client where it only reads; the passwords, texts and times of
  the seeded rows, and its map pools.
* Scores and maps of a claim are in `DemoValidation` alone; `ResultClaims` and
  `CompletionSaga` keep the winner, and there demos agree or not by a free choice.  Times are abstracted to what queries tell
  apart.
* A demo that the worker reports as parsed ranks every tracked player in `DemoPipeline`
  and names its map; a body without them, which promises nothing about either, is
  not distinguished.  `portal-cli reset_rating` is left out of `PlayerRecords`.
