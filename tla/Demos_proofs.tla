---------------------------- MODULE Demos_proofs ----------------------------
(***************************************************************************)
(* Proofs about what becomes of a played game, for any players, any number *)
(* of workers and any budgets: what the pipeline says was done has been    *)
(* done, and once (DemoPipeline), and lineups, profiles and ratings are    *)
(* those of the games played (PlayerRecords).                              *)
(***************************************************************************)
EXTENDS DemoPipeline, PlayerRecords, FiniteSetTheorems, TLAPS

-----------------------------------------------------------------------------
(* The requests and the bots                                                *)

CodeJob == [pc : {"dp code"}, id : Nat, auth : 0 .. MaxAuthCodes]
DeleteJob == [pc : {"dp delete"}, id : Nat]
ListJob == [pc : {"dp list"}, by : DpBots]
\* An enrichment being stored, and a demo result being stored.
MatchJob ==
    [pc : {"dp rate", "dp stats", "dp enriched", "dp effect failed"}, by : DpBots, id : Nat, url : BOOLEAN,
     rate : SUBSET DpPlayers, stats : SUBSET DpPlayers, then : {"dp stats"}]
DemoJob ==
    [pc : {"dp rate", "dp map", "dp settle", "dp effect failed"}, by : DpBots, id : Nat,
     outcome : {"succeeded", "empty"}, rate : SUBSET DpPlayers, then : {"dp map"}]
Jobs == {NoRequest} \cup CodeJob \cup DeleteJob \cup ListJob \cup MatchJob \cup DemoJob

PolledBot == [at : {"polled"}, id : Nat, auth : 0 .. MaxAuthCodes, cursor : {NoCursor, FirstCode, MatchCode},
              found : BOOLEAN]
WorkingBot == [at : {"listed", "claimed", "leased"}, id : Nat]
BotStates == {Idle} \cup PolledBot \cup WorkingBot

-----------------------------------------------------------------------------
(* The inductive invariant                                                  *)

PipelineTypeOK ==
    /\ scenario \in Scenarios
    /\ requests \in 0 .. scenario.requests
    /\ crashes \in 0 .. scenario.crashes
    /\ req \in [Tasks -> Jobs]
    /\ tracking \in SteamTrackingRow
    /\ discovered \in DiscoveredMatchRow
    /\ history \in [DpPlayers -> {NoRow, RowWithoutMap, RowWithMap}]
    /\ mmStats \in [DpPlayers -> Nat]
    /\ ratingRows \in [DpPlayers -> SUBSET Nat]
    /\ bots \in [DpBots -> BotStates]
    /\ steamAuth \in 0 .. MaxAuthCodes
    /\ \/ scenario.of = "pipeline"
       \/ /\ \A p \in Tasks : req[p] = NoRequest
          /\ \A b \in DpBots : bots[b] = Idle

\* A discovered match belongs to the tracking entry there is, and an entry
\* finds at most one: the ids grow together.
RowsMatch ==
    /\ discovered.on => tracking.on /\ discovered.tracking = tracking.id /\ discovered.id >= 1
    /\ discovered.id <= tracking.id
    /\ ~discovered.on /\ tracking.on => discovered.id < tracking.id

\* What is credited is credited for a match that was found.
CreditedOnce ==
    \A x \in DpPlayers :
        /\ ratingRows[x] \subseteq 1 .. discovered.id
        /\ discovered.id = 0 => mmStats[x] = 0
        /\ tracking.id <= 1 => mmStats[x] <= 1 /\ (discovered.on /\ history[x] = NoRow => mmStats[x] = 0)

\* The players a request has dealt with have their rows, if its match is
\* still the one that is stored.
AllHaveRows == \A x \in DpPlayers : history[x] # NoRow

MatchJobSound(r) ==
    /\ r.id <= discovered.id
    /\ DiscoveredIs(r.id) => /\ \A x \in DpPlayers \ r.stats : history[x] # NoRow
                             /\ r.pc = "dp enriched" => r.stats = {}

DemoJobSound(r) ==
    /\ r.id <= discovered.id
    /\ DiscoveredIs(r.id) =>
          /\ AllHaveRows
          /\ r.outcome = "succeeded" => \A x \in DpPlayers \ r.rate : r.id \in ratingRows[x]
          /\ r.pc \in {"dp map", "dp settle"} => r.rate = {}
          /\ r.pc = "dp settle" => \A x \in DpPlayers : history[x] = RowWithMap

JobSound(r) == (r \in MatchJob => MatchJobSound(r)) /\ (r \in DemoJob => DemoJobSound(r))

BotSound(s) ==
    s \in WorkingBot =>
        /\ s.id <= discovered.id
        /\ s.at = "leased" /\ DiscoveredIs(s.id) => AllHaveRows

WorkIsSound ==
    /\ \A p \in Tasks : JobSound(req[p])
    /\ \A b \in DpBots : BotSound(bots[b])

\* What the four tables say of each other.
TablesAgree == RowsMatch /\ CreditedOnce /\ EnrichedMeansApplied /\ SuccessMeansLanded

PipelineInv == PipelineTypeOK /\ TablesAgree /\ WorkIsSound

\* A step takes nothing away from a match that stays stored.
NothingLost ==
    /\ discovered.id <= discovered'.id
    /\ \A n \in Nat : n <= discovered.id /\ discovered'.on /\ discovered'.id = n =>
          /\ discovered.on /\ discovered.id = n
          /\ \A x \in DpPlayers :
                /\ history[x] # NoRow => history'[x] # NoRow
                /\ history[x] = RowWithMap => history'[x] = RowWithMap
                /\ ratingRows[x] \subseteq ratingRows'[x]

\* A scenario starts with an empty catalogue of work.
LEMMA PipelineInitInv == RequestsInit /\ DpInit => PipelineInv
<1> SUFFICES ASSUME RequestsInit, DpInit PROVE PipelineInv
  OBVIOUS
<1>a. MaxAuthCodes \in Nat /\ 1 \in 0 .. MaxAuthCodes /\ 0 \in 0 .. MaxAuthCodes /\ 0 \in 0 .. DEMO_MAX_RETRIES
  BY DemoPipelineAssumption DEF DemoPipelineAssumption
<1>1. NoTracking \in SteamTrackingRow
  BY <1>a DEF NoTracking, SteamTrackingRow, NoCursor, PollState
<1>2. [NoTracking EXCEPT !.on = TRUE, !.id = 1, !.auth = 1, !.cursor = FirstCode] \in SteamTrackingRow
  BY <1>1, <1>a DEF SteamTrackingRow, FirstCode
<1>3. NoDiscovered \in DiscoveredMatchRow
  BY <1>a DEF NoDiscovered, DiscoveredMatchRow, DiscoveredStatus, DemoStage
<1>4. [NoDiscovered EXCEPT !.on = TRUE, !.id = 1, !.tracking = 1] \in DiscoveredMatchRow
  BY <1>3 DEF DiscoveredMatchRow
<1>0. /\ NoTracking.id = 0 /\ ~NoTracking.on
      /\ NoDiscovered.id = 0 /\ ~NoDiscovered.on /\ NoDiscovered.status = "pending" /\ NoDiscovered.demo = "pending"
  BY DEF NoTracking, NoDiscovered
<1> USE RequestsAssumption, DemoPipelineAssumption
    DEF RequestsAssumption, DemoPipelineAssumption, RequestsInit, DpInit
<1>5. tracking \in SteamTrackingRow /\ discovered \in DiscoveredMatchRow
  BY <1>1, <1>2, <1>3, <1>4
<1>6. req \in [Tasks -> Jobs] /\ bots \in [DpBots -> BotStates] /\ \A b \in DpBots : bots[b] = Idle
  BY DEF Jobs, BotStates
<1>7. PipelineTypeOK
  BY <1>5, <1>6 DEF PipelineTypeOK
<1>8. TablesAgree
  BY <1>0, <1>1, <1>3 DEF TablesAgree, RowsMatch, CreditedOnce, EnrichedMeansApplied, SuccessMeansLanded,
       SteamTrackingRow, DiscoveredMatchRow
<1>9. NoRequest \notin MatchJob \cup DemoJob /\ Idle \notin WorkingBot
  BY DEF MatchJob, DemoJob, WorkingBot, NoRequest, Idle
<1>10. WorkIsSound
  BY <1>9 DEF WorkIsSound, JobSound, BotSound
<1> QED
  BY <1>7, <1>8, <1>10 DEF PipelineInv

-----------------------------------------------------------------------------
(* What stays true of the work                                              *)

\* A stored piece of work stays sound whatever another task does.
LEMMA JobKept ==
    ASSUME NothingLost, discovered.id \in Nat, discovered'.id \in Nat, NEW r \in MatchJob \cup DemoJob, JobSound(r)
    PROVE  JobSound(r)'
<1>1. r.id \in Nat
  BY DEF MatchJob, DemoJob
<1>0. /\ r.id <= discovered.id => r.id <= discovered'.id
      /\ r.id <= discovered.id /\ DiscoveredIs(r.id)' =>
            /\ DiscoveredIs(r.id)
            /\ \A x \in DpPlayers :
                /\ history[x] # NoRow => history'[x] # NoRow
                /\ history[x] = RowWithMap => history'[x] = RowWithMap
                /\ ratingRows[x] \subseteq ratingRows'[x]
  BY <1>1, SMT DEF NothingLost, DiscoveredIs
<1>2. ASSUME r \in MatchJob PROVE MatchJobSound(r)'
  <2>1. MatchJobSound(r)
    BY <1>2 DEF JobSound
  <2> QED
    BY <1>0, <2>1, Zenon DEF MatchJobSound
<1>3. ASSUME r \in DemoJob PROVE DemoJobSound(r)'
  <2>1. DemoJobSound(r)
    BY <1>3 DEF JobSound
  <2> QED
    BY <1>0, <2>1, ZenonT(20) DEF DemoJobSound, AllHaveRows
<1> QED
  BY <1>2, <1>3 DEF JobSound
\* So does what a bot has in hand.
LEMMA BotKept ==
    ASSUME NothingLost, discovered.id \in Nat, discovered'.id \in Nat, NEW s \in WorkingBot, BotSound(s)
    PROVE  BotSound(s)'
<1>1. s.id \in Nat
  BY DEF WorkingBot
<1>2. /\ s.id <= discovered.id => s.id <= discovered'.id
      /\ s.id <= discovered.id /\ DiscoveredIs(s.id)' =>
            DiscoveredIs(s.id) /\ \A x \in DpPlayers : history[x] # NoRow => history'[x] # NoRow
  BY <1>1, SMT DEF NothingLost, DiscoveredIs
<1> QED
  BY <1>2, Zenon DEF BotSound, AllHaveRows

\* The work stays sound when the requests and jobs a step puts in place are.
LEMMA WorkKept ==
    ASSUME NothingLost, discovered \in DiscoveredMatchRow, discovered' \in DiscoveredMatchRow, WorkIsSound,
           \A p \in Tasks : req'[p] = req[p] \/ JobSound(req[p])',
           \A b \in DpBots : bots'[b] = bots[b] \/ BotSound(bots[b])'
    PROVE  WorkIsSound'
<1>0. discovered.id \in Nat /\ discovered'.id \in Nat
  BY DEF DiscoveredMatchRow
<1>1. ASSUME NEW p \in Tasks PROVE JobSound(req[p])'
  <2>1. SUFFICES ASSUME req'[p] = req[p] PROVE JobSound(req[p])'
    OBVIOUS
  <2>2. JobSound(req[p])
    BY DEF WorkIsSound
  <2>3. CASE req[p] \in MatchJob \cup DemoJob
    <3>1. \A s \in MatchJob \cup DemoJob : JobSound(s) => JobSound(s)'
      BY <1>0, JobKept
    <3>2. \A s : s = req[p] => JobSound(s)'
      BY <2>2, <2>3, <3>1
    <3>3. \A s : s = req'[p] => JobSound(s)'
      BY <2>1, <3>2, Zenon
    <3> QED
      BY <3>3, Zenon DEF JobSound, MatchJobSound, DemoJobSound, DiscoveredIs
  <2>4. CASE req[p] \notin MatchJob \cup DemoJob
    BY <2>1, <2>4 DEF JobSound
  <2> QED
    BY <2>3, <2>4
<1>2. ASSUME NEW b \in DpBots PROVE BotSound(bots[b])'
  <2>1. SUFFICES ASSUME bots'[b] = bots[b] PROVE BotSound(bots[b])'
    OBVIOUS
  <2>2. BotSound(bots[b])
    BY DEF WorkIsSound
  <2>3. \A s \in WorkingBot : BotSound(s) => BotSound(s)'
    BY <1>0, BotKept
  <2>4. \A s : s = bots[b] => BotSound(s)'
    BY <2>2, <2>3, Zenon DEF BotSound
  <2>5. \A s : s = bots'[b] => BotSound(s)'
    BY <2>1, <2>4, Zenon
  <2> QED
    BY <2>5, Zenon DEF BotSound, DiscoveredIs
<1> QED
  BY <1>1, <1>2 DEF WorkIsSound

-----------------------------------------------------------------------------
(* What each kind of write does to the tables                               *)

\* The types of the four tables.
RowTypes ==
    /\ tracking \in SteamTrackingRow
    /\ discovered \in DiscoveredMatchRow
    /\ history \in [DpPlayers -> {NoRow, RowWithoutMap, RowWithMap}]
    /\ mmStats \in [DpPlayers -> Nat]
    /\ ratingRows \in [DpPlayers -> SUBSET Nat]

\* The fields of the rows that the arguments below compare.
LEMMA FieldTypes ==
    ASSUME RowTypes
    PROVE  /\ tracking.on \in BOOLEAN /\ tracking.id \in Nat
           /\ discovered.on \in BOOLEAN /\ discovered.id \in Nat /\ discovered.tracking \in Nat
           /\ discovered.demoRetry \in 0 .. DEMO_MAX_RETRIES /\ discovered.retry \in Nat
  BY DEF RowTypes, SteamTrackingRow, DiscoveredMatchRow

\* A write to the match's row that changes neither its identity nor its owner.
LEMMA EditAgrees ==
    ASSUME RowTypes, RowTypes', TablesAgree,
           UNCHANGED <<history, mmStats, ratingRows>>,
           tracking'.on = tracking.on, tracking'.id = tracking.id,
           discovered'.on = discovered.on, discovered'.id = discovered.id,
           discovered'.tracking = discovered.tracking,
           discovered.on /\ discovered'.status = "enriched" => discovered.status = "enriched" \/ AllHaveRows,
           discovered.on /\ discovered'.demo = "succeeded" =>
              discovered.demo = "succeeded"
              \/ \A x \in DpPlayers : history[x] = RowWithMap /\ discovered.id \in ratingRows[x]
    PROVE  TablesAgree' /\ NothingLost
<1> USE FieldTypes
<1>1. RowsMatch' /\ CreditedOnce'
  BY DEF TablesAgree, RowsMatch, CreditedOnce
<1>2. EnrichedMeansApplied'
  BY DEF TablesAgree, EnrichedMeansApplied, AllHaveRows
<1>3. SuccessMeansLanded'
  BY DEF TablesAgree, SuccessMeansLanded
<1>4. NothingLost
  BY DEF NothingLost
<1> QED
  BY <1>1, <1>2, <1>3, <1>4 DEF TablesAgree

\* The tracking row is put back under a new id.
LEMMA CreateAgrees ==
    ASSUME RowTypes, RowTypes', TablesAgree,
           UNCHANGED <<discovered, history, mmStats, ratingRows>>,
           ~tracking.on, tracking'.id = tracking.id + 1
    PROVE  TablesAgree' /\ NothingLost
<1> USE FieldTypes
<1>0. ~discovered.on /\ discovered.id <= tracking.id
  BY DEF TablesAgree, RowsMatch
<1>1. RowsMatch' /\ EnrichedMeansApplied' /\ SuccessMeansLanded'
  BY <1>0 DEF RowsMatch, EnrichedMeansApplied, SuccessMeansLanded
<1>2. CreditedOnce'
  <2> SUFFICES ASSUME NEW x \in DpPlayers
               PROVE  (/\ ratingRows[x] \subseteq 1 .. discovered.id
                       /\ discovered.id = 0 => mmStats[x] = 0
                       /\ tracking.id <= 1 => mmStats[x] <= 1
                            /\ (discovered.on /\ history[x] = NoRow => mmStats[x] = 0))'
    BY DEF CreditedOnce
  <2>1. tracking'.id <= 1 => discovered.id = 0
    BY <1>0
  <2> QED
    BY <1>0, <2>1 DEF TablesAgree, CreditedOnce
<1>3. NothingLost
  BY DEF NothingLost
<1> QED
  BY <1>1, <1>2, <1>3 DEF TablesAgree

\* The tracking row goes, and what it found with it.
LEMMA DeleteAgrees ==
    ASSUME RowTypes, RowTypes', TablesAgree, UNCHANGED <<mmStats, ratingRows>>,
           ~tracking'.on, tracking'.id = tracking.id, ~discovered'.on, discovered'.id = discovered.id
    PROVE  TablesAgree' /\ NothingLost
<1> USE FieldTypes
<1>1. RowsMatch' /\ EnrichedMeansApplied' /\ SuccessMeansLanded'
  BY DEF TablesAgree, RowsMatch, EnrichedMeansApplied, SuccessMeansLanded
<1>2. CreditedOnce'
  BY DEF TablesAgree, CreditedOnce
<1>3. NothingLost
  BY DEF NothingLost
<1> QED
  BY <1>1, <1>2, <1>3 DEF TablesAgree

\* A match is found for the tracking row.
LEMMA UpsertAgrees ==
    ASSUME RowTypes, RowTypes', TablesAgree, UNCHANGED <<tracking, history, mmStats, ratingRows>>,
           tracking.on, ~discovered.on, discovered'.on,
           discovered'.id = discovered.id + 1, discovered'.tracking = tracking.id,
           discovered'.status # "enriched", discovered'.demo # "succeeded"
    PROVE  TablesAgree' /\ NothingLost
<1> USE FieldTypes
<1>0. discovered.id < tracking.id
  BY DEF TablesAgree, RowsMatch
<1>1. RowsMatch' /\ EnrichedMeansApplied' /\ SuccessMeansLanded'
  <2>1. discovered'.id <= tracking.id /\ discovered'.id >= 1
    BY <1>0
  <2> QED
    BY <2>1 DEF RowsMatch, EnrichedMeansApplied, SuccessMeansLanded
<1>2. CreditedOnce'
  <2> SUFFICES ASSUME NEW x \in DpPlayers
               PROVE  (/\ ratingRows[x] \subseteq 1 .. discovered.id
                       /\ discovered.id = 0 => mmStats[x] = 0
                       /\ tracking.id <= 1 => mmStats[x] <= 1
                            /\ (discovered.on /\ history[x] = NoRow => mmStats[x] = 0))'
    BY DEF CreditedOnce
  <2>1. tracking.id <= 1 => discovered.id = 0
    BY <1>0
  <2>2. ratingRows[x] \subseteq 1 .. discovered.id /\ (discovered.id = 0 => mmStats[x] = 0)
    BY DEF TablesAgree, CreditedOnce
  <2>3. 1 .. discovered.id \subseteq 1 .. discovered'.id
    OBVIOUS
  <2> QED
    BY <2>1, <2>2, <2>3
<1>3. NothingLost
  <2>1. discovered.id <= discovered'.id /\ \A n \in Nat : ~(n <= discovered.id /\ discovered'.id = n)
    OBVIOUS
  <2> QED
    BY <2>1 DEF NothingLost
<1> QED
  BY <1>1, <1>2, <1>3 DEF TablesAgree

\* A player's row and his aggregate, for the match that is stored.
LEMMA AccumulateAgrees ==
    ASSUME RowTypes, RowTypes', TablesAgree, UNCHANGED <<tracking, discovered, ratingRows>>,
           NEW x \in DpPlayers, discovered.on, claim_and_accumulate(x)
    PROVE  TablesAgree' /\ NothingLost /\ history'[x] # NoRow
<1> USE FieldTypes
<1>1. /\ \A y \in DpPlayers : history[y] # NoRow => history'[y] = history[y]
      /\ \A y \in DpPlayers \ {x} : history'[y] = history[y] /\ mmStats'[y] = mmStats[y]
      /\ history'[x] # NoRow
      /\ IF history[x] = NoRow THEN mmStats'[x] = mmStats[x] + 1 ELSE mmStats'[x] = mmStats[x]
  BY DEF claim_and_accumulate, RowTypes, NoRow, RowWithoutMap
<1>2. RowsMatch' /\ EnrichedMeansApplied' /\ SuccessMeansLanded'
  BY <1>1 DEF TablesAgree, RowsMatch, EnrichedMeansApplied, SuccessMeansLanded, NoRow, RowWithMap
<1>3. CreditedOnce'
  <2> SUFFICES ASSUME NEW y \in DpPlayers
               PROVE  (/\ ratingRows[y] \subseteq 1 .. discovered.id
                       /\ discovered.id = 0 => mmStats[y] = 0
                       /\ tracking.id <= 1 => mmStats[y] <= 1
                            /\ (discovered.on /\ history[y] = NoRow => mmStats[y] = 0))'
    BY DEF CreditedOnce
  <2>1. discovered.id >= 1 /\ mmStats[y] \in Nat /\ mmStats'[y] \in Nat
    BY DEF TablesAgree, RowsMatch, RowTypes
  <2>2. /\ ratingRows[y] \subseteq 1 .. discovered.id
        /\ tracking.id <= 1 => mmStats[y] <= 1 /\ (history[y] = NoRow => mmStats[y] = 0)
    BY DEF TablesAgree, CreditedOnce
  <2>3. CASE y = x
    BY <1>1, <2>1, <2>2, <2>3
  <2>4. CASE y # x
    BY <1>1, <2>1, <2>2, <2>4
  <2> QED
    BY <2>3, <2>4
<1>4. NothingLost
  BY <1>1 DEF NothingLost, NoRow, RowWithMap
<1> QED
  BY <1>1, <1>2, <1>3, <1>4 DEF TablesAgree

\* A rating row of the match that is stored.
LEMMA RatingAgrees ==
    ASSUME RowTypes, RowTypes', TablesAgree, UNCHANGED <<tracking, discovered, history, mmStats>>,
           NEW x \in DpPlayers, discovered.on, ratingRows' = [ratingRows EXCEPT ![x] = @ \cup {discovered.id}]
    PROVE  TablesAgree' /\ NothingLost
<1> USE FieldTypes
<1>1. discovered.id \in 1 .. discovered.id
  BY DEF TablesAgree, RowsMatch
<1>2. \A y \in DpPlayers : ratingRows[y] \subseteq ratingRows'[y]
                           /\ ratingRows'[y] \subseteq ratingRows[y] \cup {discovered.id}
  BY DEF RowTypes
<1>3. RowsMatch' /\ EnrichedMeansApplied' /\ SuccessMeansLanded'
  BY <1>2 DEF TablesAgree, RowsMatch, EnrichedMeansApplied, SuccessMeansLanded
<1>4. CreditedOnce'
  <2>1. \A y \in DpPlayers : ratingRows[y] \subseteq 1 .. discovered.id
    BY DEF TablesAgree, CreditedOnce
  <2>2. \A y \in DpPlayers : ratingRows'[y] \subseteq 1 .. discovered'.id
    BY <1>1, <1>2, <2>1
  <2> QED
    BY <2>2 DEF TablesAgree, CreditedOnce
<1>5. NothingLost
  BY <1>2 DEF NothingLost
<1> QED
  BY <1>3, <1>4, <1>5 DEF TablesAgree

\* The map name is put into the rows there are.
LEMMA MapAgrees ==
    ASSUME RowTypes, RowTypes', TablesAgree, UNCHANGED <<tracking, discovered, mmStats, ratingRows>>,
           NEW id, backfill_map(id)
    PROVE  /\ TablesAgree' /\ NothingLost
           /\ DiscoveredIs(id) /\ AllHaveRows => \A x \in DpPlayers : history'[x] = RowWithMap
<1> USE FieldTypes
<1>1. \A x \in DpPlayers : /\ history'[x] = NoRow <=> history[x] = NoRow
                           /\ history[x] = RowWithMap => history'[x] = RowWithMap
                           /\ DiscoveredIs(id) /\ history[x] # NoRow => history'[x] = RowWithMap
  BY DEF backfill_map, RowTypes, NoRow, RowWithMap, RowWithoutMap
<1>2. RowsMatch' /\ EnrichedMeansApplied' /\ SuccessMeansLanded'
  BY <1>1 DEF TablesAgree, RowsMatch, EnrichedMeansApplied, SuccessMeansLanded
<1>3. CreditedOnce'
  BY <1>1 DEF TablesAgree, CreditedOnce
<1>4. NothingLost
  BY <1>1 DEF NothingLost
<1> QED
  BY <1>1, <1>2, <1>3, <1>4 DEF TablesAgree, AllHaveRows

-----------------------------------------------------------------------------
(* The steps                                                                *)

\* No step is taken in a scenario of another component.
LEMMA StepIsPipeline == PipelineTypeOK /\ DpNext => scenario.of = "pipeline"
<1> SUFFICES ASSUME PipelineTypeOK, DpNext, scenario.of # "pipeline" PROVE FALSE
  OBVIOUS
<1>1. /\ \A q \in Tasks : req[q] = NoRequest /\ req[q].pc = "idle"
      /\ \A b \in DpBots : bots[b] = Idle /\ bots[b].at = "idle"
  BY DEF PipelineTypeOK, NoRequest, Idle
<1>2. PICK p \in Tasks : \/ RegisterTracking(p) \/ UpdateTracking(p) \/ DeleteTracking(p) \/ ResumeTracking(p)
                         \/ RequeueOne(p) \/ RequeueFailed(p)
                         \/ DpStep(p) \/ DpBot(p) \/ EffectFails(p) \/ Die(p)
  BY <1>1 DEF DpNext, BotDies
<1>3. ~DpStep(p) /\ ~EffectFails(p) /\ ~Die(p)
  BY <1>1 DEF DpStep, WriteAuthCode, RemoveTracking, ListPending, process_demo_ratings, process_match_stats,
       WriteMarker, WriteFailure, BackfillMap, SettleStage, EffectFails, Die, At
<1>4. ~DpBot(p)
  BY <1>1 DEF DpBot, FetchDue, SubmitDiscovered, update_poll_result, get_pending, claim_match, mark_failed,
       submit_enriched, lease_demo_jobs, submit_demo_result, DpOp
<1> QED
  BY <1>2, <1>3, <1>4 DEF RegisterTracking, UpdateTracking, DeleteTracking, ResumeTracking, RequeueOne,
       RequeueFailed, DpOp

\* What a task does to its request.
LEMMA Bookkeeping ==
    ASSUME PipelineTypeOK, NEW p \in Tasks, NEW r \in Jobs, Begin(p, r) \/ Continue(p, r)
    PROVE  /\ scenario' = scenario
           /\ requests' \in 0 .. scenario'.requests /\ crashes' \in 0 .. scenario'.crashes
           /\ req' \in [Tasks -> Jobs] /\ req'[p] = r
           /\ \A q \in Tasks \ {p} : req'[q] = req[q]
<1>1. scenario.requests \in Nat
  BY RequestsAssumption DEF RequestsAssumption, PipelineTypeOK
<1> QED
  BY <1>1 DEF PipelineTypeOK, Begin, Request, Wake, Continue

\* The invariant holds again when its parts do and what is put in place is sound.
LEMMA InvAgain ==
    ASSUME PipelineInv, PipelineTypeOK', TablesAgree', NothingLost,
           \A q \in Tasks : \/ req'[q] = req[q]
                            \/ req'[q] \notin MatchJob \cup DemoJob
                            \/ JobSound(req[q])',
           \A b \in DpBots : \/ bots'[b] = bots[b]
                             \/ bots'[b] \notin WorkingBot
                             \/ BotSound(bots[b])'
    PROVE  PipelineInv'
<1>1. \A q \in Tasks : req'[q] = req[q] \/ JobSound(req[q])'
  BY DEF JobSound
<1>2. \A b \in DpBots : bots'[b] = bots[b] \/ BotSound(bots[b])'
  BY DEF BotSound
<1>3. discovered \in DiscoveredMatchRow /\ discovered' \in DiscoveredMatchRow /\ WorkIsSound
  BY DEF PipelineInv, PipelineTypeOK
<1>4. WorkIsSound'
  BY <1>1, <1>2, <1>3, WorkKept
<1> QED
  BY <1>4 DEF PipelineInv

\* Where the requests of each kind can be.
LEMMA JobPcs ==
    /\ NoRequest.pc = "idle"
    /\ \A r \in CodeJob : r.pc = "dp code"
    /\ \A r \in DeleteJob : r.pc = "dp delete"
    /\ \A r \in ListJob : r.pc = "dp list"
    /\ \A r \in DemoJob : r.pc \in {"dp rate", "dp map", "dp settle", "dp effect failed"}
    /\ \A r \in MatchJob : r.pc \in {"dp rate", "dp stats", "dp enriched", "dp effect failed"}
<1>1. NoRequest.pc = "idle"
  BY DEF NoRequest
<1>2. \A r \in CodeJob : r.pc = "dp code"
  BY DEF CodeJob
<1>3. \A r \in DeleteJob : r.pc = "dp delete"
  BY DEF DeleteJob
<1>4. \A r \in ListJob : r.pc = "dp list"
  BY DEF ListJob
<1>5. \A r \in DemoJob : r.pc \in {"dp rate", "dp map", "dp settle", "dp effect failed"}
  BY DEF DemoJob
<1>6. \A r \in MatchJob : r.pc \in {"dp rate", "dp stats", "dp enriched", "dp effect failed"}
  BY DEF MatchJob
<1> QED
  BY <1>1, <1>2, <1>3, <1>4, <1>5, <1>6

\* Requests and bot states that promise nothing.
LEMMA OtherJobs ==
    \A r \in {NoRequest} \cup CodeJob \cup DeleteJob \cup ListJob : r \in Jobs /\ r \notin MatchJob \cup DemoJob
  BY JobPcs DEF Jobs

\* Bots at rest and polling have no match in hand.
LEMMA OtherBots ==
    /\ \A s \in {Idle} \cup PolledBot : s \in BotStates /\ s \notin WorkingBot
    /\ \A s \in WorkingBot : s \in BotStates
  BY DEF Idle, PolledBot, WorkingBot, BotStates

\* A step that leaves the match and what was stored for it alone.
LEMMA SameAgrees ==
    ASSUME RowTypes, tracking' \in SteamTrackingRow, TablesAgree,
           UNCHANGED <<discovered, history, mmStats, ratingRows>>,
           tracking'.on = tracking.on, tracking'.id = tracking.id
    PROVE  TablesAgree' /\ NothingLost
<1>1. RowTypes'
  BY DEF RowTypes
<1> QED
  BY <1>1, EditAgrees DEF TablesAgree, EnrichedMeansApplied, SuccessMeansLanded

\* A step of a task, put together: its request, the bots and the tables.
LEMMA StepAgain ==
    ASSUME PipelineInv, scenario.of = "pipeline", NEW p \in Tasks, NEW r \in Jobs,
           Begin(p, r) \/ Continue(p, r),
           r \notin MatchJob \cup DemoJob \/ JobSound(req[p])',
           bots' \in [DpBots -> BotStates],
           \A b \in DpBots : \/ bots'[b] = bots[b]
                             \/ bots'[b] \notin WorkingBot
                             \/ BotSound(bots[b])',
           steamAuth' \in 0 .. MaxAuthCodes,
           RowTypes', TablesAgree', NothingLost
    PROVE  PipelineInv'
<1>1. /\ scenario' = scenario
      /\ requests' \in 0 .. scenario'.requests /\ crashes' \in 0 .. scenario'.crashes
      /\ req' \in [Tasks -> Jobs] /\ req'[p] = r
      /\ \A q \in Tasks \ {p} : req'[q] = req[q]
  BY Bookkeeping DEF PipelineInv
<1>2. PipelineTypeOK'
  BY <1>1 DEF PipelineInv, PipelineTypeOK, RowTypes
<1>3. \A q \in Tasks : \/ req'[q] = req[q]
                       \/ req'[q] \notin MatchJob \cup DemoJob
                       \/ JobSound(req[q])'
  BY <1>1
<1> QED
  BY <1>2, <1>3, InvAgain

\* The same for a step that leaves the match alone.
LEMMA SameAgain ==
    ASSUME PipelineInv, scenario.of = "pipeline", NEW p \in Tasks, NEW r \in Jobs,
           Begin(p, r) \/ Continue(p, r),
           r \notin MatchJob \cup DemoJob \/ JobSound(req[p])',
           bots' \in [DpBots -> BotStates],
           \A b \in DpBots : \/ bots'[b] = bots[b]
                             \/ bots'[b] \notin WorkingBot
                             \/ BotSound(bots[b])',
           steamAuth' \in 0 .. MaxAuthCodes,
           tracking' \in SteamTrackingRow, tracking'.on = tracking.on, tracking'.id = tracking.id,
           UNCHANGED <<discovered, history, mmStats, ratingRows>>
    PROVE  PipelineInv'
<1>1. RowTypes
  BY DEF PipelineInv, PipelineTypeOK, RowTypes
<1>2. RowTypes'
  BY <1>1 DEF RowTypes
<1>3. TablesAgree' /\ NothingLost
  BY <1>1, SameAgrees DEF PipelineInv
<1> QED
  BY <1>2, <1>3, StepAgain

\* Which request a task serves is told by where it is.
LEMMA JobAt ==
    ASSUME PipelineTypeOK, NEW p \in Tasks
    PROVE  /\ req[p].pc = "dp code" => req[p] \in CodeJob
           /\ req[p].pc = "dp delete" => req[p] \in DeleteJob
           /\ req[p].pc = "dp list" => req[p] \in ListJob
           /\ req[p].pc \in {"dp stats", "dp enriched"} => req[p] \in MatchJob
           /\ req[p].pc \in {"dp map", "dp settle"} => req[p] \in DemoJob
           /\ req[p].pc \in {"dp rate", "dp effect failed"} => req[p] \in MatchJob \cup DemoJob
<1>1. req[p] \in Jobs
  BY DEF PipelineTypeOK
<1> QED
  BY <1>1, JobPcs DEF Jobs

\* Registering twice is the same as once; after a delete the ids go on.
LEMMA RegisterInv ==
    ASSUME PipelineInv, scenario.of = "pipeline", NEW p \in Tasks, RegisterTracking(p)
    PROVE  PipelineInv'
<1>1. NoRequest \in Jobs /\ NoRequest \notin MatchJob \cup DemoJob /\ Begin(p, NoRequest)
  BY OtherJobs DEF RegisterTracking, Begin
<1>2. tracking' \in SteamTrackingRow
  BY DEF RegisterTracking, create_tracking, PipelineInv, PipelineTypeOK, SteamTrackingRow, PollState, FirstCode
<1>3. RowTypes /\ RowTypes'
  BY <1>2 DEF RegisterTracking, PipelineInv, PipelineTypeOK, RowTypes
<1>4. TablesAgree' /\ NothingLost
  <2>1. CASE tracking.on
    BY <1>2, <1>3, <2>1, SameAgrees DEF RegisterTracking, PipelineInv, create_tracking
  <2>2. CASE ~tracking.on
    BY <1>3, <2>2, CreateAgrees DEF RegisterTracking, PipelineInv, create_tracking
  <2> QED
    BY <2>1, <2>2
<1> QED
  BY <1>1, <1>3, <1>4, StepAgain DEF RegisterTracking, PipelineInv, PipelineTypeOK

\* A code, its write, a pause or a resume touch the poll alone.
LEMMA UpdateTrackingInv ==
    ASSUME PipelineInv, scenario.of = "pipeline", NEW p \in Tasks, UpdateTracking(p)
    PROVE  PipelineInv'
<1> DEFINE r == [pc |-> "dp code", id |-> tracking.id, auth |-> steamAuth + 1]
<1>0. PipelineTypeOK /\ tracking.id \in Nat
  BY DEF PipelineInv, PipelineTypeOK, SteamTrackingRow
<1>1. r \in CodeJob /\ steamAuth' \in 0 .. MaxAuthCodes
  <2>1. steamAuth + 1 \in 0 .. MaxAuthCodes
    <3>1. steamAuth < MaxAuthCodes
      BY DEF UpdateTracking
    <3>2. steamAuth \in 0 .. MaxAuthCodes /\ MaxAuthCodes \in Nat
      BY <1>0, DemoPipelineAssumption DEF PipelineTypeOK, DemoPipelineAssumption
    <3> QED
      BY <3>1, <3>2
  <2>2. r \in CodeJob
    BY <1>0, <2>1 DEF CodeJob
  <2> QED
    BY <2>1, <2>2 DEF UpdateTracking
<1>2. r \in Jobs /\ r \notin MatchJob \cup DemoJob /\ Begin(p, r)
  BY <1>1, OtherJobs DEF UpdateTracking, Begin
<1> QED
  BY <1>0, <1>1, <1>2, SameAgain DEF UpdateTracking, PipelineTypeOK

\* update_auth_code looks the row up by its id.
LEMMA WriteAuthCodeInv ==
    ASSUME PipelineInv, scenario.of = "pipeline", NEW p \in Tasks, WriteAuthCode(p)
    PROVE  PipelineInv'
<1>0. PipelineTypeOK
  BY DEF PipelineInv
<1>1. NoRequest \in Jobs /\ NoRequest \notin MatchJob \cup DemoJob /\ Continue(p, NoRequest)
  BY OtherJobs DEF WriteAuthCode, Finish
<1>2. req[p] \in CodeJob
  BY <1>0, JobAt DEF WriteAuthCode, At
<1>3. tracking' \in SteamTrackingRow /\ tracking'.on = tracking.on /\ tracking'.id = tracking.id
  BY <1>0, <1>2 DEF WriteAuthCode, update_auth_code, PipelineTypeOK, SteamTrackingRow, PollState, CodeJob
<1> QED
  BY <1>0, <1>1, <1>3, SameAgain DEF WriteAuthCode, PipelineTypeOK

\* Resuming may take the cursor away, never the row.
LEMMA ResumeTrackingInv ==
    ASSUME PipelineInv, scenario.of = "pipeline", NEW p \in Tasks, ResumeTracking(p)
    PROVE  PipelineInv'
<1>0. PipelineTypeOK
  BY DEF PipelineInv
<1>1. NoRequest \in Jobs /\ NoRequest \notin MatchJob \cup DemoJob /\ Begin(p, NoRequest)
  BY OtherJobs DEF ResumeTracking, Begin
<1>3. tracking' \in SteamTrackingRow /\ tracking'.on = tracking.on /\ tracking'.id = tracking.id
  BY <1>0 DEF ResumeTracking, PipelineTypeOK, SteamTrackingRow, PollState, NoCursor
<1> QED
  BY <1>0, <1>1, <1>3, SameAgain DEF ResumeTracking, PipelineTypeOK

\* The removal is asked for,
LEMMA DeleteTrackingInv ==
    ASSUME PipelineInv, scenario.of = "pipeline", NEW p \in Tasks, DeleteTracking(p)
    PROVE  PipelineInv'
<1> DEFINE r == [pc |-> "dp delete", id |-> tracking.id]
<1>0. PipelineTypeOK /\ tracking.id \in Nat
  BY DEF PipelineInv, PipelineTypeOK, SteamTrackingRow
<1>1. r \in DeleteJob
  BY <1>0 DEF DeleteJob
<1>2. r \in Jobs /\ r \notin MatchJob \cup DemoJob /\ Begin(p, r)
  BY <1>1, OtherJobs DEF DeleteTracking, Begin
<1> QED
  BY <1>0, <1>2, SameAgain DEF DeleteTracking, PipelineTypeOK, dpTables

\* and takes the match and the history with it.
LEMMA RemoveTrackingInv ==
    ASSUME PipelineInv, scenario.of = "pipeline", NEW p \in Tasks, RemoveTracking(p)
    PROVE  PipelineInv'
<1>0. PipelineTypeOK /\ TablesAgree /\ RowTypes
  BY DEF PipelineInv, PipelineTypeOK, RowTypes
<1>1. NoRequest \in Jobs /\ NoRequest \notin MatchJob \cup DemoJob /\ Continue(p, NoRequest)
  BY OtherJobs DEF RemoveTracking, Finish
<1>2. delete_tracking(req[p].id) /\ UNCHANGED <<mmStats, ratingRows, bots, steamAuth>>
  BY DEF RemoveTracking
<1>3. RowTypes'
  <2>1. tracking' \in SteamTrackingRow
    BY <1>0, <1>2 DEF delete_tracking, RowTypes, SteamTrackingRow
  <2>2. discovered' \in DiscoveredMatchRow
    BY <1>0, <1>2 DEF delete_tracking, RowTypes, DiscoveredMatchRow
  <2>3. history' \in [DpPlayers -> {NoRow, RowWithoutMap, RowWithMap}]
    BY <1>0, <1>2 DEF delete_tracking, RowTypes
  <2> QED
    BY <1>0, <1>2, <2>1, <2>2, <2>3 DEF RowTypes
<1>4. TablesAgree' /\ NothingLost
  <2>1. CASE ~TrackingIs(req[p].id)
    BY <1>0, <1>2, <1>3, <2>1, SameAgrees DEF delete_tracking, RowTypes
  <2>2. CASE TrackingIs(req[p].id)
    <3>1. discovered.on => discovered.tracking = req[p].id
      BY <1>0, <2>2 DEF TablesAgree, RowsMatch, TrackingIs
    <3>2. ~tracking'.on /\ tracking'.id = tracking.id
      BY <1>0, <1>2, <2>2 DEF delete_tracking, RowTypes, SteamTrackingRow
    <3>3. ~discovered'.on /\ discovered'.id = discovered.id
      BY <1>0, <1>2, <2>2, <3>1 DEF delete_tracking, RowTypes, DiscoveredMatchRow
    <3> QED
      BY <1>0, <1>2, <1>3, <3>2, <3>3, DeleteAgrees
  <2> QED
    BY <2>1, <2>2
<1> QED
  BY <1>0, <1>1, <1>2, <1>3, <1>4, StepAgain DEF PipelineTypeOK

\* A requeue promises nothing: the rows stay and the stage is not touched.
LEMMA RequeueInv ==
    ASSUME PipelineInv, scenario.of = "pipeline", NEW p \in Tasks, RequeueOne(p) \/ RequeueFailed(p)
    PROVE  PipelineInv'
<1>0. PipelineTypeOK /\ TablesAgree /\ RowTypes
  BY DEF PipelineInv, PipelineTypeOK, RowTypes
<1>1. NoRequest \in Jobs /\ NoRequest \notin MatchJob \cup DemoJob /\ Begin(p, NoRequest)
  BY OtherJobs DEF RequeueOne, RequeueFailed, Begin
<1>2. /\ discovered' = [discovered EXCEPT !.status = "pending", !.retry = 0]
      /\ UNCHANGED <<tracking, history, mmStats, ratingRows, bots, steamAuth>>
  BY DEF RequeueOne, RequeueFailed
<1>3. /\ discovered' \in DiscoveredMatchRow
      /\ discovered'.on = discovered.on /\ discovered'.id = discovered.id
      /\ discovered'.tracking = discovered.tracking
      /\ discovered'.status = "pending" /\ discovered'.demo = discovered.demo
  BY <1>0, <1>2 DEF RowTypes, DiscoveredMatchRow, DiscoveredStatus
<1>4. RowTypes'
  BY <1>0, <1>2, <1>3 DEF RowTypes
<1>5. TablesAgree' /\ NothingLost
  BY <1>0, <1>2, <1>3, <1>4, EditAgrees DEF TablesAgree, SuccessMeansLanded
<1> QED
  BY <1>0, <1>1, <1>2, <1>4, <1>5, StepAgain DEF PipelineTypeOK

-----------------------------------------------------------------------------
(* The poller's calls                                                       *)

\* find_due_for_poll hands out a copy of the row.
LEMMA FetchDueInv ==
    ASSUME PipelineInv, scenario.of = "pipeline", NEW p \in Tasks, NEW b \in DpBots, FetchDue(p, b)
    PROVE  PipelineInv'
<1> DEFINE s == [at |-> "polled", id |-> tracking.id, auth |-> tracking.auth, cursor |-> tracking.cursor,
                 found |-> FALSE]
<1>0. PipelineTypeOK
  BY DEF PipelineInv
<1>1. NoRequest \in Jobs /\ NoRequest \notin MatchJob \cup DemoJob /\ Begin(p, NoRequest)
  BY OtherJobs DEF FetchDue, Call
<1>2. s \in PolledBot
  BY <1>0 DEF PipelineTypeOK, SteamTrackingRow, PolledBot
<1>3. /\ bots' = [bots EXCEPT ![b] = s]
      /\ UNCHANGED <<tracking, discovered, history, mmStats, ratingRows, steamAuth>>
  BY DEF FetchDue
<1>4. s \in BotStates /\ s \notin WorkingBot
  BY <1>2, OtherBots
<1>5. /\ bots' \in [DpBots -> BotStates] /\ bots'[b] = s
      /\ \A c \in DpBots : c # b => bots'[c] = bots[c]
  BY <1>0, <1>3, <1>4 DEF PipelineTypeOK
<1> QED
  BY <1>0, <1>1, <1>3, <1>4, <1>5, SameAgain DEF PipelineTypeOK

\* The upsert needs the row the poller copied; a second match of the entry is refused.
LEMMA SubmitDiscoveredInv ==
    ASSUME PipelineInv, scenario.of = "pipeline", NEW p \in Tasks, NEW b \in DpBots, SubmitDiscovered(p, b)
    PROVE  PipelineInv'
<1> DEFINE s == IF CanUpsert(bots[b].id) THEN [bots[b] EXCEPT !.found = TRUE] ELSE Idle
<1>0. PipelineTypeOK /\ TablesAgree /\ RowTypes
  BY DEF PipelineInv, PipelineTypeOK, RowTypes
<1>1. NoRequest \in Jobs /\ NoRequest \notin MatchJob \cup DemoJob /\ Begin(p, NoRequest)
  BY OtherJobs DEF SubmitDiscovered, Call
<1>2. bots[b] \in PolledBot
  BY <1>0 DEF SubmitDiscovered, PipelineTypeOK, BotStates, Idle, WorkingBot
<1>3. [bots[b] EXCEPT !.found = TRUE] \in PolledBot
  BY <1>2 DEF PolledBot
<1>4. s \in BotStates /\ s \notin WorkingBot
  BY <1>3, OtherBots
<1>5. /\ bots' = [bots EXCEPT ![b] = s] /\ upsert(bots[b].id)
      /\ UNCHANGED <<tracking, history, mmStats, ratingRows, steamAuth>>
  BY <1>0 DEF SubmitDiscovered, PipelineTypeOK
<1>6. /\ bots' \in [DpBots -> BotStates] /\ bots'[b] = s
      /\ \A c \in DpBots : c # b => bots'[c] = bots[c]
  BY <1>0, <1>4, <1>5 DEF PipelineTypeOK
<1>7. RowTypes' /\ TablesAgree' /\ NothingLost
  <2>1. CASE discovered.on \/ ~TrackingIs(bots[b].id)
    <3>1. UNCHANGED discovered
      BY <1>5, <2>1 DEF upsert
    <3>2. RowTypes'
      BY <1>0, <1>5, <3>1 DEF RowTypes
    <3> QED
      BY <1>0, <1>5, <3>1, <3>2, SameAgrees DEF RowTypes
  <2>2. CASE ~discovered.on /\ TrackingIs(bots[b].id)
    <3>1. NoDiscovered \in DiscoveredMatchRow /\ NoDiscovered.status = "pending" /\ NoDiscovered.demo = "pending"
      BY DemoPipelineAssumption
         DEF NoDiscovered, DiscoveredMatchRow, DiscoveredStatus, DemoStage, DemoPipelineAssumption
    <3>2. /\ discovered' = [NoDiscovered EXCEPT !.on = TRUE, !.id = discovered.id + 1, !.tracking = tracking.id]
          /\ tracking.on /\ tracking.id \in Nat /\ discovered.id + 1 \in Nat
      BY <1>0, <1>5, <2>2 DEF upsert, TrackingIs, RowTypes, SteamTrackingRow, DiscoveredMatchRow
    <3>3. /\ discovered' \in DiscoveredMatchRow
          /\ discovered'.on /\ discovered'.id = discovered.id + 1 /\ discovered'.tracking = tracking.id
          /\ discovered'.status = "pending" /\ discovered'.demo = "pending"
      BY <3>1, <3>2 DEF DiscoveredMatchRow
    <3>4. RowTypes'
      BY <1>0, <1>5, <3>3 DEF RowTypes
    <3> QED
      BY <1>0, <1>5, <2>2, <3>2, <3>3, <3>4, UpsertAgrees
  <2> QED
    BY <2>1, <2>2
<1> QED
  BY <1>0, <1>1, <1>4, <1>5, <1>6, <1>7, StepAgain DEF PipelineTypeOK

\* The result of a poll is about the cursor and the pause.
LEMMA PollResultInv ==
    ASSUME PipelineInv, scenario.of = "pipeline", NEW p \in Tasks, NEW b \in DpBots, update_poll_result(p, b)
    PROVE  PipelineInv'
<1>0. PipelineTypeOK
  BY DEF PipelineInv
<1>1. NoRequest \in Jobs /\ NoRequest \notin MatchJob \cup DemoJob /\ Begin(p, NoRequest)
  BY OtherJobs DEF update_poll_result, Call
<1>2. Idle \in BotStates /\ Idle \notin WorkingBot
  BY OtherBots
<1>3. /\ bots' \in [DpBots -> BotStates] /\ bots'[b] = Idle
      /\ \A c \in DpBots : c # b => bots'[c] = bots[c]
  BY <1>0, <1>2 DEF update_poll_result, PipelineTypeOK
<1> DEFINE cursor == IF bots[b].found THEN MatchCode ELSE NoCursor
<1>4. PICK outcome : apply_poll_result(bots[b].id, cursor, outcome)
  BY DEF update_poll_result
<1>5. resulting_state(outcome) \in PollState
  BY DEF resulting_state, PollState
<1>6. tracking' \in SteamTrackingRow /\ tracking'.on = tracking.on /\ tracking'.id = tracking.id
  BY <1>0, <1>4, <1>5 DEF apply_poll_result, PipelineTypeOK, SteamTrackingRow
<1> QED
  BY <1>0, <1>1, <1>2, <1>3, <1>6, SameAgain DEF update_poll_result, PipelineTypeOK

-----------------------------------------------------------------------------
(* The enricher's calls about the match                                     *)

\* A write of the match's status that marks nothing enriched and leaves the stage alone.
LEMMA StatusAgrees ==
    ASSUME RowTypes, TablesAgree, UNCHANGED <<tracking, history, mmStats, ratingRows>>,
           discovered' \in DiscoveredMatchRow,
           discovered'.on = discovered.on, discovered'.id = discovered.id,
           discovered'.tracking = discovered.tracking, discovered'.demo = discovered.demo,
           discovered'.status # "enriched" \/ discovered'.status = discovered.status
    PROVE  RowTypes' /\ TablesAgree' /\ NothingLost
<1>1. RowTypes'
  BY DEF RowTypes
<1> QED
  BY <1>1, EditAgrees

\* A failed attempt takes back no row.
LEMMA MarkedFailedAgrees ==
    ASSUME RowTypes, TablesAgree, UNCHANGED <<tracking, history, mmStats, ratingRows>>, NEW id, MarkedFailed(id)
    PROVE  RowTypes' /\ TablesAgree' /\ NothingLost
<1>1. CASE DiscoveredIs(id)
  <2>1. discovered' = [discovered EXCEPT !.status = "failed", !.retry = @ + 1]
    BY <1>1 DEF MarkedFailed
  <2>2. discovered \in DiscoveredMatchRow /\ discovered.retry + 1 \in Nat /\ "failed" \in DiscoveredStatus
    BY FieldTypes DEF RowTypes, DiscoveredStatus
  <2>3. discovered' \in DiscoveredMatchRow
    BY <2>1, <2>2 DEF DiscoveredMatchRow
  <2>4. /\ discovered'.on = discovered.on /\ discovered'.id = discovered.id
        /\ discovered'.tracking = discovered.tracking /\ discovered'.demo = discovered.demo
        /\ discovered'.status = "failed"
    BY <2>1, <2>2 DEF DiscoveredMatchRow
  <2> QED
    BY <2>3, <2>4, StatusAgrees
<1>2. CASE ~DiscoveredIs(id)
  <2>1. discovered' = discovered
    BY <1>2 DEF MarkedFailed
  <2> QED
    BY <2>1, StatusAgrees DEF RowTypes
<1> QED
  BY <1>1, <1>2

\* The stage of the demo: a success is written only for what has landed.
LEMMA StageAgrees ==
    ASSUME RowTypes, TablesAgree, UNCHANGED <<tracking, history, mmStats, ratingRows>>, NEW id,
           NEW outcome \in DemoOutcome, record_demo_result(id, outcome),
           outcome = "succeeded" /\ DiscoveredIs(id) =>
              \A x \in DpPlayers : history[x] = RowWithMap /\ id \in ratingRows[x]
    PROVE  RowTypes' /\ TablesAgree' /\ NothingLost
<1>1. CASE DiscoveredIs(id)
  <2>1. discovered' = [discovered EXCEPT !.demo = StageAfter(outcome)]
    BY <1>1 DEF record_demo_result
  <2>2. StageAfter(outcome) \in DemoStage /\ (StageAfter(outcome) = "succeeded" => outcome = "succeeded")
    BY DEF StageAfter, DemoOutcome, DemoStage
  <2>3. /\ discovered' \in DiscoveredMatchRow
        /\ discovered'.on = discovered.on /\ discovered'.id = discovered.id
        /\ discovered'.tracking = discovered.tracking /\ discovered'.status = discovered.status
        /\ discovered'.demo = StageAfter(outcome)
    BY <2>1, <2>2 DEF RowTypes, DiscoveredMatchRow
  <2>4. RowTypes'
    BY <2>3 DEF RowTypes
  <2>5. discovered.id = id
    BY <1>1 DEF DiscoveredIs
  <2> QED
    BY <1>1, <2>2, <2>3, <2>4, <2>5, EditAgrees
<1>2. CASE ~DiscoveredIs(id)
  <2>1. discovered' = discovered
    BY <1>2 DEF record_demo_result
  <2> QED
    BY <2>1, StatusAgrees DEF RowTypes
<1> QED
  BY <1>1, <1>2

\* The marker: it is written for a match whose players all have their rows.
LEMMA MarkerAgrees ==
    ASSUME RowTypes, TablesAgree, UNCHANGED <<tracking, history, mmStats, ratingRows>>, NEW id,
           NEW url \in BOOLEAN, mark_enriched(id, url), DiscoveredIs(id) => AllHaveRows
    PROVE  RowTypes' /\ TablesAgree' /\ NothingLost
<1>1. CASE DiscoveredIs(id)
  <2> DEFINE stage == IF ~url THEN "not_applicable"
                      ELSE IF discovered.demo \in {"pending", "not_applicable"} THEN "pending"
                      ELSE discovered.demo
  <2>1. discovered' = [discovered EXCEPT !.status = "enriched", !.url = url, !.demo = stage]
    BY <1>1 DEF mark_enriched
  <2>2. stage \in DemoStage /\ (stage = "succeeded" => discovered.demo = "succeeded")
    BY DEF RowTypes, DiscoveredMatchRow, DemoStage
  <2> HIDE DEF stage
  <2>3. /\ discovered' \in DiscoveredMatchRow
        /\ discovered'.on = discovered.on /\ discovered'.id = discovered.id
        /\ discovered'.tracking = discovered.tracking /\ discovered'.demo = stage
    BY <2>1, <2>2 DEF RowTypes, DiscoveredMatchRow, DiscoveredStatus
  <2>4. RowTypes'
    BY <2>3 DEF RowTypes
  <2> QED
    BY <1>1, <2>2, <2>3, <2>4, EditAgrees
<1>2. CASE ~DiscoveredIs(id)
  <2>1. discovered' = discovered
    BY <1>2 DEF mark_enriched
  <2> QED
    BY <2>1, StatusAgrees DEF RowTypes
<1> QED
  BY <1>1, <1>2

-----------------------------------------------------------------------------
(* The enricher's steps                                                     *)

\* What a bot works on is told by where it is.
LEMMA BotAt ==
    ASSUME PipelineTypeOK, NEW b \in DpBots, bots[b].at \in {"listed", "claimed", "leased"}
    PROVE  bots[b] \in WorkingBot
  BY DEF PipelineTypeOK, BotStates, Idle, PolledBot

\* One bot changes its state.
LEMMA BotSet ==
    ASSUME PipelineTypeOK, NEW b \in DpBots, NEW s \in BotStates, bots' = [bots EXCEPT ![b] = s]
    PROVE  /\ bots' \in [DpBots -> BotStates] /\ bots'[b] = s
           /\ \A c \in DpBots : c # b => bots'[c] = bots[c]
  BY DEF PipelineTypeOK

\* A request is put in place.
LEMMA PutJob ==
    ASSUME PipelineTypeOK, NEW p \in Tasks, NEW r \in Jobs, Begin(p, r) \/ Continue(p, r), JobSound(r)'
    PROVE  JobSound(req[p])'
<1>1. req'[p] = r
  BY Bookkeeping
<1>2. \A s : s = req'[p] => JobSound(s)'
  BY <1>1, Zenon
<1> QED
  BY <1>2, Zenon DEF JobSound, MatchJobSound, DemoJobSound, DiscoveredIs

\* The two kinds of stored work are told apart by what follows their ratings.
LEMMA JobKinds ==
    /\ \A r \in MatchJob : r \in Jobs /\ r.then = "dp stats" /\ r \notin DemoJob
    /\ \A r \in DemoJob : r \in Jobs /\ r.then = "dp map" /\ r \notin MatchJob
<1>1. \A r \in MatchJob : r.then = "dp stats"
  BY DEF MatchJob
<1>2. \A r \in DemoJob : r.then = "dp map"
  BY DEF DemoJob
<1> QED
  BY <1>1, <1>2 DEF Jobs

\* Sweeping the expired claims before the list.
LEMMA GetPendingInv ==
    ASSUME PipelineInv, scenario.of = "pipeline", NEW p \in Tasks, NEW b \in DpBots, get_pending(p, b)
    PROVE  PipelineInv'
<1> DEFINE r == [pc |-> "dp list", by |-> b]
<1>0. PipelineTypeOK /\ TablesAgree /\ RowTypes
  BY DEF PipelineInv, PipelineTypeOK, RowTypes
<1>1. r \in ListJob
  BY DEF ListJob
<1>2. r \in Jobs /\ r \notin MatchJob \cup DemoJob /\ Begin(p, r)
  BY <1>1, OtherJobs DEF get_pending, Call
<1>3. reclaim_stale /\ UNCHANGED <<tracking, history, mmStats, ratingRows, bots, steamAuth>>
  BY DEF get_pending
<1>4. RowTypes' /\ TablesAgree' /\ NothingLost
  <2>1. CASE ClaimExpired
    <3>1. discovered' = [discovered EXCEPT !.status = "failed", !.retry = @ + 1]
      BY <1>3, <2>1 DEF reclaim_stale
    <3>2. MarkedFailed(discovered.id)
      BY <2>1, <3>1 DEF MarkedFailed, ClaimExpired, DiscoveredIs
    <3> QED
      BY <1>0, <1>3, <3>2, MarkedFailedAgrees
  <2>2. CASE ~ClaimExpired
    BY <1>0, <1>3, <2>2, StatusAgrees DEF reclaim_stale, RowTypes
  <2> QED
    BY <2>1, <2>2
<1> QED
  BY <1>0, <1>2, <1>3, <1>4, StepAgain DEF PipelineTypeOK

\* The list hands out the match there is.
LEMMA ListPendingInv ==
    ASSUME PipelineInv, scenario.of = "pipeline", NEW p \in Tasks, ListPending(p)
    PROVE  PipelineInv'
<1> DEFINE s == IF find_pending THEN [at |-> "listed", id |-> discovered.id] ELSE Idle
<1>0. PipelineTypeOK /\ discovered.id \in Nat
  BY DEF PipelineInv, PipelineTypeOK, DiscoveredMatchRow
<1>1. NoRequest \in Jobs /\ NoRequest \notin MatchJob \cup DemoJob /\ Continue(p, NoRequest)
  BY OtherJobs DEF ListPending, Finish
<1>2. PICK b \in DpBots : req[p].by = b
  BY <1>0, JobAt DEF ListPending, At, ListJob
<1>3. s \in BotStates
  BY <1>0, OtherBots DEF WorkingBot
<1>4. /\ bots' = [bots EXCEPT ![b] = s]
      /\ UNCHANGED <<tracking, discovered, history, mmStats, ratingRows, steamAuth>>
  BY <1>2 DEF ListPending
<1>5. /\ bots' \in [DpBots -> BotStates] /\ bots'[b] = s
      /\ \A c \in DpBots : c # b => bots'[c] = bots[c]
  BY <1>0, <1>3, <1>4, BotSet
<1>6. s \in WorkingBot => s.id = discovered.id /\ s.at = "listed"
  BY OtherBots
<1>7. BotSound(bots[b])'
  BY <1>0, <1>4, <1>5, <1>6 DEF BotSound
<1> QED
  BY <1>0, <1>1, <1>4, <1>5, <1>7, SameAgain DEF PipelineTypeOK

\* The claim is a compare-and-set on the status.
LEMMA ClaimMatchInv ==
    ASSUME PipelineInv, scenario.of = "pipeline", NEW p \in Tasks, NEW b \in DpBots, claim_match(p, b)
    PROVE  PipelineInv'
<1> DEFINE id == bots[b].id
           s == IF Claimable(id) THEN [at |-> "claimed", id |-> id] ELSE Idle
<1>0. PipelineTypeOK /\ TablesAgree /\ RowTypes /\ bots[b] \in WorkingBot /\ id \in Nat
  <2>1. PipelineTypeOK /\ TablesAgree /\ RowTypes
    BY DEF PipelineInv, PipelineTypeOK, RowTypes
  <2>2. bots[b] \in WorkingBot
    BY <2>1, BotAt DEF claim_match
  <2> QED
    BY <2>1, <2>2 DEF WorkingBot
<1>1. NoRequest \in Jobs /\ NoRequest \notin MatchJob \cup DemoJob /\ Begin(p, NoRequest)
  BY OtherJobs DEF claim_match, Call
<1>2. s \in BotStates
  BY <1>0, OtherBots DEF WorkingBot
<1>3. bots' = [bots EXCEPT ![b] = s] /\ UNCHANGED <<tracking, history, mmStats, ratingRows, steamAuth>>
  BY <1>0 DEF claim_match, PipelineTypeOK
<1>4. /\ bots' \in [DpBots -> BotStates] /\ bots'[b] = s
      /\ \A c \in DpBots : c # b => bots'[c] = bots[c]
  BY <1>0, <1>2, <1>3, BotSet
<1>5. RowTypes' /\ TablesAgree' /\ NothingLost
  <2>1. CASE Claimable(id)
    <3>1. discovered' = [discovered EXCEPT !.status = "enriching"]
      BY <2>1 DEF claim_match
    <3>2. /\ discovered' \in DiscoveredMatchRow
          /\ discovered'.on = discovered.on /\ discovered'.id = discovered.id
          /\ discovered'.tracking = discovered.tracking /\ discovered'.demo = discovered.demo
          /\ discovered'.status = "enriching"
      BY <1>0, <3>1 DEF RowTypes, DiscoveredMatchRow, DiscoveredStatus
    <3> QED
      BY <1>0, <1>3, <3>2, StatusAgrees
  <2>2. CASE ~Claimable(id)
    BY <1>0, <1>3, <2>2, StatusAgrees DEF claim_match, RowTypes
  <2> QED
    BY <2>1, <2>2
<1>6. BotSound(bots[b])'
  <2>1. s \in WorkingBot => s.at = "claimed" /\ s.id = id
    BY OtherBots
  <2>2. id <= discovered.id
    BY <1>0 DEF PipelineInv, WorkIsSound, BotSound
  <2>3. id <= discovered'.id
    BY <1>0, <1>5, <2>2, FieldTypes DEF NothingLost, RowTypes, DiscoveredMatchRow
  <2> QED
    BY <1>4, <2>1, <2>3 DEF BotSound
<1> QED
  BY <1>0, <1>1, <1>3, <1>4, <1>5, <1>6, StepAgain DEF PipelineTypeOK

\* The bot gives the match up.
LEMMA MarkFailedInv ==
    ASSUME PipelineInv, scenario.of = "pipeline", NEW p \in Tasks, NEW b \in DpBots, mark_failed(p, b)
    PROVE  PipelineInv'
<1>0. PipelineTypeOK /\ TablesAgree /\ RowTypes
  BY DEF PipelineInv, PipelineTypeOK, RowTypes
<1>1. NoRequest \in Jobs /\ NoRequest \notin MatchJob \cup DemoJob /\ Begin(p, NoRequest)
  BY OtherJobs DEF mark_failed, Call
<1>2. Idle \in BotStates /\ Idle \notin WorkingBot
  BY OtherBots
<1>3. bots' = [bots EXCEPT ![b] = Idle] /\ UNCHANGED <<tracking, history, mmStats, ratingRows, steamAuth>>
  BY DEF mark_failed
<1>4. /\ bots' \in [DpBots -> BotStates] /\ bots'[b] = Idle
      /\ \A c \in DpBots : c # b => bots'[c] = bots[c]
  BY <1>0, <1>2, <1>3, BotSet
<1>5. RowTypes' /\ TablesAgree' /\ NothingLost
  BY <1>0, <1>3, MarkedFailedAgrees DEF mark_failed
<1> QED
  BY <1>0, <1>1, <1>2, <1>3, <1>4, <1>5, StepAgain DEF PipelineTypeOK

\* An enrichment is taken in: it promises nothing yet.
LEMMA SubmitEnrichedInv ==
    ASSUME PipelineInv, scenario.of = "pipeline", NEW p \in Tasks, NEW b \in DpBots, submit_enriched(p, b)
    PROVE  PipelineInv'
<1>0. PipelineTypeOK /\ bots[b] \in WorkingBot /\ bots[b].id \in Nat /\ bots[b].id <= discovered.id
  <2>1. PipelineTypeOK
    BY DEF PipelineInv
  <2>2. bots[b] \in WorkingBot
    BY <2>1, BotAt DEF submit_enriched
  <2> QED
    BY <2>1, <2>2 DEF WorkingBot, PipelineInv, WorkIsSound, BotSound
<1>1. scenario.urls \subseteq BOOLEAN
  BY <1>0, DemoPipelineAssumption DEF PipelineTypeOK, DemoPipelineAssumption
<1>a. PICK id : id = bots[b].id
  OBVIOUS
<1>2. PICK url \in BOOLEAN, rate \in SUBSET DpPlayers :
         Begin(p, [pc |-> "dp rate", by |-> b, id |-> id, url |-> url, rate |-> rate,
                   stats |-> DpPlayers, then |-> "dp stats"])
  BY <1>1, <1>a DEF submit_enriched, Call
<1> DEFINE r == [pc |-> "dp rate", by |-> b, id |-> id, url |-> url, rate |-> rate, stats |-> DpPlayers,
                 then |-> "dp stats"]
<1>3. r \in MatchJob
  BY <1>0, <1>a, <1>2 DEF MatchJob
<1>4. r \in Jobs /\ r \notin DemoJob
  BY <1>3, JobKinds
<1>5. UNCHANGED <<tracking, discovered, history, mmStats, ratingRows, bots, steamAuth>>
  BY DEF submit_enriched, dpTables
<1>6. JobSound(r)'
  BY <1>0, <1>a, <1>2, <1>4, <1>5 DEF JobSound, MatchJobSound
<1>7. JobSound(req[p])'
  <2> HIDE DEF r
  <2> QED
    BY <1>0, <1>2, <1>4, <1>6, PutJob DEF r
<1> QED
  BY <1>0, <1>2, <1>4, <1>5, <1>7, SameAgain DEF PipelineTypeOK

\* A step that goes on with a stored piece of work, whose new state is sound.
LEMMA ContinueAgain ==
    ASSUME PipelineInv, scenario.of = "pipeline", NEW p \in Tasks, NEW r \in Jobs, Continue(p, r),
           JobSound(r)', UNCHANGED <<bots, steamAuth>>, RowTypes', TablesAgree', NothingLost
    PROVE  PipelineInv'
<1>1. JobSound(req[p])'
  BY PutJob DEF PipelineInv
<1> QED
  BY <1>1, StepAgain DEF PipelineInv, PipelineTypeOK

\* The job a task has in hand, and what it knows of it after a step.
LEMMA JobInHand ==
    ASSUME PipelineInv, NEW p \in Tasks, NEW r \in MatchJob \cup DemoJob, r = req[p],
           discovered' \in DiscoveredMatchRow, NothingLost
    PROVE  JobSound(r) /\ JobSound(r)'
<1>1. JobSound(r)
  <2>1. \A s : s = req[p] => JobSound(s)
    BY DEF PipelineInv, WorkIsSound
  <2> QED
    BY <2>1
<1>2. discovered.id \in Nat /\ discovered'.id \in Nat
  BY DEF PipelineInv, PipelineTypeOK, DiscoveredMatchRow
<1> QED
  BY <1>1, <1>2, JobKept

\* A step that writes none of the tables.
LEMMA UnchangedAgrees ==
    ASSUME PipelineInv, UNCHANGED <<tracking, discovered, history, mmStats, ratingRows>>
    PROVE  RowTypes /\ RowTypes' /\ TablesAgree' /\ NothingLost /\ discovered' \in DiscoveredMatchRow
<1>1. RowTypes
  BY DEF PipelineInv, PipelineTypeOK, RowTypes
<1>2. RowTypes'
  BY <1>1 DEF RowTypes
<1> QED
  BY <1>1, <1>2, SameAgrees DEF PipelineInv, RowTypes

\* What stays true of a job whose place alone changes to one that promises no more.
LEMMA FailedJob ==
    ASSUME NEW r \in MatchJob \cup DemoJob, r.pc \in {"dp rate", "dp stats", "dp map"}, JobSound(r)'
    PROVE  /\ [r EXCEPT !.pc = "dp effect failed"] \in Jobs
           /\ JobSound([r EXCEPT !.pc = "dp effect failed"])'
<1> DEFINE f == [r EXCEPT !.pc = "dp effect failed"]
<1>1. CASE r \in MatchJob
  <2>1. f \in MatchJob /\ f.pc = "dp effect failed" /\ f.id = r.id /\ f.stats = r.stats
    BY <1>1 DEF MatchJob
  <2>2. f \in Jobs /\ f \notin DemoJob
    BY <2>1, JobKinds
  <2>3. MatchJobSound(r)'
    BY <1>1 DEF JobSound
  <2> QED
    BY <2>1, <2>2, <2>3 DEF JobSound, MatchJobSound
<1>2. CASE r \in DemoJob
  <2>1. /\ f \in DemoJob /\ f.pc = "dp effect failed" /\ f.id = r.id /\ f.rate = r.rate
        /\ f.outcome = r.outcome
    BY <1>2 DEF DemoJob
  <2>2. f \in Jobs /\ f \notin MatchJob
    BY <2>1, JobKinds
  <2>3. DemoJobSound(r)'
    BY <1>2 DEF JobSound
  <2> QED
    BY <2>1, <2>2, <2>3 DEF JobSound, DemoJobSound
<1> QED
  BY <1>1, <1>2

\* The first effect that fails ends the others.
LEMMA EffectFailsInv ==
    ASSUME PipelineInv, scenario.of = "pipeline", NEW p \in Tasks, EffectFails(p)
    PROVE  PipelineInv'
<1>0. PipelineTypeOK
  BY DEF PipelineInv
<1>1. PICK r : r = req[p]
  OBVIOUS
<1>2. r \in MatchJob \cup DemoJob /\ r.pc \in {"dp rate", "dp stats", "dp map"}
  BY <1>0, <1>1, JobAt DEF EffectFails, At
<1>3. UNCHANGED <<tracking, discovered, history, mmStats, ratingRows, bots, steamAuth>>
  BY DEF EffectFails, dpTables
<1>4. RowTypes' /\ TablesAgree' /\ NothingLost /\ JobSound(r)'
  BY <1>1, <1>2, <1>3, UnchangedAgrees, JobInHand
<1> DEFINE f == [r EXCEPT !.pc = "dp effect failed"]
<1>5. f \in Jobs /\ JobSound(f)' /\ Continue(p, f)
  BY <1>1, <1>2, <1>4, FailedJob DEF EffectFails
<1> HIDE DEF f
<1> QED
  BY <1>3, <1>4, <1>5, ContinueAgain

\* The ratings come first; then the work goes on where it said it would.
LEMMA DemoRatingsInv ==
    ASSUME PipelineInv, scenario.of = "pipeline", NEW p \in Tasks, process_demo_ratings(p)
    PROVE  PipelineInv'
<1>0. PipelineTypeOK /\ RowTypes /\ TablesAgree
  BY DEF PipelineInv, PipelineTypeOK, RowTypes
<1>1. PICK r : r = req[p]
  OBVIOUS
<1>2. r \in MatchJob \cup DemoJob /\ r.pc = "dp rate"
  BY <1>0, <1>1, JobAt DEF process_demo_ratings, At
<1>3. CASE r.rate = {}
  <2> DEFINE n == [r EXCEPT !.pc = r.then]
  <2>1. Continue(p, n) /\ UNCHANGED <<tracking, discovered, history, mmStats, ratingRows, bots, steamAuth>>
    BY <1>1, <1>3 DEF process_demo_ratings, dpTables
  <2>2. RowTypes' /\ TablesAgree' /\ NothingLost /\ JobSound(r)'
    BY <1>1, <1>2, <2>1, UnchangedAgrees, JobInHand
  <2>3. n \in Jobs /\ JobSound(n)'
    <3>1. CASE r \in MatchJob
      <4>1. n \in MatchJob /\ n.pc = "dp stats" /\ n.id = r.id /\ n.stats = r.stats
        BY <3>1 DEF MatchJob
      <4>2. n \in Jobs /\ n \notin DemoJob
        BY <4>1, JobKinds
      <4>3. MatchJobSound(r)'
        BY <2>2, <3>1 DEF JobSound
      <4> HIDE DEF n
      <4> QED
        BY <4>1, <4>2, <4>3 DEF JobSound, MatchJobSound
    <3>2. CASE r \in DemoJob
      <4>1. /\ n \in DemoJob /\ n.pc = "dp map" /\ n.id = r.id /\ n.rate = r.rate /\ n.outcome = r.outcome
        BY <3>2 DEF DemoJob
      <4>2. n \in Jobs /\ n \notin MatchJob
        BY <4>1, JobKinds
      <4>3. DemoJobSound(r)'
        BY <2>2, <3>2 DEF JobSound
      <4> HIDE DEF n
      <4> QED
        BY <1>3, <4>1, <4>2, <4>3 DEF JobSound, DemoJobSound
    <3> QED
      BY <1>2, <3>1, <3>2
  <2> HIDE DEF n
  <2> QED
    BY <2>1, <2>2, <2>3, ContinueAgain
<1>4. CASE r.rate # {} /\ ~DiscoveredIs(r.id)
  <2> DEFINE f == [r EXCEPT !.pc = "dp effect failed"]
  <2>1. Continue(p, f) /\ UNCHANGED <<tracking, discovered, history, mmStats, ratingRows, bots, steamAuth>>
    BY <1>1, <1>4 DEF process_demo_ratings, dpTables
  <2>2. RowTypes' /\ TablesAgree' /\ NothingLost /\ JobSound(r)'
    BY <1>1, <1>2, <2>1, UnchangedAgrees, JobInHand
  <2>3. f \in Jobs /\ JobSound(f)'
    BY <1>2, <2>2, FailedJob
  <2> HIDE DEF f
  <2> QED
    BY <2>1, <2>2, <2>3, ContinueAgain
<1>5. CASE r.rate # {} /\ DiscoveredIs(r.id)
  <2>1. PICK x \in r.rate :
           /\ ratingRows' = [ratingRows EXCEPT ![x] = @ \cup {r.id}]
           /\ Continue(p, [r EXCEPT !.rate = @ \ {x}])
           /\ UNCHANGED <<tracking, discovered, history, mmStats, bots, steamAuth>>
    BY <1>1, <1>5 DEF process_demo_ratings
  <2> DEFINE n == [r EXCEPT !.rate = @ \ {x}]
  <2>2. x \in DpPlayers
    BY <1>2 DEF MatchJob, DemoJob
  <2>3. discovered.on /\ r.id = discovered.id /\ discovered.id \in Nat
    BY <1>0, <1>5, FieldTypes DEF DiscoveredIs
  <2>4. RowTypes'
    BY <1>0, <2>1, <2>2, <2>3 DEF RowTypes
  <2>5. TablesAgree' /\ NothingLost
    BY <1>0, <2>1, <2>2, <2>3, <2>4, RatingAgrees
  <2>6. JobSound(r) /\ JobSound(r)'
    BY <1>1, <1>2, <2>4, <2>5, JobInHand DEF RowTypes
  <2>7. r.id \in ratingRows'[x]
    BY <1>0, <2>1, <2>2 DEF RowTypes
  <2>8. n \in Jobs /\ JobSound(n)'
    <3>1. CASE r \in MatchJob
      <4>1. n \in MatchJob /\ n.pc = "dp rate" /\ n.id = r.id /\ n.stats = r.stats
        BY <1>2, <3>1 DEF MatchJob
      <4>2. n \in Jobs /\ n \notin DemoJob
        BY <4>1, JobKinds
      <4>3. MatchJobSound(r)'
        BY <2>6, <3>1 DEF JobSound
      <4> HIDE DEF n
      <4> QED
        BY <4>1, <4>2, <4>3 DEF JobSound, MatchJobSound
    <3>2. CASE r \in DemoJob
      <4>1. /\ n \in DemoJob /\ n.pc = "dp rate" /\ n.id = r.id /\ n.rate = r.rate \ {x} /\ n.outcome = r.outcome
        BY <1>2, <3>2 DEF DemoJob
      <4>2. n \in Jobs /\ n \notin MatchJob
        BY <4>1, JobKinds
      <4>3. DemoJobSound(r)'
        BY <2>6, <3>2 DEF JobSound
      <4> HIDE DEF n
      <4> QED
        BY <2>7, <4>1, <4>2, <4>3 DEF JobSound, DemoJobSound
    <3> QED
      BY <1>2, <3>1, <3>2
  <2> HIDE DEF n
  <2> QED
    BY <2>1, <2>4, <2>5, <2>8, ContinueAgain DEF n
<1> QED
  BY <1>3, <1>4, <1>5

\* The statistics, one player at a time; the last one lets the marker be written.
LEMMA MatchStatsInv ==
    ASSUME PipelineInv, scenario.of = "pipeline", NEW p \in Tasks, process_match_stats(p)
    PROVE  PipelineInv'
<1>0. PipelineTypeOK /\ RowTypes /\ TablesAgree
  BY DEF PipelineInv, PipelineTypeOK, RowTypes
<1>1. PICK r : r = req[p]
  OBVIOUS
<1>2. r \in MatchJob /\ r.pc = "dp stats"
  BY <1>0, <1>1, JobAt DEF process_match_stats, At
<1>a. UNCHANGED <<tracking, discovered, ratingRows, bots, steamAuth>>
  BY DEF process_match_stats
<1>3. CASE r.stats = {}
  <2> DEFINE n == [r EXCEPT !.pc = "dp enriched"]
  <2>1. Continue(p, n) /\ UNCHANGED <<history, mmStats>>
    BY <1>1, <1>3 DEF process_match_stats
  <2>2. RowTypes' /\ TablesAgree' /\ NothingLost /\ JobSound(r)'
    BY <1>1, <1>2, <1>a, <2>1, UnchangedAgrees, JobInHand
  <2>3. n \in MatchJob /\ n.pc = "dp enriched" /\ n.id = r.id /\ n.stats = r.stats
    BY <1>2 DEF MatchJob
  <2>4. n \in Jobs /\ n \notin DemoJob
    BY <2>3, JobKinds
  <2>5. MatchJobSound(r)'
    BY <1>2, <2>2 DEF JobSound
  <2> HIDE DEF n
  <2>6. JobSound(n)'
    BY <1>3, <2>3, <2>4, <2>5 DEF JobSound, MatchJobSound
  <2> QED
    BY <1>a, <2>1, <2>2, <2>4, <2>6, ContinueAgain
<1>4. CASE r.stats # {} /\ ~DiscoveredIs(r.id)
  <2> DEFINE f == [r EXCEPT !.pc = "dp effect failed"]
  <2>1. Continue(p, f) /\ UNCHANGED <<history, mmStats>>
    BY <1>1, <1>4 DEF process_match_stats
  <2>2. RowTypes' /\ TablesAgree' /\ NothingLost /\ JobSound(r)'
    BY <1>1, <1>2, <1>a, <2>1, UnchangedAgrees, JobInHand
  <2>3. f \in Jobs /\ JobSound(f)'
    BY <1>2, <2>2, FailedJob
  <2> HIDE DEF f
  <2> QED
    BY <1>a, <2>1, <2>2, <2>3, ContinueAgain
<1>5. CASE r.stats # {} /\ DiscoveredIs(r.id)
  <2>1. PICK x \in r.stats : claim_and_accumulate(x) /\ Continue(p, [r EXCEPT !.stats = @ \ {x}])
    BY <1>1, <1>5 DEF process_match_stats
  <2> DEFINE n == [r EXCEPT !.stats = @ \ {x}]
  <2>2. x \in DpPlayers
    BY <1>2 DEF MatchJob
  <2>3. discovered.on
    BY <1>5 DEF DiscoveredIs
  <2>4. RowTypes'
    <3>1. history' \in [DpPlayers -> {NoRow, RowWithoutMap, RowWithMap}] /\ mmStats' \in [DpPlayers -> Nat]
      BY <1>0, <2>1, <2>2 DEF RowTypes, claim_and_accumulate
    <3> QED
      BY <1>0, <1>a, <3>1 DEF RowTypes
  <2>5. TablesAgree' /\ NothingLost /\ history'[x] # NoRow
    BY <1>0, <1>a, <2>1, <2>2, <2>3, <2>4, AccumulateAgrees
  <2>6. JobSound(r)'
    BY <1>1, <1>2, <2>4, <2>5, JobInHand DEF RowTypes
  <2>7. n \in MatchJob /\ n.pc = "dp stats" /\ n.id = r.id /\ n.stats = r.stats \ {x}
    BY <1>2 DEF MatchJob
  <2>8. n \in Jobs /\ n \notin DemoJob
    BY <2>7, JobKinds
  <2>9. MatchJobSound(r)'
    BY <1>2, <2>6 DEF JobSound
  <2> HIDE DEF n
  <2>10. JobSound(n)'
    BY <2>5, <2>7, <2>8, <2>9 DEF JobSound, MatchJobSound
  <2> QED
    BY <1>a, <2>1, <2>4, <2>5, <2>8, <2>10, ContinueAgain DEF n
<1> QED
  BY <1>3, <1>4, <1>5

\* The end of a piece of work: the tables are written and the bot is free.
LEMMA FreeAgain ==
    ASSUME PipelineInv, scenario.of = "pipeline", NEW p \in Tasks, NEW b \in DpBots,
           Continue(p, NoRequest) \/ Begin(p, NoRequest), bots' = [bots EXCEPT ![b] = Idle], UNCHANGED steamAuth,
           RowTypes', TablesAgree', NothingLost
    PROVE  PipelineInv'
<1>1. NoRequest \in Jobs /\ NoRequest \notin MatchJob \cup DemoJob
  BY OtherJobs
<1>2. Idle \in BotStates /\ Idle \notin WorkingBot
  BY OtherBots
<1>3. /\ bots' \in [DpBots -> BotStates] /\ bots'[b] = Idle
      /\ \A c \in DpBots : c # b => bots'[c] = bots[c]
  BY <1>2, BotSet DEF PipelineInv
<1> QED
  BY <1>1, <1>2, <1>3, StepAgain DEF PipelineInv, PipelineTypeOK

\* The marker is written for a request that has dealt with every player.
LEMMA WriteMarkerInv ==
    ASSUME PipelineInv, scenario.of = "pipeline", NEW p \in Tasks, WriteMarker(p)
    PROVE  PipelineInv'
<1>0. PipelineTypeOK /\ RowTypes /\ TablesAgree
  BY DEF PipelineInv, PipelineTypeOK, RowTypes
<1>1. req[p] \in MatchJob /\ req[p].pc = "dp enriched"
  BY <1>0, JobAt DEF WriteMarker, At
<1>2. req[p].by \in DpBots /\ req[p].url \in BOOLEAN
  BY <1>1 DEF MatchJob
<1>3. DiscoveredIs(req[p].id) => AllHaveRows
  BY <1>1 DEF PipelineInv, WorkIsSound, JobSound, MatchJobSound, AllHaveRows
<1>4. RowTypes' /\ TablesAgree' /\ NothingLost
  BY <1>0, <1>2, <1>3, MarkerAgrees DEF WriteMarker
<1> QED
  BY <1>2, <1>4, FreeAgain DEF WriteMarker, Finish

\* The failure of an effect is charged to the match or to its demo.
LEMMA WriteFailureInv ==
    ASSUME PipelineInv, scenario.of = "pipeline", NEW p \in Tasks, WriteFailure(p)
    PROVE  PipelineInv'
<1>0. PipelineTypeOK /\ RowTypes /\ TablesAgree
  BY DEF PipelineInv, PipelineTypeOK, RowTypes
<1>1. req[p] \in MatchJob \cup DemoJob
  BY <1>0, JobAt DEF WriteFailure, At
<1>2. req[p].by \in DpBots
  <2>1. req[p] \in MatchJob => req[p].by \in DpBots
    BY DEF MatchJob
  <2>2. req[p] \in DemoJob => req[p].by \in DpBots
    BY DEF DemoJob
  <2> QED
    BY <1>1, <2>1, <2>2
<1>3. RowTypes' /\ TablesAgree' /\ NothingLost
  <2>1. CASE req[p].then = "dp stats"
    BY <1>0, <2>1, MarkedFailedAgrees DEF WriteFailure
  <2>2. CASE req[p].then # "dp stats"
    BY <1>0, <2>2, StageAgrees DEF WriteFailure, DemoOutcome
  <2> QED
    BY <2>1, <2>2
<1> QED
  BY <1>2, <1>3, FreeAgain DEF WriteFailure, Finish

-----------------------------------------------------------------------------
(* The enricher's calls about the demo                                      *)

\* A job is leased for an enriched match: its players have their rows.
LEMMA LeaseInv ==
    ASSUME PipelineInv, scenario.of = "pipeline", NEW p \in Tasks, NEW b \in DpBots, lease_demo_jobs(p, b)
    PROVE  PipelineInv'
<1> DEFINE s == [at |-> "leased", id |-> discovered.id]
<1>0. PipelineTypeOK /\ RowTypes /\ TablesAgree /\ discovered.id \in Nat
  BY DEF PipelineInv, PipelineTypeOK, RowTypes, DiscoveredMatchRow
<1>1. NoRequest \in Jobs /\ NoRequest \notin MatchJob \cup DemoJob /\ Begin(p, NoRequest)
  BY OtherJobs DEF lease_demo_jobs, Call
<1>2. s \in WorkingBot /\ s \in BotStates
  BY <1>0, OtherBots DEF WorkingBot
<1>3. /\ bots' = [bots EXCEPT ![b] = s] /\ discovered' = [discovered EXCEPT !.demoRetry = @ + 1]
      /\ UNCHANGED <<tracking, history, mmStats, ratingRows, steamAuth>>
  BY DEF lease_demo_jobs
<1>4. /\ bots' \in [DpBots -> BotStates] /\ bots'[b] = s
      /\ \A c \in DpBots : c # b => bots'[c] = bots[c]
  BY <1>0, <1>2, <1>3, BotSet
<1>5. discovered.demoRetry + 1 \in 0 .. DEMO_MAX_RETRIES
  BY <1>0, FieldTypes, DemoPipelineAssumption DEF lease_demo_jobs, Leasable, DemoPipelineAssumption
<1>6. /\ discovered' \in DiscoveredMatchRow
      /\ discovered'.on = discovered.on /\ discovered'.id = discovered.id
      /\ discovered'.tracking = discovered.tracking /\ discovered'.demo = discovered.demo
      /\ discovered'.status = discovered.status
  BY <1>0, <1>3, <1>5 DEF RowTypes, DiscoveredMatchRow
<1>7. RowTypes' /\ TablesAgree' /\ NothingLost
  BY <1>0, <1>3, <1>6, StatusAgrees
<1>8. AllHaveRows
  BY <1>0 DEF lease_demo_jobs, Leasable, TablesAgree, EnrichedMeansApplied, AllHaveRows
<1>9. BotSound(bots[b])'
  BY <1>0, <1>3, <1>4, <1>6, <1>8 DEF BotSound, AllHaveRows
<1> QED
  BY <1>0, <1>1, <1>3, <1>4, <1>7, <1>9, StepAgain DEF PipelineTypeOK

\* A demo result is stored with its ratings still to come.
LEMMA SubmitDemoInv ==
    ASSUME PipelineInv, scenario.of = "pipeline", NEW p \in Tasks, NEW b \in DpBots, submit_demo_result(p, b)
    PROVE  PipelineInv'
<1>0. PipelineTypeOK /\ RowTypes /\ TablesAgree
  BY DEF PipelineInv, PipelineTypeOK, RowTypes
<1>1. bots[b] \in WorkingBot /\ bots[b].at = "leased"
  BY <1>0, BotAt DEF submit_demo_result
<1>2. PICK id : id = bots[b].id
  OBVIOUS
<1>3. id \in Nat /\ id <= discovered.id /\ (DiscoveredIs(id) => AllHaveRows)
  BY <1>1, <1>2 DEF WorkingBot, PipelineInv, WorkIsSound, BotSound
<1>4. PICK outcome \in DemoOutcome :
         IF outcome \in {"succeeded", "empty"}
         THEN /\ DiscoveredIs(id)
              /\ Begin(p, [pc |-> "dp rate", by |-> b, id |-> id, outcome |-> outcome,
                           rate |-> IF outcome = "succeeded" THEN DpPlayers ELSE {}, then |-> "dp map"])
              /\ UNCHANGED dpTables
         ELSE /\ Begin(p, NoRequest)
              /\ record_demo_result(id, outcome)
              /\ bots' = [bots EXCEPT ![b] = Idle]
              /\ UNCHANGED <<tracking, history, mmStats, ratingRows, steamAuth>>
  BY <1>2 DEF submit_demo_result, Call
<1>5. CASE outcome \in {"succeeded", "empty"}
  <2> DEFINE r == [pc |-> "dp rate", by |-> b, id |-> id, outcome |-> outcome,
                   rate |-> IF outcome = "succeeded" THEN DpPlayers ELSE {}, then |-> "dp map"]
  <2>1. Begin(p, r) /\ UNCHANGED <<tracking, discovered, history, mmStats, ratingRows, bots, steamAuth>>
    BY <1>4, <1>5 DEF dpTables
  <2>2. /\ r \in DemoJob /\ r.id = id /\ r.pc = "dp rate"
        /\ r.outcome = "succeeded" => r.rate = DpPlayers
    BY <1>3, <1>5 DEF DemoJob
  <2>3. r \in Jobs /\ r \notin MatchJob
    BY <2>2, JobKinds
  <2> HIDE DEF r
  <2>4. DiscoveredIs(id)' => AllHaveRows'
    BY <1>3, <2>1 DEF DiscoveredIs, AllHaveRows
  <2>5. id <= discovered'.id
    BY <1>3, <2>1
  <2>6. JobSound(r)'
    BY <2>2, <2>3, <2>4, <2>5 DEF JobSound, DemoJobSound
  <2>7. JobSound(req[p])'
    BY <1>0, <2>1, <2>3, <2>6, PutJob
  <2> QED
    BY <1>0, <2>1, <2>3, <2>7, SameAgain DEF PipelineTypeOK
<1>6. CASE outcome \notin {"succeeded", "empty"}
  <2>1. RowTypes' /\ TablesAgree' /\ NothingLost
    BY <1>0, <1>4, <1>6, StageAgrees
  <2> QED
    BY <1>4, <1>6, <2>1, FreeAgain
<1> QED
  BY <1>5, <1>6

\* The map name reaches every row, for every player has one.
LEMMA BackfillMapInv ==
    ASSUME PipelineInv, scenario.of = "pipeline", NEW p \in Tasks, BackfillMap(p)
    PROVE  PipelineInv'
<1>0. PipelineTypeOK /\ RowTypes /\ TablesAgree
  BY DEF PipelineInv, PipelineTypeOK, RowTypes
<1>1. PICK r : r = req[p]
  OBVIOUS
<1>2. r \in DemoJob /\ r.pc = "dp map"
  BY <1>0, <1>1, JobAt DEF BackfillMap, At
<1> DEFINE n == [r EXCEPT !.pc = "dp settle"]
<1>3. /\ backfill_map(r.id) /\ Continue(p, n)
      /\ UNCHANGED <<tracking, discovered, mmStats, ratingRows, bots, steamAuth>>
  BY <1>1 DEF BackfillMap
<1>4. RowTypes'
  <2>1. history' \in [DpPlayers -> {NoRow, RowWithoutMap, RowWithMap}]
    BY <1>0, <1>3 DEF RowTypes, backfill_map
  <2> QED
    BY <1>0, <1>3, <2>1 DEF RowTypes
<1>5. /\ TablesAgree' /\ NothingLost
      /\ DiscoveredIs(r.id) /\ AllHaveRows => \A x \in DpPlayers : history'[x] = RowWithMap
  BY <1>0, <1>3, <1>4, MapAgrees
<1>6. JobSound(r) /\ JobSound(r)'
  BY <1>1, <1>2, <1>4, <1>5, JobInHand DEF RowTypes
<1>7. DemoJobSound(r) /\ DemoJobSound(r)'
  BY <1>2, <1>6 DEF JobSound
<1>8. n \in DemoJob /\ n.pc = "dp settle" /\ n.id = r.id /\ n.rate = r.rate /\ n.outcome = r.outcome
  BY <1>2 DEF DemoJob
<1>9. n \in Jobs /\ n \notin MatchJob
  BY <1>8, JobKinds
<1> HIDE DEF n
<1>10. DiscoveredIs(r.id)' => r.rate = {} /\ \A x \in DpPlayers : history'[x] = RowWithMap
  BY <1>2, <1>3, <1>5, <1>7 DEF DemoJobSound, DiscoveredIs
<1>11. JobSound(n)'
  BY <1>7, <1>8, <1>9, <1>10 DEF JobSound, DemoJobSound
<1> QED
  BY <1>3, <1>4, <1>5, <1>9, <1>11, ContinueAgain

\* The stage is settled after its effects.
LEMMA SettleStageInv ==
    ASSUME PipelineInv, scenario.of = "pipeline", NEW p \in Tasks, SettleStage(p)
    PROVE  PipelineInv'
<1>0. PipelineTypeOK /\ RowTypes /\ TablesAgree
  BY DEF PipelineInv, PipelineTypeOK, RowTypes
<1>1. req[p] \in DemoJob /\ req[p].pc = "dp settle"
  BY <1>0, JobAt DEF SettleStage, At
<1>2. req[p].by \in DpBots /\ req[p].outcome \in DemoOutcome
  BY <1>1 DEF DemoJob, DemoOutcome
<1>3. DemoJobSound(req[p])
  BY <1>1 DEF PipelineInv, WorkIsSound, JobSound
<1>4. req[p].outcome = "succeeded" /\ DiscoveredIs(req[p].id) =>
         \A x \in DpPlayers : history[x] = RowWithMap /\ req[p].id \in ratingRows[x]
  BY <1>1, <1>3 DEF DemoJobSound
<1>5. RowTypes' /\ TablesAgree' /\ NothingLost
  BY <1>0, <1>2, <1>4, StageAgrees DEF SettleStage
<1> QED
  BY <1>2, <1>5, FreeAgain DEF SettleStage, Finish

-----------------------------------------------------------------------------
(* Every step                                                               *)

\* A task or a bot that dies leaves the tables as they are.
LEMMA DeathInv ==
    ASSUME PipelineInv, scenario.of = "pipeline",
           \/ \E p \in Tasks : Die(p) /\ UNCHANGED dpTables
           \/ \E b \in DpBots : BotDies(b)
    PROVE  PipelineInv'
<1>0. PipelineTypeOK /\ scenario.crashes \in Nat /\ crashes \in 0 .. scenario.crashes
  BY RequestsAssumption DEF PipelineInv, PipelineTypeOK, RequestsAssumption
<1>1. /\ UNCHANGED <<tracking, discovered, history, mmStats, ratingRows, steamAuth, scenario, requests>>
      /\ crashes < scenario.crashes /\ crashes' = crashes + 1
  BY DEF Die, BotDies, dpTables
<1>2. crashes' \in 0 .. scenario'.crashes
  BY <1>0, <1>1
<1>3. RowTypes' /\ TablesAgree' /\ NothingLost
  BY <1>1, UnchangedAgrees
<1>4. CASE \E p \in Tasks : Die(p) /\ UNCHANGED dpTables
  <2>1. PICK p \in Tasks : req' = [req EXCEPT ![p] = NoRequest] /\ UNCHANGED bots
    BY <1>4 DEF Die, dpTables
  <2>2. NoRequest \in Jobs /\ NoRequest \notin MatchJob \cup DemoJob
    BY OtherJobs
  <2>3. req' \in [Tasks -> Jobs] /\ \A q \in Tasks : req'[q] = req[q] \/ req'[q] = NoRequest
    BY <1>0, <2>1, <2>2 DEF PipelineTypeOK
  <2>4. PipelineTypeOK'
    BY <1>0, <1>1, <1>2, <1>3, <2>1, <2>3 DEF PipelineTypeOK, RowTypes
  <2> QED
    BY <1>3, <2>1, <2>2, <2>3, <2>4, InvAgain
<1>5. CASE \E b \in DpBots : BotDies(b)
  <2>1. PICK b \in DpBots : bots' = [bots EXCEPT ![b] = Idle] /\ UNCHANGED req
    BY <1>5 DEF BotDies
  <2>2. Idle \in BotStates /\ Idle \notin WorkingBot
    BY OtherBots
  <2>3. /\ bots' \in [DpBots -> BotStates] /\ bots'[b] = Idle
        /\ \A c \in DpBots : c # b => bots'[c] = bots[c]
    BY <1>0, <2>1, <2>2, BotSet
  <2>4. PipelineTypeOK'
    BY <1>0, <1>1, <1>2, <1>3, <2>1, <2>3 DEF PipelineTypeOK, RowTypes
  <2> QED
    BY <1>3, <2>1, <2>2, <2>3, <2>4, InvAgain
<1> QED
  BY <1>4, <1>5

\* Every step keeps the invariant.
LEMMA PipelineStepInv == PipelineInv /\ [DpNext]_dpVars => PipelineInv'
<1> SUFFICES ASSUME PipelineInv, [DpNext]_dpVars PROVE PipelineInv'
  OBVIOUS
<1>1. CASE UNCHANGED dpVars
  BY <1>1 DEF dpVars, dpTables, requestVars, PipelineInv, PipelineTypeOK, TablesAgree, RowsMatch, CreditedOnce,
       EnrichedMeansApplied, SuccessMeansLanded, WorkIsSound, JobSound, MatchJobSound, DemoJobSound, BotSound,
       AllHaveRows, DiscoveredIs
<1>2. CASE DpNext
  <2>0. scenario.of = "pipeline"
    BY <1>2, StepIsPipeline DEF PipelineInv
  <2>1. CASE \E p \in Tasks : \/ RegisterTracking(p) \/ UpdateTracking(p) \/ DeleteTracking(p)
                              \/ ResumeTracking(p) \/ RequeueOne(p) \/ RequeueFailed(p)
    BY <2>0, <2>1, RegisterInv, UpdateTrackingInv, DeleteTrackingInv, ResumeTrackingInv, RequeueInv
  <2>2. CASE \E p \in Tasks : DpStep(p)
    BY <2>0, <2>2, WriteAuthCodeInv, RemoveTrackingInv, ListPendingInv, DemoRatingsInv, MatchStatsInv,
       WriteMarkerInv, WriteFailureInv, BackfillMapInv, SettleStageInv DEF DpStep
  <2>3. CASE \E p \in Tasks : DpBot(p)
    BY <2>0, <2>3, FetchDueInv, SubmitDiscoveredInv, PollResultInv, GetPendingInv, ClaimMatchInv, MarkFailedInv,
       SubmitEnrichedInv, LeaseInv, SubmitDemoInv DEF DpBot
  <2>4. CASE \E p \in Tasks : EffectFails(p)
    BY <2>0, <2>4, EffectFailsInv
  <2>5. CASE (\E p \in Tasks : Die(p) /\ UNCHANGED dpTables) \/ (\E b \in DpBots : BotDies(b))
    BY <2>0, <2>5, DeathInv
  <2> QED
    BY <1>2, <2>1, <2>2, <2>3, <2>4, <2>5 DEF DpNext
<1> QED
  BY <1>1, <1>2

\* A player's aggregate counts one match once, his ratings hold one row for it.
LEMMA PipelineInvTells == PipelineInv => PipelineTellsTruth
<1> SUFFICES ASSUME PipelineInv PROVE PipelineTellsTruth
  OBVIOUS
<1>0. PipelineTypeOK /\ TablesAgree /\ RowTypes
  BY DEF PipelineInv, PipelineTypeOK, RowTypes
<1>1. DpTypeOK
  BY <1>0 DEF PipelineTypeOK, DpTypeOK, RequestsTypeOK
<1>2. StatsCountedOnce
  <2> SUFFICES ASSUME tracking.id <= 1, NEW x \in DpPlayers
               PROVE  mmStats[x] <= 1 /\ Cardinality(ratingRows[x]) <= 1
    BY DEF StatsCountedOnce
  <2>1. discovered.id \in Nat /\ discovered.id <= 1
    BY <1>0, FieldTypes DEF TablesAgree, RowsMatch
  <2>2. ratingRows[x] \subseteq {1}
    BY <1>0, <2>1 DEF TablesAgree, CreditedOnce
  <2>3. IsFiniteSet({1}) /\ Cardinality({1}) = 1
    BY FS_Singleton
  <2>4. Cardinality(ratingRows[x]) <= 1
    BY <2>2, <2>3, FS_Subset
  <2> QED
    BY <1>0, <2>4 DEF TablesAgree, CreditedOnce
<1> QED
  BY <1>0, <1>1, <1>2 DEF PipelineTellsTruth, TablesAgree

\* What the pipeline says was done has been done, and once: however often an
\* enrichment or a demo result is delivered, by however many bots, whoever
\* dies on the way, a player is credited with the match once, a match marked
\* enriched has every player's row, and a demo that succeeded left its
\* ratings and its map (submit_enriched, submit_demo_result).
THEOREM PipelineStaysTruthful == DpSpec => []PipelineTellsTruth
<1>1. RequestsInit /\ DpInit => PipelineInv
  BY PipelineInitInv
<1>2. PipelineInv /\ [DpNext]_dpVars => PipelineInv'
  BY PipelineStepInv
<1>3. PipelineInv => PipelineTellsTruth
  BY PipelineInvTells
<1> QED
  BY <1>1, <1>2, <1>3, PTL DEF DpSpec

-----------------------------------------------------------------------------
(* PlayerRecords: the rows and the requests                                 *)

MatchRecord == [status : {"checking_in", "in_progress", "completed"}, winner : 0 .. 2, saga : {"none", "open", "done"}]
LineupPlayer == [player : PrPlayers, source : {"demo", "declared"}, game : Nat, was_rostered : BOOLEAN]
Lineup == [status : LineupStatus \cup {"none"}, locked : BOOLEAN, rows : SUBSET LineupPlayer]
Profile == [played : Nat, wins : Nat, losses : Nat, streak : Nat, best : Nat, stats : SUBSET PrMatches,
            rating : Nat, peak : Nat, exists : BOOLEAN]

DeclareJob == [pc : {"declare"}, match : PrMatches, side : RecordSides, submit : BOOLEAN, rows : SUBSET LineupPlayer]
LockJob == [pc : {"lock"}, match : PrMatches]
MaterializeJob == [pc : {"materialize"}, match : PrMatches, game : Nat, sides : [RecordSides -> SUBSET PrPlayers],
                   side : RecordSides]
SagaJob == [pc : {"saga", "done"}, match : PrMatches]
CreditJob == [pc : {"credit", "apply"}, match : PrMatches, won : SUBSET PrPlayers, lost : SUBSET PrPlayers,
              stats : SUBSET PrMatches, player : PrPlayers \cup {"none"}, demo : DOMAIN PrDemos \cup {"none"}]
RateJob == [pc : {"rate", "history", "demo_rating"}, player : PrPlayers, rating : Nat, at : Nat]
RecordJobs ==
    {NoRequest} \cup DeclareJob \cup LockJob \cup MaterializeJob \cup SagaJob \cup CreditJob \cup RateJob

RecordTypeOK ==
    /\ scenario \in Scenarios
    /\ requests \in 0 .. scenario.requests
    /\ crashes \in 0 .. scenario.crashes
    /\ req \in [Tasks -> RecordJobs]
    /\ pr_match \in [PrMatches -> MatchRecord]
    /\ pr_roster \in [RecordSides -> SUBSET PrPlayers]
    /\ pr_lineups \in [PrMatches -> [RecordSides -> Lineup]]
    /\ pr_links \in SUBSET ((DOMAIN PrDemos) \X PrMatches \X Nat)
    /\ pr_applied \in SUBSET (PrPlayers \X PrMatches) /\ IsFiniteSet(pr_applied)
    /\ pr_profiles \in [PrPlayers -> Profile]
    /\ pr_ratings \in SUBSET (PrPlayers \X Nat \X Nat \X {"report", "demo"})

\* Which source a lineup's row names a game for.
RowsMarked(rows) == \A r \in rows : r.source = "declared" <=> r.game = 0

LineupOK(l) == (l.locked <=> l.status = "locked") /\ RowsMarked(l.rows)

\* A saga that was opened has a winner to credit.
RequestSound(r) ==
    /\ r \in DeclareJob => \A row \in r.rows : row.source = "declared" /\ row.game = 0
    /\ r \in MaterializeJob => r.game # 0
    /\ r \in SagaJob \cup CreditJob => pr_match[r.match].saga # "none"
    /\ r.pc = "apply" => r.player \in PrPlayers

RowsSound ==
    /\ \A m \in PrMatches, s \in RecordSides : LineupOK(pr_lineups[m][s])
    /\ \A m \in PrMatches : pr_match[m].saga # "none" => pr_match[m].winner \in RecordSides
    /\ \A p \in Tasks : RequestSound(req[p])

\* How many matches the ledger has for a player.
LedgerCount(x) == Cardinality({a \in pr_applied : a[1] = x})

ProfilesCount ==
    \A x \in PrPlayers :
        /\ pr_profiles[x].wins + pr_profiles[x].losses = pr_profiles[x].played
        /\ pr_profiles[x].played = LedgerCount(x)
        /\ pr_profiles[x].best >= pr_profiles[x].streak

Declares(r) == r \in DeclareJob
Locks(r, m) == r \in LockJob /\ r.match = m

\* Served one by one: a declaration on its way is for a match that has not
\* started, and a match that has started is locked or about to be.
OneByOne ==
    scenario.serial =>
    /\ \A p, q \in Tasks : req[p] # NoRequest /\ req[q] # NoRequest => p = q
    /\ \A p \in Tasks : Declares(req[p]) => pr_match[req[p].match].status = "checking_in"
    /\ crashes = 0 => \A m \in PrMatches : pr_match[m].status = "in_progress" =>
          \/ \A s \in RecordSides : pr_lineups[m][s].status \in {"none", "locked"}
          \/ \E p \in Tasks : Locks(req[p], m)

\* Whom a demo has on a side.
DemoSide(d, s) == {x \in DOMAIN PrDemos[d].players : SideOf(d, x) = s}
FromDemo(players, s) == players = {} \/ \E d \in DOMAIN PrDemos : players = DemoSide(d, s)
GameRows(l, g) == {r \in l.rows : r.source = "demo" /\ r.game = g}
Recorded(l, g) == {r.player : r \in GameRows(l, g)}

\* With the rosters fixed, the rows of a game are those of one demo.
GamesFollowDemos ==
    "transfer" \notin scenario.ops =>
    /\ \A m \in PrMatches, s \in RecordSides, g \in Nat \ {0} : FromDemo(Recorded(pr_lineups[m][s], g), s)
    /\ \A p \in Tasks : req[p] \in MaterializeJob => \A s \in RecordSides : FromDemo(req[p].sides[s], s)

\* A rating on its way into the history.
Reports(r, x) == r \in RateJob /\ r.pc = "history" /\ r.player = x

\* The peak is the highest of the default, what was reported and what is on its way.
PeakExplained ==
    crashes = 0 =>
    \A x \in PrPlayers :
        /\ DefaultRating <= pr_profiles[x].peak
        /\ \A h \in Reported(x) : h[3] <= pr_profiles[x].peak
        /\ \A p \in Tasks : Reports(req[p], x) => req[p].rating <= pr_profiles[x].peak
        /\ \/ pr_profiles[x].peak = DefaultRating
           \/ \E h \in Reported(x) : h[3] = pr_profiles[x].peak
           \/ \E p \in Tasks : Reports(req[p], x) /\ req[p].rating = pr_profiles[x].peak

RecordInv ==
    IF Keeping
    THEN RecordTypeOK /\ RowsSound /\ ProfilesCount /\ OneByOne /\ GamesFollowDemos /\ PeakExplained
    ELSE Quiescent

-----------------------------------------------------------------------------
(* What the operators on rows do                                            *)

\* The promise is replaced, what the demos said stays.
LEMMA DeclareKeepsRows ==
    ASSUME NEW l \in Lineup, LineupOK(l), NEW st \in {"draft", "submitted"}, NEW rows \in SUBSET LineupPlayer,
           \A row \in rows : row.source = "declared" /\ row.game = 0
    PROVE  /\ declare(l, st, rows) \in Lineup /\ LineupOK(declare(l, st, rows))
           /\ {r \in declare(l, st, rows).rows : r.source = "demo"} = {r \in l.rows : r.source = "demo"}
           /\ declare(l, st, rows).locked <=> l.locked
           /\ l.locked => declare(l, st, rows) = l
<1>1. CASE l.locked
  BY <1>1 DEF declare
<1>2. CASE ~l.locked
  <2> DEFINE n == [l EXCEPT !.status = st, !.rows = {r \in l.rows : r.source # "declared"} \cup rows]
  <2>1. declare(l, st, rows) = n
    BY <1>2 DEF declare
  <2>2. /\ n \in Lineup /\ n.status = st /\ n.locked = l.locked
        /\ n.rows = {r \in l.rows : r.source # "declared"} \cup rows
    BY DEF Lineup, LineupStatus
  <2> HIDE DEF n
  <2>3. RowsMarked(n.rows)
    BY <2>2 DEF LineupOK, RowsMarked
  <2>4. LineupOK(n)
    BY <1>2, <2>2, <2>3 DEF LineupOK
  <2>5. {r \in n.rows : r.source = "demo"} = {r \in l.rows : r.source = "demo"}
    BY <2>2
  <2> QED
    BY <1>2, <2>1, <2>2, <2>4, <2>5
<1> QED
  BY <1>1, <1>2

\* The lock changes no row.
LEMMA LockKeepsRows ==
    ASSUME NEW l \in Lineup, LineupOK(l)
    PROVE  /\ lock_for_match(l) \in Lineup /\ LineupOK(lock_for_match(l))
           /\ lock_for_match(l).rows = l.rows
           /\ lock_for_match(l).status \in {"none", "locked"}
           /\ l.locked => lock_for_match(l).locked
<1>1. CASE l.status \in {"none", "locked"}
  BY <1>1 DEF lock_for_match
<1>2. CASE l.status \notin {"none", "locked"}
  <2> DEFINE n == [l EXCEPT !.status = "locked", !.locked = TRUE]
  <2>1. lock_for_match(l) = n
    BY <1>2 DEF lock_for_match
  <2>2. n \in Lineup /\ n.status = "locked" /\ n.locked /\ n.rows = l.rows
    BY DEF Lineup, LineupStatus
  <2> QED
    BY <2>1, <2>2 DEF LineupOK
<1> QED
  BY <1>1, <1>2

\* The demo's rows of one game are replaced, everything else stays.
LEMMA MaterializeKeepsRows ==
    ASSUME NEW l \in Lineup, LineupOK(l), NEW g \in Nat, g # 0, NEW rows \in SUBSET LineupPlayer,
           \A row \in rows : row.source = "demo" /\ row.game = g
    PROVE  /\ materialize_demo(l, g, rows) \in Lineup /\ LineupOK(materialize_demo(l, g, rows))
           /\ {r \in materialize_demo(l, g, rows).rows : r.source = "declared"}
                = {r \in l.rows : r.source = "declared"}
           /\ \A h : GameRows(materialize_demo(l, g, rows), h) = IF h = g THEN rows ELSE GameRows(l, h)
           /\ materialize_demo(l, g, rows).status = IF l.status = "none" THEN "locked" ELSE l.status
           /\ l.locked => materialize_demo(l, g, rows).locked
<1> DEFINE n == materialize_demo(l, g, rows)
<1>1. /\ n.status = IF l.status = "none" THEN "locked" ELSE l.status
      /\ n.locked <=> l.status = "none" \/ l.locked
      /\ n.rows = {r \in l.rows : r.source # "demo" \/ r.game # g} \cup rows
  BY DEF materialize_demo
<1>2. n \in Lineup
  <2>1. l.status \in LineupStatus \cup {"none"} /\ l.locked \in BOOLEAN /\ l.rows \in SUBSET LineupPlayer
    BY DEF Lineup
  <2> QED
    BY <2>1 DEF materialize_demo, Lineup, LineupStatus
<1> HIDE DEF n
<1>3. \A r \in l.rows : r \in LineupPlayer /\ r.source \in {"demo", "declared"}
  BY DEF Lineup, LineupPlayer
<1>4. LineupOK(n)
  BY <1>1 DEF LineupOK, RowsMarked
<1>5. {r \in n.rows : r.source = "declared"} = {r \in l.rows : r.source = "declared"}
  BY <1>1
<1>6. ASSUME NEW h
      PROVE  GameRows(n, h) = IF h = g THEN rows ELSE GameRows(l, h)
  BY <1>1 DEF GameRows
<1> QED
  BY <1>1, <1>2, <1>4, <1>5, <1>6 DEF n

-----------------------------------------------------------------------------
(* What a step of one task leaves alone                                     *)

\* Task p serves r now, the others serve what they served.
Turned(p, r) ==
    /\ scenario' = scenario
    /\ req'[p] = r /\ \A q \in Tasks : q # p => req'[q] = req[q]
    /\ crashes' = 0 => crashes = 0
    /\ scenario.serial /\ req[p] = NoRequest => \A q \in Tasks : req[q] = NoRequest

\* The bookkeeping of requests.
LEMMA TurnOf ==
    ASSUME RecordTypeOK, NEW p \in Tasks, NEW r \in RecordJobs,
           \/ Request(p, r)
           \/ Wake(p, r)
           \/ Continue(p, r) /\ req[p] # NoRequest
           \/ Die(p) /\ r = NoRequest
    PROVE  /\ Turned(p, r) /\ req' \in [Tasks -> RecordJobs]
           /\ requests' \in 0 .. scenario'.requests /\ crashes' \in 0 .. scenario'.crashes
<1>1. /\ scenario.requests \in Nat /\ scenario.crashes \in Nat
      /\ requests \in 0 .. scenario.requests /\ crashes \in 0 .. scenario.crashes
      /\ req \in [Tasks -> RecordJobs]
  BY RequestsAssumption DEF RecordTypeOK
<1> USE <1>1
<1>2. CASE Request(p, r)
  BY <1>2 DEF Request, MayStart, Turned
<1>3. CASE Wake(p, r)
  BY <1>3 DEF Wake, MayStart, Turned
<1>4. CASE Continue(p, r) /\ req[p] # NoRequest
  BY <1>4 DEF Continue, Turned
<1>5. CASE Die(p) /\ r = NoRequest
  BY <1>5 DEF Die, Turned
<1> QED
  BY <1>2, <1>3, <1>4, <1>5

\* Lineups and matches as they were, and a new request that is sound.
LEMMA RowsFrame ==
    ASSUME RecordTypeOK, RowsSound, NEW p \in Tasks, NEW r \in RecordJobs, Turned(p, r),
           UNCHANGED <<pr_match, pr_lineups>>, RequestSound(r)
    PROVE  RowsSound'
<1>1. \A q \in Tasks : RequestSound(req[q])
  BY DEF RowsSound
<1>2. \A q \in Tasks : RequestSound(req'[q])
  BY <1>1 DEF Turned
<1>3. \A q \in Tasks : RequestSound(req[q])'
  BY <1>2 DEF RequestSound
<1> QED
  BY <1>3 DEF RowsSound

\* Neither the profiles' counts nor the ledger change.
LEMMA CountsFrame ==
    ASSUME ProfilesCount, UNCHANGED <<pr_profiles, pr_applied>>
    PROVE  ProfilesCount'
  BY DEF ProfilesCount, LedgerCount

\* A task goes on that does not lock, and declares at most for an open match.
LEMMA OneByOneFrame ==
    ASSUME RecordTypeOK, OneByOne, NEW p \in Tasks, NEW r \in RecordJobs, Turned(p, r),
           UNCHANGED <<pr_match, pr_lineups>>, req[p] \notin LockJob \/ crashes' # 0,
           Declares(r) => pr_match[r.match].status = "checking_in"
    PROVE  OneByOne'
<1>1. SUFFICES ASSUME scenario.serial PROVE OneByOne'
  BY DEF OneByOne, Turned
<1>2. \A q1, q2 \in Tasks : req'[q1] # NoRequest /\ req'[q2] # NoRequest => q1 = q2
  BY <1>1 DEF OneByOne, Turned
<1>3. \A q \in Tasks : Declares(req'[q]) => pr_match'[req'[q].match].status = "checking_in"
  BY <1>1 DEF OneByOne, Turned
<1>4. ASSUME crashes' = 0, NEW m \in PrMatches, pr_match'[m].status = "in_progress"
      PROVE  \/ \A s \in RecordSides : pr_lineups'[m][s].status \in {"none", "locked"}
             \/ \E q \in Tasks : Locks(req'[q], m)
  BY <1>1, <1>4 DEF OneByOne, Turned, Locks
<1> QED
  BY <1>2, <1>3, <1>4 DEF OneByOne, Declares, Locks

\* Lineups and rosters as they were.
LEMMA GamesFrame ==
    ASSUME RecordTypeOK, GamesFollowDemos, NEW p \in Tasks, NEW r \in RecordJobs, Turned(p, r),
           UNCHANGED <<pr_lineups, pr_roster>>,
           r \in MaterializeJob => \A s \in RecordSides : FromDemo(r.sides[s], s)
    PROVE  GamesFollowDemos'
<1>1. \A d, s : DemoSide(d, s)' = DemoSide(d, s)
  BY DEF DemoSide, SideOf, infer_side, Turned
<1>2. \A who, s : FromDemo(who, s)' <=> FromDemo(who, s)
  BY <1>1 DEF FromDemo
<1> QED
  BY <1>2 DEF GamesFollowDemos, Turned, Recorded

\* Peaks and history as they were, and no report begins or ends.
LEMMA PeakFrame ==
    ASSUME RecordTypeOK, PeakExplained, NEW p \in Tasks, NEW r \in RecordJobs, Turned(p, r),
           UNCHANGED pr_ratings \/ \A x \in PrPlayers : Reported(x)' = Reported(x),
           \A x \in PrPlayers : pr_profiles'[x].peak = pr_profiles[x].peak,
           r.pc # "history", req[p].pc # "history" \/ crashes' # 0
    PROVE  PeakExplained'
<1>1. \A x \in PrPlayers : Reported(x)' = Reported(x)
  BY DEF Reported
<1> QED
  BY <1>1 DEF PeakExplained, Turned, Reports

\* What the inductive invariant gives a step to start from.
LEMMA InvParts ==
    ASSUME RecordInv, Keeping
    PROVE  /\ RecordTypeOK /\ RowsSound /\ ProfilesCount /\ OneByOne /\ GamesFollowDemos /\ PeakExplained
           /\ \A p \in Tasks : req[p] \in RecordJobs /\ RequestSound(req[p])
  BY DEF RecordInv, RecordTypeOK, RowsSound

\* A step that changes the requests alone, and neither reports nor locks.
LEMMA OnlyRequests ==
    ASSUME RecordInv, Keeping, NEW p \in Tasks, NEW r \in RecordJobs,
           \/ Request(p, r)
           \/ Wake(p, r)
           \/ Continue(p, r) /\ req[p] # NoRequest
           \/ Die(p) /\ r = NoRequest,
           UNCHANGED <<pr_match, pr_roster, pr_lineups, pr_applied, pr_profiles, pr_ratings>>,
           pr_links' \in SUBSET ((DOMAIN PrDemos) \X PrMatches \X Nat),
           RequestSound(r), r.pc # "history",
           r \in MaterializeJob => \A s \in RecordSides : FromDemo(r.sides[s], s),
           req[p].pc \notin {"history", "lock"} \/ crashes' # 0,
           Declares(r) => pr_match[r.match].status = "checking_in"
    PROVE  RecordInv'
<1>1. RecordTypeOK /\ RowsSound /\ ProfilesCount /\ OneByOne /\ GamesFollowDemos /\ PeakExplained
  BY InvParts
<1>2. /\ Turned(p, r) /\ req' \in [Tasks -> RecordJobs]
      /\ requests' \in 0 .. scenario'.requests /\ crashes' \in 0 .. scenario'.crashes
  BY <1>1, TurnOf
<1>3. RecordTypeOK'
  BY <1>1, <1>2 DEF RecordTypeOK, Turned
<1>4. req[p] \notin LockJob \/ crashes' # 0
  BY DEF LockJob
<1>5. RowsSound' /\ ProfilesCount' /\ OneByOne' /\ GamesFollowDemos' /\ PeakExplained'
  BY <1>1, <1>2, <1>4, RowsFrame, CountsFrame, OneByOneFrame, GamesFrame, PeakFrame
<1> QED
  BY <1>2, <1>3, <1>5 DEF RecordInv, Keeping, Turned

\* An idle task has no job of any kind.
LEMMA IdleJob ==
    /\ NoRequest \in RecordJobs /\ NoRequest.pc = "idle" /\ RequestSound(NoRequest)
    /\ NoRequest \notin DeclareJob /\ NoRequest \notin LockJob /\ NoRequest \notin MaterializeJob
    /\ NoRequest \notin SagaJob /\ NoRequest \notin CreditJob /\ NoRequest \notin RateJob
<1>1. NoRequest.pc = "idle" /\ NoRequest \in RecordJobs
  BY DEF NoRequest, RecordJobs
<1>2. NoRequest \notin DeclareJob /\ NoRequest \notin LockJob /\ NoRequest \notin MaterializeJob
  BY <1>1 DEF DeclareJob, LockJob, MaterializeJob
<1>3. NoRequest \notin SagaJob /\ NoRequest \notin CreditJob /\ NoRequest \notin RateJob
  BY <1>1 DEF SagaJob, CreditJob, RateJob
<1> QED
  BY <1>1, <1>2, <1>3 DEF RequestSound

\* An idle task, and which jobs are of which kind.
LEMMA RecordJobKinds ==
    /\ NoRequest \in RecordJobs
    /\ NoRequest \notin DeclareJob \cup LockJob \cup MaterializeJob \cup SagaJob \cup CreditJob \cup RateJob
    /\ RequestSound(NoRequest) /\ NoRequest.pc = "idle"
    /\ \A r \in RecordJobs :
          /\ r.pc = "declare" => r \in DeclareJob
          /\ r.pc = "lock" => r \in LockJob
          /\ r.pc = "materialize" => r \in MaterializeJob
          /\ r.pc \in {"saga", "done"} => r \in SagaJob
          /\ r.pc \in {"credit", "apply"} => r \in CreditJob
          /\ r.pc \in {"rate", "history", "demo_rating"} => r \in RateJob
    /\ \A r \in DeclareJob : r.pc = "declare" /\ r \in RecordJobs
    /\ \A r \in LockJob : r.pc = "lock" /\ r \in RecordJobs
    /\ \A r \in MaterializeJob : r.pc = "materialize" /\ r \in RecordJobs
    /\ \A r \in SagaJob : r.pc \in {"saga", "done"} /\ r \in RecordJobs
    /\ \A r \in CreditJob : r.pc \in {"credit", "apply"} /\ r \in RecordJobs
    /\ \A r \in RateJob : r.pc \in {"rate", "history", "demo_rating"} /\ r \in RecordJobs
<1>1. /\ \A r \in DeclareJob : r.pc = "declare" /\ r \in RecordJobs
      /\ \A r \in LockJob : r.pc = "lock" /\ r \in RecordJobs
      /\ \A r \in MaterializeJob : r.pc = "materialize" /\ r \in RecordJobs
  BY DEF DeclareJob, LockJob, MaterializeJob, RecordJobs
<1>2. /\ \A r \in SagaJob : r.pc \in {"saga", "done"} /\ r \in RecordJobs
      /\ \A r \in CreditJob : r.pc \in {"credit", "apply"} /\ r \in RecordJobs
      /\ \A r \in RateJob : r.pc \in {"rate", "history", "demo_rating"} /\ r \in RecordJobs
  BY DEF SagaJob, CreditJob, RateJob, RecordJobs
<1>3. ASSUME NEW r \in RecordJobs
      PROVE  \/ r = NoRequest \/ r \in DeclareJob \/ r \in LockJob \/ r \in MaterializeJob
             \/ r \in SagaJob \/ r \in CreditJob \/ r \in RateJob
  BY DEF RecordJobs
<1> QED
  BY <1>1, <1>2, <1>3, IdleJob

-----------------------------------------------------------------------------
(* The steps that change requests alone                                     *)

\* A row of a lineup.
LEMMA PlayerRowSound ==
    ASSUME NEW x \in PrPlayers, NEW source \in {"demo", "declared"}, NEW g \in Nat, NEW s
    PROVE  /\ PlayerRow(x, source, g, s) \in LineupPlayer
           /\ PlayerRow(x, source, g, s).player = x
           /\ PlayerRow(x, source, g, s).source = source /\ PlayerRow(x, source, g, s).game = g
<1> DEFINE row(b) == [player |-> x, source |-> source, game |-> g, was_rostered |-> b]
<1>1. \A b \in BOOLEAN : /\ row(b) \in LineupPlayer
                        /\ row(b).player = x /\ row(b).source = source /\ row(b).game = g
  BY DEF LineupPlayer
<1>2. \E b \in BOOLEAN : PlayerRow(x, source, g, s) = row(b)
  <2>1. CASE x \in pr_roster[s]
    <3>1. (x \in pr_roster[s]) = TRUE
      BY <2>1
    <3> QED
      BY <3>1, Zenon DEF PlayerRow
  <2>2. CASE x \notin pr_roster[s]
    <3>1. (x \in pr_roster[s]) = FALSE
      BY <2>2
    <3> QED
      BY <3>1, Zenon DEF PlayerRow
  <2> QED
    BY <2>1, <2>2
<1> HIDE DEF row
<1> QED
  BY <1>1, <1>2

\* A promise is admitted before the match starts.
LEMMA DeclareLineupInv ==
    ASSUME RecordInv, Keeping, NEW p \in Tasks, DeclareLineup(p)
    PROVE  RecordInv'
<1>1. RecordTypeOK
  BY InvParts
<1>2. PICK m \in PrMatches, s \in RecordSides :
         \E who \in scenario.promises[s] : \E submit \in BOOLEAN :
            /\ MayDeclare(m, s)
            /\ Request(p, [pc |-> "declare", match |-> m, side |-> s, submit |-> submit,
                           rows |-> {PlayerRow(x, "declared", 0, s) : x \in who}])
  BY DEF DeclareLineup
<1>3. PICK who \in scenario.promises[s], submit \in BOOLEAN :
         /\ MayDeclare(m, s)
         /\ Request(p, [pc |-> "declare", match |-> m, side |-> s, submit |-> submit,
                        rows |-> {PlayerRow(x, "declared", 0, s) : x \in who}])
  BY <1>2
<1> DEFINE rows == {PlayerRow(x, "declared", 0, s) : x \in who}
           r == [pc |-> "declare", match |-> m, side |-> s, submit |-> submit, rows |-> rows]
<1>4. who \subseteq PrPlayers
  BY <1>1, PlayerRecordsAssumption DEF RecordTypeOK, Keeping, RecordSides
<1>5. \A row \in rows : row \in LineupPlayer /\ row.source = "declared" /\ row.game = 0
  BY <1>4, PlayerRowSound
<1>6. r \in DeclareJob
  BY <1>5 DEF DeclareJob
<1>7. pr_match[m].status = "checking_in"
  BY <1>1, <1>3 DEF MayDeclare, declaration_window_open, RecordTypeOK, MatchRecord
<1>8. RequestSound(r)
  BY <1>5, <1>6, RecordJobKinds DEF RequestSound
<1>9. req[p].pc = "idle"
  BY <1>3, RecordJobKinds DEF Request, MayStart
<1>10. r.pc = "declare" /\ r.match = m /\ Request(p, r)
  BY <1>3
<1> HIDE DEF r
<1>11. pr_links' \in SUBSET ((DOMAIN PrDemos) \X PrMatches \X Nat)
  BY <1>1 DEF DeclareLineup, prTables, RecordTypeOK
<1> QED
  BY <1>6, <1>7, <1>8, <1>9, <1>10, <1>11, RecordJobKinds, OnlyRequests DEF DeclareLineup, prTables

\* A demo's lineup is taken from the demo.
LEMMA LinkPlayedDemoInv ==
    ASSUME RecordInv, Keeping, NEW p \in Tasks, LinkPlayedDemo(p)
    PROVE  RecordInv'
<1>1. RecordTypeOK
  BY InvParts
<1>2. PICK d \in DOMAIN PrDemos, m \in PrMatches, g \in scenario.games :
         /\ pr_links' = pr_links \cup {<<d, m, g>>}
         /\ Request(p, [pc |-> "materialize", match |-> m, game |-> g, sides |-> MaterializeFromDemo(d), side |-> 1])
  BY DEF LinkPlayedDemo
<1> DEFINE r == [pc |-> "materialize", match |-> m, game |-> g, sides |-> MaterializeFromDemo(d), side |-> 1]
<1>3. g \in Nat /\ g # 0
  BY <1>1, PlayerRecordsAssumption DEF RecordTypeOK, Keeping
<1>4. /\ MaterializeFromDemo(d) \in [RecordSides -> SUBSET PrPlayers]
      /\ \A s \in RecordSides : FromDemo(MaterializeFromDemo(d)[s], s)
  BY PlayerRecordsAssumption DEF MaterializeFromDemo, FromDemo, DemoSide
<1>5. r \in MaterializeJob
  BY <1>3, <1>4 DEF MaterializeJob, RecordSides
<1>6. RequestSound(r)
  BY <1>3, <1>5, RecordJobKinds DEF RequestSound
<1>7. req[p].pc = "idle"
  BY <1>2, RecordJobKinds DEF Request, MayStart
<1>8. r.sides = MaterializeFromDemo(d) /\ r.pc = "materialize" /\ Request(p, r) /\ ~Declares(r)
  BY <1>2, <1>5, RecordJobKinds DEF Declares
<1>9. pr_links' \in SUBSET ((DOMAIN PrDemos) \X PrMatches \X Nat)
  BY <1>1, <1>2, <1>3 DEF RecordTypeOK
<1> HIDE DEF r
<1> QED
  BY <1>4, <1>5, <1>6, <1>7, <1>8, <1>9, RecordJobKinds, OnlyRequests DEF LinkPlayedDemo

\* A task ends or begins with nothing to do, and the links lose one at most.
LEMMA UnlinkDemoInv ==
    ASSUME RecordInv, Keeping, NEW p \in Tasks, UnlinkDemo(p)
    PROVE  RecordInv'
<1>1. RecordTypeOK
  BY InvParts
<1>2. req[p].pc = "idle" /\ Request(p, NoRequest)
  BY RecordJobKinds DEF UnlinkDemo, Request, MayStart
<1>3. pr_links' \in SUBSET ((DOMAIN PrDemos) \X PrMatches \X Nat)
  BY <1>1 DEF UnlinkDemo, RecordTypeOK
<1> QED
  BY <1>2, <1>3, RecordJobKinds, OnlyRequests DEF UnlinkDemo, Declares

\* A saga is driven again.
LEMMA RedriveStatsInv ==
    ASSUME RecordInv, Keeping, NEW p \in Tasks, RedriveStats(p)
    PROVE  RecordInv'
<1>1. RecordTypeOK
  BY InvParts
<1>2. PICK m \in PrMatches : Retryable(m) /\ Wake(p, [pc |-> "saga", match |-> m])
  BY DEF RedriveStats
<1> DEFINE r == [pc |-> "saga", match |-> m]
<1>3. r \in SagaJob /\ r.pc = "saga" /\ r.match = m /\ Wake(p, r)
  BY <1>2 DEF SagaJob
<1> HIDE DEF r
<1>4. RequestSound(r) /\ r \notin MaterializeJob /\ ~Declares(r)
  BY <1>2, <1>3, RecordJobKinds DEF RequestSound, Retryable, Declares
<1>5. req[p].pc = "idle"
  BY <1>3, RecordJobKinds DEF Wake, MayStart
<1>6. pr_links' \in SUBSET ((DOMAIN PrDemos) \X PrMatches \X Nat)
  BY <1>1 DEF RedriveStats, prTables, RecordTypeOK
<1> QED
  BY <1>3, <1>4, <1>5, <1>6, RecordJobKinds, OnlyRequests DEF RedriveStats, prTables

\* The players a lineup credits are players.
LEMMA CreditedArePlayers ==
    ASSUME RecordTypeOK, NEW m \in PrMatches, NEW s \in RecordSides, NEW read
    PROVE  credited_players(m, s, read) \in SUBSET PrPlayers
<1>1. \A source : PlayersBy(m, s, source) \in SUBSET PrPlayers
  BY DEF PlayersBy, RecordTypeOK, Lineup, LineupPlayer
<1>2. distinct_participants(m, s) \in SUBSET PrPlayers
  BY <1>1 DEF distinct_participants
<1> QED
  BY <1>2 DEF credited_players, RecordTypeOK

\* The last step of the saga looks up whom to credit.
LEMMA UpdatePlayerStatsInv ==
    ASSUME RecordInv, Keeping, NEW p \in Tasks, UpdatePlayerStats(p)
    PROVE  RecordInv'
<1>1. RecordTypeOK /\ RowsSound /\ req[p] \in SagaJob /\ req[p].pc = "saga" /\ RequestSound(req[p])
  BY InvParts, RecordJobKinds DEF UpdatePlayerStats, At
<1>2. PICK m : m = req[p].match
  OBVIOUS
<1>3. m \in PrMatches /\ pr_match[m].saga # "none" /\ pr_match[m].winner \in RecordSides
  BY <1>1, <1>2 DEF SagaJob, RowsSound, RequestSound
<1>4. PICK d \in MatchData(m), read \in LineupsRead :
         Continue(p, IF scenario.kind = "pug" THEN [pc |-> "done", match |-> m] ELSE Crediting(m, d, read))
  BY <1>2 DEF UpdatePlayerStats
<1>5. d \in DOMAIN PrDemos \cup {"none"}
  BY <1>1 DEF MatchData, find_by_match_with_demos, RecordTypeOK
<1>6. PICK w \in RecordSides : w = pr_match[m].winner
  BY <1>3
<1>7. 3 - w \in RecordSides
  BY DEF RecordSides
<1>8. /\ Crediting(m, d, read) \in CreditJob /\ Crediting(m, d, read).pc = "credit" /\ Crediting(m, d, read).match = m
  BY <1>3, <1>5, <1>6, <1>7, <1>1, CreditedArePlayers DEF Crediting, CreditJob
<1>9. ASSUME NEW r \in SagaJob \cup CreditJob, r.pc \in {"done", "credit"}, r.match = m, Continue(p, r)
      PROVE  RecordInv'
  <2>1. RequestSound(r) /\ r \notin MaterializeJob /\ ~Declares(r) /\ r \in RecordJobs
    BY <1>3, <1>9, RecordJobKinds DEF RequestSound, Declares
  <2>2. pr_links' \in SUBSET ((DOMAIN PrDemos) \X PrMatches \X Nat)
    BY <1>1 DEF UpdatePlayerStats, prTables, RecordTypeOK
  <2>3. req[p] # NoRequest
    BY <1>1, RecordJobKinds
  <2> QED
    BY <1>1, <1>9, <2>1, <2>2, <2>3, OnlyRequests DEF UpdatePlayerStats, prTables
<1>10. [pc |-> "done", match |-> m] \in SagaJob
  BY <1>3 DEF SagaJob
<1> QED
  BY <1>4, <1>8, <1>9, <1>10

\* A credit begins with reading the profile, or there is none left.
LEMMA ReadStatsInv ==
    ASSUME RecordInv, Keeping, NEW p \in Tasks, ReadStats(p)
    PROVE  RecordInv'
<1>1. RecordTypeOK /\ req[p] \in CreditJob /\ req[p].pc = "credit" /\ RequestSound(req[p])
  BY InvParts, RecordJobKinds DEF ReadStats, At
<1>2. PICK old \in CreditJob : old = req[p]
  BY <1>1
<1>3. old.match \in PrMatches /\ pr_match[old.match].saga # "none"
  BY <1>1, <1>2 DEF CreditJob, RequestSound
<1>4. ASSUME NEW r \in SagaJob \cup CreditJob, r.pc \in {"done", "apply"}, r.match = old.match, Continue(p, r),
             r.pc = "apply" => r.player \in PrPlayers
      PROVE  RecordInv'
  <2>1. RequestSound(r) /\ r \notin MaterializeJob /\ ~Declares(r) /\ r \in RecordJobs
    BY <1>3, <1>4, RecordJobKinds DEF RequestSound, Declares
  <2>2. pr_links' \in SUBSET ((DOMAIN PrDemos) \X PrMatches \X Nat)
    BY <1>1 DEF ReadStats, prTables, RecordTypeOK
  <2>3. req[p] # NoRequest
    BY <1>1, RecordJobKinds
  <2> QED
    BY <1>1, <1>4, <2>1, <2>2, <2>3, OnlyRequests DEF ReadStats, prTables
<1>5. [pc |-> "done", match |-> old.match] \in SagaJob
  BY <1>3 DEF SagaJob
<1>6. ASSUME NEW c \in NextCredit(old),
             Continue(p, [old EXCEPT !.pc = "apply", !.player = c[1],
                                     !.stats = pr_profiles[c[1]].stats
                                                 \cup (IF InDemo(old.demo, c[1]) THEN {old.match} ELSE {})])
      PROVE  RecordInv'
  <2>1. c[1] \in PrPlayers
    BY DEF NextCredit, CreditJob
  <2> DEFINE stats == pr_profiles[c[1]].stats \cup (IF InDemo(old.demo, c[1]) THEN {old.match} ELSE {})
             r == [old EXCEPT !.pc = "apply", !.player = c[1], !.stats = stats]
  <2>2. stats \in SUBSET PrMatches
    BY <1>1, <1>3, <2>1 DEF RecordTypeOK, Profile
  <2> HIDE DEF stats
  <2>3. r \in CreditJob /\ r.pc = "apply" /\ r.player = c[1] /\ r.match = old.match
    BY <2>1, <2>2 DEF CreditJob
  <2>4. Continue(p, r)
    BY <1>6 DEF stats
  <2> HIDE DEF r
  <2> QED
    BY <1>4, <2>1, <2>3, <2>4
<1> QED
  BY <1>2, <1>4, <1>5, <1>6 DEF ReadStats

\* A task dies; what it was about to report is forgotten, and so is the claim.
LEMMA RecordDeathInv ==
    ASSUME RecordInv, Keeping, NEW p \in Tasks, Die(p), UNCHANGED prTables
    PROVE  RecordInv'
<1>1. RecordTypeOK
  BY InvParts
<1>2. crashes' # 0
  BY <1>1, RequestsAssumption DEF Die, RecordTypeOK
<1>3. pr_links' \in SUBSET ((DOMAIN PrDemos) \X PrMatches \X Nat)
  BY <1>1 DEF prTables, RecordTypeOK
<1> QED
  BY <1>2, <1>3, RecordJobKinds, OnlyRequests DEF prTables, Declares

-----------------------------------------------------------------------------
(* The steps that write lineups                                             *)

\* One lineup is replaced.
LEMMA LineupWritten ==
    ASSUME RecordTypeOK, NEW m \in PrMatches, NEW s \in RecordSides, NEW l \in Lineup,
           pr_lineups' = [pr_lineups EXCEPT ![m][s] = l]
    PROVE  /\ pr_lineups' \in [PrMatches -> [RecordSides -> Lineup]]
           /\ pr_lineups'[m][s] = l
           /\ \A n \in PrMatches, t \in RecordSides : n # m \/ t # s => pr_lineups'[n][t] = pr_lineups[n][t]
<1>1. pr_lineups \in [PrMatches -> [RecordSides -> Lineup]]
  BY DEF RecordTypeOK
<1> QED
  BY <1>1

\* A task writes lineups and goes on: the rows are sound, those of a game are
\* of one demo, what is locked stays locked, and a lock locks.
LEMMA LineupStep ==
    ASSUME RecordInv, Keeping, NEW p \in Tasks, NEW r \in RecordJobs, Continue(p, r), req[p] # NoRequest,
           UNCHANGED <<pr_match, pr_roster, pr_links, pr_applied, pr_profiles, pr_ratings>>,
           pr_lineups' \in [PrMatches -> [RecordSides -> Lineup]],
           \A m \in PrMatches, s \in RecordSides : LineupOK(pr_lineups'[m][s]),
           RequestSound(r), ~Declares(r), {r.pc, req[p].pc} \cap {"history"} = {},
           r \in MaterializeJob /\ "transfer" \notin scenario.ops => \A s \in RecordSides : FromDemo(r.sides[s], s),
           "transfer" \notin scenario.ops =>
              \A m \in PrMatches, s \in RecordSides, g \in Nat \ {0} : FromDemo(Recorded(pr_lineups'[m][s], g), s),
           scenario.serial => \A m \in PrMatches, s \in RecordSides :
              \/ pr_match[m].status # "in_progress"
              \/ pr_lineups'[m][s].status \in {"none", "locked"}
              \/ ~Locks(req[p], m) /\ pr_lineups[m][s].status \notin {"none", "locked"}
    PROVE  RecordInv'
<1>1. RecordTypeOK /\ RowsSound /\ ProfilesCount /\ OneByOne /\ GamesFollowDemos /\ PeakExplained
  BY InvParts
<1>2. /\ Turned(p, r) /\ req' \in [Tasks -> RecordJobs]
      /\ requests' \in 0 .. scenario'.requests /\ crashes' \in 0 .. scenario'.crashes
  BY <1>1, TurnOf
<1>3. RecordTypeOK'
  BY <1>1, <1>2 DEF RecordTypeOK, Turned
<1>4. RowsSound'
  <2>1. \A q \in Tasks : RequestSound(req'[q])
    BY <1>1, <1>2 DEF RowsSound, Turned
  <2>2. \A q \in Tasks : RequestSound(req[q])'
    BY <2>1 DEF RequestSound
  <2> QED
    BY <1>1, <2>2 DEF RowsSound, LineupOK, RowsMarked
<1>5. ProfilesCount' /\ PeakExplained'
  BY <1>1, <1>2, CountsFrame, PeakFrame
<1>6. GamesFollowDemos'
  <2>1. \A d, s : DemoSide(d, s)' = DemoSide(d, s)
    BY <1>2 DEF DemoSide, SideOf, infer_side, Turned
  <2>2. \A who, s : FromDemo(who, s)' <=> FromDemo(who, s)
    BY <2>1 DEF FromDemo
  <2> QED
    BY <1>1, <1>2, <2>2 DEF GamesFollowDemos, Turned, Recorded
<1>7. OneByOne'
  <2>1. SUFFICES ASSUME scenario.serial PROVE OneByOne'
    BY <1>2 DEF OneByOne, Turned
  <2>2. \A q1, q2 \in Tasks : req'[q1] # NoRequest /\ req'[q2] # NoRequest => q1 = q2
    BY <1>1, <1>2, <2>1 DEF OneByOne, Turned
  <2>3. \A q \in Tasks : Declares(req'[q]) => pr_match'[req'[q].match].status = "checking_in"
    BY <1>1, <1>2, <2>1 DEF OneByOne, Turned
  <2>4. ASSUME crashes' = 0, NEW m \in PrMatches, pr_match'[m].status = "in_progress"
        PROVE  \/ \A s \in RecordSides : pr_lineups'[m][s].status \in {"none", "locked"}
               \/ \E q \in Tasks : Locks(req'[q], m)
    <3>1. CASE Locks(req[p], m)
      BY <2>1, <2>4, <3>1
    <3>2. CASE ~Locks(req[p], m)
      <4>1. \/ \A s \in RecordSides : pr_lineups[m][s].status \in {"none", "locked"}
            \/ \E q \in Tasks : Locks(req[q], m)
        BY <1>1, <1>2, <2>1, <2>4 DEF OneByOne, Turned
      <4>2. CASE \E q \in Tasks : Locks(req[q], m)
        <5>1. PICK q \in Tasks : Locks(req[q], m)
          BY <4>2
        <5>2. q # p /\ req'[q] = req[q]
          BY <1>2, <3>2, <5>1 DEF Turned
        <5> QED
          BY <5>1, <5>2
      <4>3. CASE \A s \in RecordSides : pr_lineups[m][s].status \in {"none", "locked"}
        BY <2>1, <2>4, <4>3
      <4> QED
        BY <4>1, <4>2, <4>3
    <3> QED
      BY <3>1, <3>2
  <2> QED
    BY <2>2, <2>3, <2>4 DEF OneByOne, Declares, Locks
<1> QED
  BY <1>2, <1>3, <1>4, <1>5, <1>6, <1>7 DEF RecordInv, Keeping, Turned

\* A lineup keeps its rows of every game when it keeps its demo rows.
LEMMA SameDemoRows ==
    ASSUME NEW a, NEW b, {r \in a.rows : r.source = "demo"} = {r \in b.rows : r.source = "demo"}
    PROVE  \A g : Recorded(a, g) = Recorded(b, g)
  BY DEF Recorded, GameRows

\* The promise is written, unless the lineup is locked.
LEMMA WriteDeclaredInv ==
    ASSUME RecordInv, Keeping, NEW p \in Tasks, WriteDeclared(p)
    PROVE  RecordInv'
<1>1. RecordTypeOK /\ RowsSound /\ OneByOne /\ GamesFollowDemos
      /\ req[p] \in DeclareJob /\ req[p].pc = "declare" /\ RequestSound(req[p])
  BY InvParts, RecordJobKinds DEF WriteDeclared, At
<1>2. PICK old \in DeclareJob : old = req[p]
  BY <1>1
<1>3. PICK m \in PrMatches, s \in RecordSides : m = old.match /\ s = old.side
  BY DEF DeclareJob
<1>4. PICK st \in {"draft", "submitted"} : st = IF old.submit THEN "submitted" ELSE "draft"
  OBVIOUS
<1>5. /\ old.rows \in SUBSET LineupPlayer
      /\ \A row \in old.rows : row.source = "declared" /\ row.game = 0
  BY <1>1, <1>2 DEF DeclareJob, RequestSound
<1>6. PICK before \in Lineup : before = pr_lineups[m][s] /\ LineupOK(before)
  BY <1>1 DEF RecordTypeOK, RowsSound
<1>7. PICK l : l = declare(before, st, old.rows)
  OBVIOUS
<1>8. /\ l \in Lineup /\ LineupOK(l)
      /\ {r \in l.rows : r.source = "demo"} = {r \in before.rows : r.source = "demo"}
  BY <1>5, <1>6, <1>7, DeclareKeepsRows
<1>9. pr_lineups' = [pr_lineups EXCEPT ![m][s] = l]
  BY <1>2, <1>3, <1>4, <1>6, <1>7 DEF WriteDeclared
<1>10. /\ pr_lineups' \in [PrMatches -> [RecordSides -> Lineup]]
       /\ pr_lineups'[m][s] = l
       /\ \A n \in PrMatches, t \in RecordSides : n # m \/ t # s => pr_lineups'[n][t] = pr_lineups[n][t]
  <2>1. l \in Lineup /\ RecordTypeOK
    BY <1>1, <1>8
  <2> QED
    BY <1>9, <2>1, LineupWritten
<1>11. \A n \in PrMatches, t \in RecordSides : LineupOK(pr_lineups'[n][t])
  BY <1>1, <1>8, <1>10 DEF RowsSound
<1>12. \A g : \A n \in PrMatches, t \in RecordSides : Recorded(pr_lineups'[n][t], g) = Recorded(pr_lineups[n][t], g)
  <2>1. \A g : Recorded(l, g) = Recorded(before, g)
    BY <1>8, SameDemoRows
  <2> QED
    BY <1>6, <1>10, <2>1
<1>13. "transfer" \notin scenario.ops =>
           \A n \in PrMatches, t \in RecordSides, g \in Nat \ {0} : FromDemo(Recorded(pr_lineups'[n][t], g), t)
  BY <1>1, <1>12 DEF GamesFollowDemos
<1>14. scenario.serial => \A n \in PrMatches, t \in RecordSides :
              \/ pr_match[n].status # "in_progress"
              \/ pr_lineups'[n][t].status \in {"none", "locked"}
              \/ ~Locks(req[p], n) /\ pr_lineups[n][t].status \notin {"none", "locked"}
  <2>1. scenario.serial => pr_match[m].status = "checking_in"
    BY <1>1, <1>2, <1>3 DEF OneByOne, Declares
  <2>2. \A n : ~Locks(req[p], n)
    BY <1>1, RecordJobKinds DEF Locks
  <2> QED
    BY <1>10, <2>1, <2>2
<1>15. req[p] # NoRequest /\ Continue(p, NoRequest) /\ ~Declares(NoRequest) /\ NoRequest \notin MaterializeJob
       /\ {NoRequest.pc, req[p].pc} \cap {"history"} = {} /\ NoRequest \in RecordJobs /\ RequestSound(NoRequest)
  BY <1>1, RecordJobKinds DEF WriteDeclared, Finish, Declares
<1> QED
  BY <1>10, <1>11, <1>13, <1>14, <1>15, LineupStep DEF WriteDeclared

\* Both lineups of the match are locked.
LEMMA LockLineupsInv ==
    ASSUME RecordInv, Keeping, NEW p \in Tasks, LockLineups(p)
    PROVE  RecordInv'
<1>1. RecordTypeOK /\ RowsSound /\ GamesFollowDemos /\ req[p] \in LockJob /\ req[p].pc = "lock"
  BY InvParts, RecordJobKinds DEF LockLineups, At
<1>2. PICK m \in PrMatches : m = req[p].match
  BY <1>1 DEF LockJob
<1>3. \A s \in RecordSides : pr_lineups[m][s] \in Lineup /\ LineupOK(pr_lineups[m][s])
  BY <1>1 DEF RecordTypeOK, RowsSound
<1> DEFINE new == [s \in RecordSides |-> lock_for_match(pr_lineups[m][s])]
<1>4. \A s \in RecordSides :
         /\ new[s] \in Lineup /\ LineupOK(new[s]) /\ new[s].rows = pr_lineups[m][s].rows
         /\ new[s].status \in {"none", "locked"}
  BY <1>3, LockKeepsRows
<1>5. pr_lineups' = [pr_lineups EXCEPT ![m] = new]
  BY <1>2 DEF LockLineups
<1>6. new \in [RecordSides -> Lineup]
  BY <1>4
<1> HIDE DEF new
<1>7. /\ pr_lineups' \in [PrMatches -> [RecordSides -> Lineup]]
      /\ pr_lineups'[m] = new
      /\ \A n \in PrMatches : n # m => pr_lineups'[n] = pr_lineups[n]
  BY <1>1, <1>5, <1>6 DEF RecordTypeOK
<1>8. \A n \in PrMatches, t \in RecordSides : LineupOK(pr_lineups'[n][t])
  BY <1>1, <1>4, <1>7 DEF RowsSound
<1>9. \A n \in PrMatches, t \in RecordSides : pr_lineups'[n][t].rows = pr_lineups[n][t].rows
  BY <1>4, <1>7
<1>10. "transfer" \notin scenario.ops =>
           \A n \in PrMatches, t \in RecordSides, g \in Nat \ {0} : FromDemo(Recorded(pr_lineups'[n][t], g), t)
  BY <1>1, <1>9 DEF GamesFollowDemos, Recorded, GameRows
<1>11. \A n \in PrMatches, t \in RecordSides :
              \/ pr_lineups'[n][t].status \in {"none", "locked"}
              \/ ~Locks(req[p], n) /\ pr_lineups[n][t].status \notin {"none", "locked"}
  BY <1>2, <1>4, <1>7 DEF Locks
<1>12. req[p] # NoRequest /\ Continue(p, NoRequest) /\ ~Declares(NoRequest) /\ NoRequest \notin MaterializeJob
       /\ {NoRequest.pc, req[p].pc} \cap {"history"} = {} /\ NoRequest \in RecordJobs /\ RequestSound(NoRequest)
  BY <1>1, RecordJobKinds DEF LockLineups, Finish, Declares
<1> QED
  BY <1>7, <1>8, <1>10, <1>11, <1>12, LineupStep DEF LockLineups

\* One side of a demo is written.
LEMMA MaterializeSideInv ==
    ASSUME RecordInv, Keeping, NEW p \in Tasks, MaterializeSide(p)
    PROVE  RecordInv'
<1>1. RecordTypeOK /\ RowsSound /\ OneByOne /\ GamesFollowDemos
      /\ req[p] \in MaterializeJob /\ req[p].pc = "materialize" /\ RequestSound(req[p])
  BY InvParts, RecordJobKinds DEF MaterializeSide, At
<1>2. PICK old \in MaterializeJob : old = req[p]
  BY <1>1
<1>3. PICK m \in PrMatches, s \in RecordSides, g \in Nat : m = old.match /\ s = old.side /\ g = old.game
  BY DEF MaterializeJob
<1>4. g # 0 /\ old.sides \in [RecordSides -> SUBSET PrPlayers]
  BY <1>1, <1>2, <1>3 DEF RequestSound, MaterializeJob
<1>5. "transfer" \notin scenario.ops => \A t \in RecordSides : FromDemo(old.sides[t], t)
  BY <1>1, <1>2 DEF GamesFollowDemos
<1> DEFINE rows == {PlayerRow(x, "demo", g, s) : x \in old.sides[s]}
<1>6. /\ rows \in SUBSET LineupPlayer
      /\ \A row \in rows : row.source = "demo" /\ row.game = g
      /\ {row.player : row \in rows} = old.sides[s]
  BY <1>4, PlayerRowSound
<1>7. PICK before \in Lineup : before = pr_lineups[m][s] /\ LineupOK(before)
  BY <1>1 DEF RecordTypeOK, RowsSound
<1>8. PICK l : l = IF rows = {} THEN before ELSE materialize_demo(before, g, rows)
  OBVIOUS
<1>9. pr_lineups' = [pr_lineups EXCEPT ![m][s] = l]
  <2>1. pr_lineups' = IF rows = {} THEN pr_lineups
                      ELSE [pr_lineups EXCEPT ![m][s] = materialize_demo(pr_lineups[m][s], g, rows)]
    BY <1>2, <1>3 DEF MaterializeSide
  <2> HIDE DEF rows
  <2>2. [pr_lineups EXCEPT ![m][s] = pr_lineups[m][s]] = pr_lineups
    BY <1>1 DEF RecordTypeOK
  <2> QED
    BY <1>7, <1>8, <2>1, <2>2
<1> HIDE DEF rows
<1>10. /\ l \in Lineup /\ LineupOK(l)
       /\ before.status \in {"none", "locked"} => l.status \in {"none", "locked"}
       /\ \A h : Recorded(l, h) = Recorded(before, h) \/ (h = g /\ Recorded(l, h) = old.sides[s])
  <2>1. CASE rows = {}
    BY <1>7, <1>8, <2>1
  <2>2. CASE rows # {}
    <3>1. /\ l \in Lineup /\ LineupOK(l) /\ l.status = IF before.status = "none" THEN "locked" ELSE before.status
          /\ \A h : GameRows(l, h) = IF h = g THEN rows ELSE GameRows(before, h)
      <4> DEFINE n == materialize_demo(before, g, rows)
      <4>1. /\ n \in Lineup /\ LineupOK(n) /\ n.status = IF before.status = "none" THEN "locked" ELSE before.status
            /\ \A h : GameRows(n, h) = IF h = g THEN rows ELSE GameRows(before, h)
        BY <1>4, <1>6, <1>7, MaterializeKeepsRows
      <4>2. l = n
        BY <1>8, <2>2
      <4> QED
        BY <4>1, <4>2
    <3>2. ASSUME NEW h PROVE Recorded(l, h) = Recorded(before, h) \/ (h = g /\ Recorded(l, h) = old.sides[s])
      <4>1. CASE h = g
        <5>1. GameRows(l, h) = rows
          BY <3>1, <4>1
        <5> QED
          BY <1>6, <4>1, <5>1 DEF Recorded
      <4>2. CASE h # g
        <5>1. GameRows(l, h) = GameRows(before, h)
          BY <3>1, <4>2
        <5> QED
          BY <5>1 DEF Recorded
      <4> QED
        BY <4>1, <4>2
    <3> QED
      BY <3>1, <3>2
  <2> QED
    BY <2>1, <2>2
<1>11. /\ pr_lineups' \in [PrMatches -> [RecordSides -> Lineup]]
       /\ pr_lineups'[m][s] = l
       /\ \A n \in PrMatches, t \in RecordSides : n # m \/ t # s => pr_lineups'[n][t] = pr_lineups[n][t]
  BY <1>1, <1>9, <1>10, LineupWritten
<1>12. \A n \in PrMatches, t \in RecordSides : LineupOK(pr_lineups'[n][t])
  BY <1>1, <1>10, <1>11 DEF RowsSound
<1>13. "transfer" \notin scenario.ops =>
           \A n \in PrMatches, t \in RecordSides, h \in Nat \ {0} : FromDemo(Recorded(pr_lineups'[n][t], h), t)
  <2>1. SUFFICES ASSUME "transfer" \notin scenario.ops, NEW n \in PrMatches, NEW t \in RecordSides, NEW h \in Nat \ {0}
                 PROVE  FromDemo(Recorded(pr_lineups'[n][t], h), t)
    OBVIOUS
  <2>2. FromDemo(Recorded(pr_lineups[n][t], h), t)
    BY <1>1, <2>1 DEF GamesFollowDemos
  <2>3. \/ Recorded(pr_lineups'[n][t], h) = Recorded(pr_lineups[n][t], h)
        \/ t = s /\ Recorded(pr_lineups'[n][t], h) = old.sides[s]
    BY <1>7, <1>10, <1>11
  <2> QED
    BY <1>5, <2>1, <2>2, <2>3
<1>14. \A n \in PrMatches, t \in RecordSides :
              \/ pr_match[n].status # "in_progress"
              \/ pr_lineups'[n][t].status \in {"none", "locked"}
              \/ ~Locks(req[p], n) /\ pr_lineups[n][t].status \notin {"none", "locked"}
  <2>1. \A n : ~Locks(req[p], n)
    BY <1>1, RecordJobKinds DEF Locks
  <2> QED
    BY <1>7, <1>10, <1>11, <2>1
<1>15. ASSUME NEW r \in MaterializeJob \cup {NoRequest}, Continue(p, r), r \in MaterializeJob => r.sides = old.sides /\ r.game = g
       PROVE  RecordInv'
  <2>1. req[p] # NoRequest /\ r \in RecordJobs /\ ~Declares(r) /\ {r.pc, req[p].pc} \cap {"history"} = {}
    BY <1>1, <1>15, RecordJobKinds DEF Declares
  <2>2. RequestSound(r)
    BY <1>4, <1>15, RecordJobKinds DEF RequestSound
  <2> QED
    BY <1>5, <1>11, <1>12, <1>13, <1>14, <1>15, <2>1, <2>2, LineupStep DEF MaterializeSide
<1>16. [old EXCEPT !.side = 2] \in MaterializeJob /\ [old EXCEPT !.side = 2].sides = old.sides
       /\ [old EXCEPT !.side = 2].game = g
  BY <1>3 DEF MaterializeJob, RecordSides
<1>17. Continue(p, [old EXCEPT !.side = 2]) \/ Continue(p, NoRequest)
  BY <1>2 DEF MaterializeSide, Finish
<1>18. NoRequest \notin MaterializeJob
  BY RecordJobKinds
<1> QED
  BY <1>15, <1>16, <1>17, <1>18

-----------------------------------------------------------------------------
(* The steps that write a match, and the roster                             *)

\* A match is written: a saga is never taken back, and a match that starts is
\* about to be locked.
LEMMA MatchStep ==
    ASSUME RecordInv, Keeping, NEW p \in Tasks, NEW r \in RecordJobs, NEW m \in PrMatches, NEW w \in MatchRecord,
           Request(p, r) \/ (Continue(p, r) /\ req[p] # NoRequest),
           pr_match' = [pr_match EXCEPT ![m] = w],
           UNCHANGED <<pr_roster, pr_lineups, pr_links, pr_applied, pr_profiles, pr_ratings>>,
           w.saga # "none" => w.winner \in RecordSides, pr_match[m].saga # "none" => w.saga # "none",
           RequestSound(r)', ~Declares(r), r \notin MaterializeJob,
           {r.pc, req[p].pc} \cap {"history"} = {}, req[p].pc # "lock",
           w.status = "in_progress" => Locks(r, m) \/ pr_match[m].status = "in_progress"
    PROVE  RecordInv'
<1>1. RecordTypeOK /\ RowsSound /\ ProfilesCount /\ OneByOne /\ GamesFollowDemos /\ PeakExplained
  BY InvParts
<1>2. /\ Turned(p, r) /\ req' \in [Tasks -> RecordJobs]
      /\ requests' \in 0 .. scenario'.requests /\ crashes' \in 0 .. scenario'.crashes
  BY <1>1, TurnOf
<1>3. /\ pr_match' \in [PrMatches -> MatchRecord] /\ pr_match'[m] = w
      /\ \A n \in PrMatches : n # m => pr_match'[n] = pr_match[n]
  BY <1>1 DEF RecordTypeOK
<1>4. RecordTypeOK'
  BY <1>1, <1>2, <1>3 DEF RecordTypeOK, Turned
<1>5. RowsSound'
  <2>1. \A n \in PrMatches : pr_match[n].saga # "none" => pr_match'[n].saga # "none"
    BY <1>3
  <2>2. ASSUME NEW q \in Tasks PROVE RequestSound(req[q])'
    <3>1. CASE q = p
      BY <1>2, <3>1 DEF Turned, RequestSound
    <3>2. CASE q # p
      <4>1. req'[q] = req[q] /\ RequestSound(req[q])
        BY <1>1, <1>2, <3>2 DEF RowsSound, Turned
      <4>2. req[q] \in SagaJob \cup CreditJob => req[q].match \in PrMatches
        BY DEF SagaJob, CreditJob
      <4> QED
        BY <2>1, <4>1, <4>2 DEF RequestSound
    <3> QED
      BY <3>1, <3>2
  <2>3. \A n \in PrMatches : pr_match'[n].saga # "none" => pr_match'[n].winner \in RecordSides
    BY <1>1, <1>3 DEF RowsSound
  <2> QED
    BY <1>1, <2>2, <2>3 DEF RowsSound, LineupOK, RowsMarked
<1>6. ProfilesCount' /\ GamesFollowDemos' /\ PeakExplained'
  BY <1>1, <1>2, CountsFrame, GamesFrame, PeakFrame
<1>7. OneByOne'
  <2>1. SUFFICES ASSUME scenario.serial PROVE OneByOne'
    BY <1>2 DEF OneByOne, Turned
  <2>2. \A q1, q2 \in Tasks : req'[q1] # NoRequest /\ req'[q2] # NoRequest => q1 = q2
    BY <1>1, <1>2, <2>1 DEF OneByOne, Turned
  <2>3. \A q \in Tasks : ~Declares(req'[q])
    <3>1. \A q \in Tasks : q # p => req'[q] = NoRequest
      BY <1>1, <1>2, <2>1 DEF OneByOne, Turned
    <3>2. ~Declares(NoRequest)
      BY RecordJobKinds DEF Declares
    <3> QED
      BY <1>2, <3>1, <3>2 DEF Turned
  <2>4. ASSUME crashes' = 0, NEW n \in PrMatches, pr_match'[n].status = "in_progress"
        PROVE  \/ \A s \in RecordSides : pr_lineups'[n][s].status \in {"none", "locked"}
               \/ \E q \in Tasks : Locks(req'[q], n)
    <3>1. CASE n = m /\ Locks(r, m)
      BY <1>2, <3>1 DEF Turned
    <3>2. CASE pr_match[n].status = "in_progress"
      <4>1. ~Locks(req[p], n)
        BY DEF Locks, LockJob
      <4> QED
        BY <1>1, <1>2, <2>1, <2>4, <3>2, <4>1 DEF OneByOne, Turned
    <3> QED
      BY <1>3, <2>4, <3>1, <3>2
  <2> QED
    BY <2>2, <2>3, <2>4 DEF OneByOne, Declares, Locks
<1> QED
  BY <1>2, <1>4, <1>5, <1>6, <1>7 DEF RecordInv, Keeping, Turned

\* The match starts, and its lineups are about to be locked.
LEMMA StartMatchInv ==
    ASSUME RecordInv, Keeping, NEW p \in Tasks, StartMatch(p)
    PROVE  RecordInv'
<1>1. RecordTypeOK /\ RowsSound
  BY InvParts
<1>2. PICK m \in PrMatches :
         /\ pr_match' = [pr_match EXCEPT ![m].status = "in_progress"]
         /\ Request(p, [pc |-> "lock", match |-> m])
  BY DEF StartMatch
<1>3. PICK old \in MatchRecord : old = pr_match[m] /\ (old.saga # "none" => old.winner \in RecordSides)
  BY <1>1 DEF RecordTypeOK, RowsSound
<1>4. PICK w : w = [old EXCEPT !.status = "in_progress"]
  OBVIOUS
<1>5. w \in MatchRecord /\ w.saga = old.saga /\ w.winner = old.winner
  BY <1>4 DEF MatchRecord
<1>6. pr_match' = [pr_match EXCEPT ![m] = w]
  BY <1>2, <1>3, <1>4
<1>7. PICK r : r = [pc |-> "lock", match |-> m]
  OBVIOUS
<1>8. r \in LockJob /\ r.match = m /\ Request(p, r)
  BY <1>2, <1>7 DEF LockJob
<1>9. /\ r \in RecordJobs /\ RequestSound(r)' /\ ~Declares(r) /\ r \notin MaterializeJob
      /\ r.pc = "lock" /\ req[p].pc = "idle" /\ Locks(r, m)
  BY <1>8, RecordJobKinds DEF RequestSound, Declares, Locks, Request, MayStart
<1> QED
  BY <1>3, <1>5, <1>6, <1>8, <1>9, MatchStep DEF StartMatch

\* The result stands: the match has a winner, and a saga to run.
LEMMA CompleteMatchInv ==
    ASSUME RecordInv, Keeping, NEW p \in Tasks, CompleteMatch(p)
    PROVE  RecordInv'
<1>1. PICK m \in PrMatches, s \in RecordSides :
         /\ pr_match' = [pr_match EXCEPT ![m] = [status |-> "completed", winner |-> s, saga |-> "open"]]
         /\ Request(p, [pc |-> "saga", match |-> m])
  BY DEF CompleteMatch
<1>2. PICK w : w = [status |-> "completed", winner |-> s, saga |-> "open"]
  OBVIOUS
<1>3. w \in MatchRecord /\ w.saga = "open" /\ w.winner \in RecordSides /\ w.status # "in_progress"
  BY <1>2 DEF MatchRecord, RecordSides
<1>4. pr_match' = [pr_match EXCEPT ![m] = w]
  BY <1>1, <1>2
<1>5. pr_match'[m].saga # "none"
  BY <1>3, <1>4, InvParts DEF RecordTypeOK
<1>6. PICK r : r = [pc |-> "saga", match |-> m]
  OBVIOUS
<1>7. r \in SagaJob /\ r.match = m /\ Request(p, r)
  BY <1>1, <1>6 DEF SagaJob
<1>8. /\ r \in RecordJobs /\ RequestSound(r)' /\ ~Declares(r) /\ r \notin MaterializeJob
      /\ r.pc \in {"saga", "done"} /\ req[p].pc = "idle"
  BY <1>5, <1>7, RecordJobKinds DEF RequestSound, Declares, Request, MayStart
<1> QED
  BY <1>3, <1>4, <1>7, <1>8, MatchStep DEF CompleteMatch

\* The saga is done.
LEMMA FinishSagaInv ==
    ASSUME RecordInv, Keeping, NEW p \in Tasks, FinishSaga(p)
    PROVE  RecordInv'
<1>1. RecordTypeOK /\ RowsSound /\ req[p] \in SagaJob /\ req[p].pc = "done" /\ RequestSound(req[p])
  BY InvParts, RecordJobKinds DEF FinishSaga, At
<1>2. PICK m \in PrMatches : m = req[p].match
  BY <1>1 DEF SagaJob
<1>3. PICK old \in MatchRecord : old = pr_match[m] /\ old.saga # "none" /\ old.winner \in RecordSides
  BY <1>1, <1>2 DEF RecordTypeOK, RowsSound, RequestSound
<1>4. PICK w : w = [old EXCEPT !.saga = "done"]
  OBVIOUS
<1>5. w \in MatchRecord /\ w.saga = "done" /\ w.winner = old.winner /\ w.status = old.status
  BY <1>4 DEF MatchRecord
<1>6. pr_match' = [pr_match EXCEPT ![m] = w]
  BY <1>2, <1>3, <1>4 DEF FinishSaga
<1>7. PICK r : r = NoRequest
  OBVIOUS
<1>8. /\ r \in RecordJobs /\ ~Declares(r) /\ r \notin MaterializeJob
      /\ r.pc = "idle" /\ req[p] # NoRequest /\ Continue(p, r)
  BY <1>1, <1>7, RecordJobKinds DEF Declares, FinishSaga, Finish
<1>9. RequestSound(r)'
  BY <1>7, RecordJobKinds DEF RequestSound
<1>10. UNCHANGED <<pr_roster, pr_lineups, pr_links, pr_applied, pr_profiles, pr_ratings>>
  BY DEF FinishSaga
<1> QED
  BY <1>1, <1>2, <1>3, <1>5, <1>6, <1>8, <1>9, <1>10, MatchStep

\* A transfer moves a player; what the demos said is then judged no more.
LEMMA ChangeRosterInv ==
    ASSUME RecordInv, Keeping, NEW p \in Tasks, ChangeRoster(p)
    PROVE  RecordInv'
<1>1. RecordTypeOK /\ RowsSound /\ ProfilesCount /\ OneByOne /\ PeakExplained
  BY InvParts
<1>2. req[p] = NoRequest /\ Request(p, NoRequest)
  BY DEF ChangeRoster, Request, MayStart
<1>3. /\ Turned(p, NoRequest) /\ req' \in [Tasks -> RecordJobs]
      /\ requests' \in 0 .. scenario'.requests /\ crashes' \in 0 .. scenario'.crashes
  BY <1>1, <1>2, RecordJobKinds, TurnOf
<1>4. pr_roster' \in [RecordSides -> SUBSET PrPlayers]
  <2>1. PICK s \in RecordSides : \E x \in pr_roster[s] : pr_roster' = [pr_roster EXCEPT ![s] = @ \ {x}, ![3 - s] = @ \cup {x}]
    BY DEF ChangeRoster
  <2>2. PICK x \in pr_roster[s] : pr_roster' = [pr_roster EXCEPT ![s] = @ \ {x}, ![3 - s] = @ \cup {x}]
    BY <2>1
  <2>3. x \in PrPlayers /\ 3 - s \in RecordSides
    BY <1>1 DEF RecordTypeOK, RecordSides
  <2> QED
    BY <1>1, <2>2, <2>3 DEF RecordTypeOK
<1>5. RecordTypeOK'
  BY <1>1, <1>3, <1>4 DEF RecordTypeOK, Turned, ChangeRoster
<1>6. RowsSound' /\ ProfilesCount' /\ OneByOne' /\ PeakExplained'
  BY <1>1, <1>2, <1>3, RecordJobKinds, RowsFrame, CountsFrame, OneByOneFrame, PeakFrame DEF ChangeRoster, Declares
<1>7. GamesFollowDemos'
  BY <1>3 DEF ChangeRoster, Keeps, GamesFollowDemos, Turned
<1> QED
  BY <1>3, <1>5, <1>6, <1>7 DEF RecordInv, Keeping, Turned

-----------------------------------------------------------------------------
(* The steps that write profiles and ratings                                *)

\* The larger of two numbers.
LEMMA MaxOfTwo ==
    ASSUME NEW a \in Nat, NEW b \in Nat
    PROVE  Max({a, b}) = IF a >= b THEN a ELSE b
<1> DEFINE m == IF a >= b THEN a ELSE b
<1>1. m \in {a, b} /\ \A y \in {a, b} : m >= y
  OBVIOUS
<1>2. \A x \in {a, b} : (\A y \in {a, b} : x >= y) => x = m
  OBVIOUS
<1> QED
  BY <1>1, <1>2 DEF Max

\* A profile is written by task p, which goes on as r.
LEMMA ProfileStep ==
    ASSUME RecordInv, Keeping, NEW p \in Tasks, NEW r \in RecordJobs, NEW x \in PrPlayers, NEW w \in Profile,
           Request(p, r) \/ (Continue(p, r) /\ req[p] # NoRequest),
           pr_profiles' = [pr_profiles EXCEPT ![x] = w],
           UNCHANGED <<pr_match, pr_roster, pr_lineups, pr_links, pr_ratings>>,
           pr_applied' \in SUBSET (PrPlayers \X PrMatches), IsFiniteSet(pr_applied'),
           ProfilesCount', PeakExplained',
           RequestSound(r), ~Declares(r), r \notin MaterializeJob, req[p].pc # "lock"
    PROVE  RecordInv'
<1>1. RecordTypeOK /\ RowsSound /\ OneByOne /\ GamesFollowDemos
  BY InvParts
<1>2. /\ Turned(p, r) /\ req' \in [Tasks -> RecordJobs]
      /\ requests' \in 0 .. scenario'.requests /\ crashes' \in 0 .. scenario'.crashes
  BY <1>1, TurnOf
<1>3. pr_profiles' \in [PrPlayers -> Profile]
  BY <1>1 DEF RecordTypeOK
<1>4. RecordTypeOK'
  BY <1>1, <1>2, <1>3 DEF RecordTypeOK, Turned
<1>5. req[p] \notin LockJob
  BY DEF LockJob
<1>6. RowsSound' /\ OneByOne' /\ GamesFollowDemos'
  BY <1>1, <1>2, <1>5, RowsFrame, OneByOneFrame, GamesFrame
<1> QED
  BY <1>2, <1>4, <1>6 DEF RecordInv, Keeping, Turned

\* The match is counted when the ledger has no row for the pair.
LEMMA LedgerGrows ==
    ASSUME NEW x, NEW m, NEW y, IsFiniteSet(pr_applied), pr_applied' = pr_applied \cup {<<x, m>>}
    PROVE  /\ IsFiniteSet(pr_applied')
           /\ LedgerCount(y)' = LedgerCount(y) + (IF y = x /\ <<x, m>> \notin pr_applied THEN 1 ELSE 0)
<1> DEFINE of == {a \in pr_applied : a[1] = y}
           new == {a \in pr_applied \cup {<<x, m>>} : a[1] = y}
<1>0. LedgerCount(y) = Cardinality(of) /\ LedgerCount(y)' = Cardinality(new)
  BY DEF LedgerCount
<1>1. IsFiniteSet(pr_applied \cup {<<x, m>>}) /\ IsFiniteSet(pr_applied')
  BY FS_AddElement
<1>2. of \subseteq pr_applied
  OBVIOUS
<1>3. IsFiniteSet(of) /\ Cardinality(of) \in Nat
  BY <1>2, FS_Subset, FS_CardinalityType
<1>4. CASE y = x /\ <<x, m>> \notin pr_applied
  <2>1. new = of \cup {<<x, m>>} /\ <<x, m>> \notin of
    BY <1>4
  <2> HIDE DEF of, new
  <2>2. Cardinality(of \cup {<<x, m>>}) = Cardinality(of) + 1
    BY <1>3, <2>1, FS_AddElement
  <2> QED
    BY <1>0, <1>1, <1>4, <2>1, <2>2 DEF of, new
<1>5. CASE ~(y = x /\ <<x, m>> \notin pr_applied)
  <2>1. new = of
    BY <1>5
  <2> HIDE DEF of, new
  <2> QED
    BY <1>0, <1>1, <1>3, <1>5, <2>1
<1> QED
  BY <1>4, <1>5

\* What a counted match does to a profile.
LEMMA AccumulatedProfile ==
    ASSUME NEW f \in Profile, NEW won \in BOOLEAN, NEW stats \in SUBSET PrMatches, f.best >= f.streak,
           f.wins + f.losses = f.played
    PROVE  LET g == Accumulated(f, won, stats)
           IN  /\ g \in Profile /\ g.played = f.played + 1 /\ g.wins + g.losses = g.played
               /\ g.best >= g.streak /\ g.peak = f.peak
<1>1. f.played \in Nat /\ f.wins \in Nat /\ f.losses \in Nat /\ f.streak \in Nat /\ f.best \in Nat
  BY DEF Profile
<1>2. PICK streak \in Nat : streak = IF won THEN f.streak + 1 ELSE 0
  BY <1>1
<1>3. PICK best \in Nat : /\ best = IF won THEN Max({f.best, streak}) ELSE Max({f.best, f.streak})
                          /\ best >= streak
  BY <1>1, <1>2, MaxOfTwo
<1>4. PICK wins \in Nat, losses \in Nat : /\ wins = IF won THEN f.wins + 1 ELSE f.wins
                                          /\ losses = IF won THEN f.losses ELSE f.losses + 1
  BY <1>1
<1>5. wins + losses = f.played + 1 /\ f.played + 1 \in Nat
  BY <1>1, <1>4
<1> DEFINE g == [f EXCEPT !.played = f.played + 1, !.stats = stats, !.wins = wins, !.losses = losses,
                          !.streak = streak, !.best = best]
<1>6. Accumulated(f, won, stats) = g
  BY <1>2, <1>3, <1>4 DEF Accumulated
<1>7. /\ g \in Profile /\ g.played = f.played + 1 /\ g.wins = wins /\ g.losses = losses
      /\ g.streak = streak /\ g.best = best /\ g.peak = f.peak
  BY <1>5 DEF Profile
<1> QED
  BY <1>3, <1>5, <1>6, <1>7

\* The ledger and the counters move together.
LEMMA ApplyStatsInv ==
    ASSUME RecordInv, Keeping, NEW p \in Tasks, ApplyStats(p)
    PROVE  RecordInv'
<1>1. /\ RecordTypeOK /\ ProfilesCount /\ PeakExplained
      /\ req[p] \in CreditJob /\ req[p].pc = "apply" /\ RequestSound(req[p])
  BY InvParts, RecordJobKinds DEF ApplyStats, At
<1>2. PICK job \in CreditJob : job = req[p]
  BY <1>1
<1>3. PICK x \in PrPlayers, m \in PrMatches : x = job.player /\ m = job.match
  BY <1>1, <1>2 DEF CreditJob, RequestSound
<1>4. PICK won \in BOOLEAN : won <=> x \in job.won
  OBVIOUS
<1>5. PICK old \in Profile : old = pr_profiles[x]
  BY <1>1 DEF RecordTypeOK
<1>6. PICK f : f = [old EXCEPT !.exists = TRUE]
  OBVIOUS
<1>7. /\ f \in Profile /\ f.played = old.played /\ f.wins = old.wins /\ f.losses = old.losses
      /\ f.streak = old.streak /\ f.best = old.best /\ f.peak = old.peak
  BY <1>6 DEF Profile
<1>8. old.wins + old.losses = old.played /\ old.best >= old.streak
      /\ old.played = LedgerCount(x)
  BY <1>1, <1>5 DEF ProfilesCount
<1>9. PICK w : w = IF <<x, m>> \notin pr_applied THEN Accumulated(f, won, job.stats) ELSE f
  OBVIOUS
<1>10. /\ w \in Profile /\ w.wins + w.losses = w.played /\ w.best >= w.streak /\ w.peak = old.peak
       /\ w.played = old.played + (IF <<x, m>> \notin pr_applied THEN 1 ELSE 0)
  <2>1. job.stats \in SUBSET PrMatches /\ old.played \in Nat
    BY DEF CreditJob, Profile
  <2>2. CASE <<x, m>> \notin pr_applied
    BY <1>7, <1>8, <1>9, <2>1, <2>2, AccumulatedProfile
  <2>3. CASE <<x, m>> \in pr_applied
    BY <1>7, <1>8, <1>9, <2>1, <2>3
  <2> QED
    BY <2>2, <2>3
<1>11. /\ pr_profiles' = [pr_profiles EXCEPT ![x] = w]
       /\ pr_applied' = pr_applied \cup {<<x, m>>}
  <2>1. (x \in job.won) = won
    BY <1>4
  <2> QED
    BY <1>2, <1>3, <1>5, <1>6, <1>9, <2>1 DEF ApplyStats, Claims
<1>12. /\ pr_profiles'[x] = w /\ \A y \in PrPlayers : y # x => pr_profiles'[y] = pr_profiles[y]
       /\ pr_applied' \in SUBSET (PrPlayers \X PrMatches)
  BY <1>1, <1>11 DEF RecordTypeOK
<1>13. IsFiniteSet(pr_applied') /\ \A y : LedgerCount(y)' = LedgerCount(y) + (IF y = x /\ <<x, m>> \notin pr_applied THEN 1 ELSE 0)
  <2>1. IsFiniteSet(pr_applied)
    BY <1>1 DEF RecordTypeOK
  <2> QED
    BY <1>11, <2>1, LedgerGrows
<1>14. ProfilesCount'
  <2> SUFFICES ASSUME NEW y \in PrPlayers
               PROVE  /\ pr_profiles'[y].wins + pr_profiles'[y].losses = pr_profiles'[y].played
                      /\ pr_profiles'[y].played = LedgerCount(y)'
                      /\ pr_profiles'[y].best >= pr_profiles'[y].streak
    BY DEF ProfilesCount
  <2>1. CASE y = x
    BY <1>8, <1>10, <1>12, <1>13, <2>1
  <2>2. CASE y # x
    <3>1. pr_profiles[y].played \in Nat /\ pr_profiles[y].played = LedgerCount(y)
      BY <1>1 DEF RecordTypeOK, Profile, ProfilesCount
    <3> QED
      BY <1>1, <1>12, <1>13, <2>2, <3>1 DEF ProfilesCount
  <2> QED
    BY <2>1, <2>2
<1>15. PICK r : r = [job EXCEPT !.pc = "credit", !.won = @ \ {x}, !.lost = IF won THEN @ ELSE @ \ {x}]
  OBVIOUS
<1>16. r \in CreditJob /\ r.pc = "credit" /\ r.match = m
  BY <1>3, <1>15 DEF CreditJob
<1>17. Continue(p, r)
  BY <1>2, <1>3, <1>4, <1>15 DEF ApplyStats
<1>18. /\ RequestSound(r) /\ ~Declares(r) /\ r \notin MaterializeJob /\ r \in RecordJobs /\ req[p] # NoRequest
  BY <1>1, <1>2, <1>3, <1>16, RecordJobKinds DEF RequestSound, Declares
<1>19. PeakExplained'
  <2>1. Turned(p, r)
    BY <1>1, <1>17, <1>18, TurnOf
  <2>2. \A y \in PrPlayers : pr_profiles'[y].peak = pr_profiles[y].peak
    BY <1>5, <1>10, <1>12
  <2> QED
    BY <1>1, <1>16, <1>18, <2>1, <2>2, PeakFrame DEF ApplyStats
<1> QED
  BY <1>1, <1>10, <1>11, <1>12, <1>13, <1>14, <1>17, <1>18, <1>19, ProfileStep DEF ApplyStats

\* A rating begins with the profile being there.
LEMMA RatingArrivesInv ==
    ASSUME RecordInv, Keeping, NEW p \in Tasks, NEW pc \in {"rate", "demo_rating"}, RatingArrives(p, pc)
    PROVE  RecordInv'
<1>1. RecordTypeOK /\ ProfilesCount /\ PeakExplained
  BY InvParts
<1>0. PrRatings \subseteq Nat /\ 1 .. MaxRatings \subseteq Nat
  BY PlayerRecordsAssumption
<1>2. PICK x \in PrPlayers, rating \in Nat, at \in Nat :
         /\ Request(p, [pc |-> pc, player |-> x, rating |-> rating, at |-> at])
         /\ pr_profiles' = [pr_profiles EXCEPT ![x].exists = TRUE]
  BY <1>0 DEF RatingArrives
<1>3. PICK r : r = [pc |-> pc, player |-> x, rating |-> rating, at |-> at]
  OBVIOUS
<1>4. r \in RateJob /\ r.pc = pc /\ Request(p, r)
  <2>1. r \in RateJob /\ r.pc = pc
    BY <1>3 DEF RateJob
  <2> QED
    BY <1>2, <1>3, <2>1
<1>5. PICK old \in Profile : old = pr_profiles[x]
  BY <1>1 DEF RecordTypeOK
<1>6. PICK w : w = [old EXCEPT !.exists = TRUE]
  OBVIOUS
<1>7. /\ w \in Profile /\ w.played = old.played /\ w.wins = old.wins /\ w.losses = old.losses
      /\ w.streak = old.streak /\ w.best = old.best /\ w.peak = old.peak
  BY <1>6 DEF Profile
<1>8. pr_profiles' = [pr_profiles EXCEPT ![x] = w]
  BY <1>2, <1>5, <1>6
<1>9. pr_profiles'[x] = w /\ \A y \in PrPlayers : y # x => pr_profiles'[y] = pr_profiles[y]
  BY <1>1, <1>8 DEF RecordTypeOK
<1>10. /\ RequestSound(r) /\ ~Declares(r) /\ r \notin MaterializeJob /\ r \in RecordJobs
       /\ req[p].pc = "idle"
  BY <1>4, RecordJobKinds DEF RequestSound, Declares, Request, MayStart
<1>11. ProfilesCount'
  <2>1. \A y : LedgerCount(y)' = LedgerCount(y)
    BY DEF LedgerCount, RatingArrives
  <2>2. \A y \in PrPlayers : /\ pr_profiles'[y].played = pr_profiles[y].played
                             /\ pr_profiles'[y].wins = pr_profiles[y].wins
                             /\ pr_profiles'[y].losses = pr_profiles[y].losses
                             /\ pr_profiles'[y].best = pr_profiles[y].best
                             /\ pr_profiles'[y].streak = pr_profiles[y].streak
    BY <1>5, <1>7, <1>9
  <2> QED
    BY <1>1, <2>1, <2>2 DEF ProfilesCount
<1>12. PeakExplained'
  <2>1. Turned(p, r)
    BY <1>1, <1>4, <1>10, TurnOf
  <2>2. \A y \in PrPlayers : pr_profiles'[y].peak = pr_profiles[y].peak
    BY <1>5, <1>7, <1>9
  <2> QED
    BY <1>1, <1>4, <1>10, <2>1, <2>2, PeakFrame DEF RatingArrives
<1>13. pr_applied' \in SUBSET (PrPlayers \X PrMatches) /\ IsFiniteSet(pr_applied')
  BY <1>1 DEF RecordTypeOK, RatingArrives
<1> QED
  BY <1>4, <1>7, <1>8, <1>10, <1>11, <1>12, <1>13, ProfileStep DEF RatingArrives

\* The rating is on the profile, and on its way into the history.
LEMMA WriteRatingInv ==
    ASSUME RecordInv, Keeping, NEW p \in Tasks, WriteRating(p)
    PROVE  RecordInv'
<1>1. RecordTypeOK /\ ProfilesCount /\ PeakExplained /\ req[p] \in RateJob /\ req[p].pc = "rate"
  BY InvParts, RecordJobKinds DEF WriteRating, At
<1>2. PICK job \in RateJob : job = req[p]
  BY <1>1
<1>3. PICK x \in PrPlayers, rating \in Nat : x = job.player /\ rating = job.rating
  BY DEF RateJob
<1>4. PICK old \in Profile : old = pr_profiles[x]
  BY <1>1 DEF RecordTypeOK
<1>5. PICK peak \in Nat : /\ peak = Max({old.peak, rating})
                          /\ peak = IF old.peak >= rating THEN old.peak ELSE rating
  BY MaxOfTwo DEF Profile
<1>6. PICK w : w = [old EXCEPT !.rating = rating, !.peak = peak]
  OBVIOUS
<1>7. /\ w \in Profile /\ w.played = old.played /\ w.wins = old.wins /\ w.losses = old.losses
      /\ w.streak = old.streak /\ w.best = old.best /\ w.peak = peak
  BY <1>6 DEF Profile
<1>8. pr_profiles' = [pr_profiles EXCEPT ![x] = w]
  BY <1>2, <1>3, <1>4, <1>5, <1>6 DEF WriteRating, update_rating
<1>9. pr_profiles'[x] = w /\ \A y \in PrPlayers : y # x => pr_profiles'[y] = pr_profiles[y]
  BY <1>1, <1>8 DEF RecordTypeOK
<1>10. PICK r : r = [job EXCEPT !.pc = "history"]
  OBVIOUS
<1>11. r \in RateJob /\ r.pc = "history" /\ r.player = x /\ r.rating = rating /\ Continue(p, r)
  BY <1>2, <1>3, <1>10 DEF RateJob, WriteRating
<1>12. /\ RequestSound(r) /\ ~Declares(r) /\ r \notin MaterializeJob /\ r \in RecordJobs /\ req[p] # NoRequest
  BY <1>1, <1>11, RecordJobKinds DEF RequestSound, Declares
<1>13. ProfilesCount'
  <2>1. \A y : LedgerCount(y)' = LedgerCount(y)
    BY DEF LedgerCount, WriteRating
  <2>2. \A y \in PrPlayers : /\ pr_profiles'[y].played = pr_profiles[y].played
                             /\ pr_profiles'[y].wins = pr_profiles[y].wins
                             /\ pr_profiles'[y].losses = pr_profiles[y].losses
                             /\ pr_profiles'[y].best = pr_profiles[y].best
                             /\ pr_profiles'[y].streak = pr_profiles[y].streak
    BY <1>4, <1>7, <1>9
  <2> QED
    BY <1>1, <2>1, <2>2 DEF ProfilesCount
<1>14. PeakExplained'
  <2>1. Turned(p, r)
    BY <1>1, <1>11, <1>12, TurnOf
  <2>2. SUFFICES ASSUME crashes = 0, NEW y \in PrPlayers
                 PROVE  /\ DefaultRating <= pr_profiles'[y].peak
                        /\ \A h \in Reported(y) : h[3] <= pr_profiles'[y].peak
                        /\ \A q \in Tasks : Reports(req'[q], y) => req'[q].rating <= pr_profiles'[y].peak
                        /\ \/ pr_profiles'[y].peak = DefaultRating
                           \/ \E h \in Reported(y) : h[3] = pr_profiles'[y].peak
                           \/ \E q \in Tasks : Reports(req'[q], y) /\ req'[q].rating = pr_profiles'[y].peak
    <3>1. \A z : Reported(z)' = Reported(z)
      BY DEF Reported, WriteRating
    <3> QED
      BY <2>1, <3>1 DEF PeakExplained, Turned, Reports
  <2>3. /\ DefaultRating <= pr_profiles[y].peak
        /\ \A h \in Reported(y) : h[3] <= pr_profiles[y].peak
        /\ \A q \in Tasks : Reports(req[q], y) => req[q].rating <= pr_profiles[y].peak
        /\ \/ pr_profiles[y].peak = DefaultRating
           \/ \E h \in Reported(y) : h[3] = pr_profiles[y].peak
           \/ \E q \in Tasks : Reports(req[q], y) /\ req[q].rating = pr_profiles[y].peak
    BY <1>1, <2>2 DEF PeakExplained
  <2>4. /\ \A q \in Tasks : q # p => req'[q] = req[q]
        /\ req'[p] = r /\ ~Reports(req[p], y) /\ (Reports(r, y) <=> y = x)
    BY <1>1, <1>11, <2>1 DEF Turned, Reports
  <2>5. CASE y # x
    BY <1>9, <2>3, <2>4, <2>5
  <2>6. CASE y = x
    <3>1. /\ pr_profiles[y].peak = old.peak /\ pr_profiles'[y].peak = peak
          /\ old.peak \in Nat /\ old.peak <= peak /\ rating <= peak /\ (peak = old.peak \/ peak = rating)
      <4>1. pr_profiles[y].peak = old.peak /\ pr_profiles'[y].peak = peak
        BY <1>4, <1>7, <1>9, <2>6
      <4>2. old.peak \in Nat
        BY DEF Profile
      <4> QED
        BY <1>5, <4>1, <4>2
    <3>2. ASSUME NEW h \in Reported(y) PROVE h[3] <= peak
      BY <1>1, <2>3, <3>1, <3>2 DEF RecordTypeOK, Reported
    <3>3. ASSUME NEW q \in Tasks, Reports(req'[q], y) PROVE req'[q].rating <= peak
      <4>1. CASE q = p
        BY <1>11, <2>4, <3>1, <4>1
      <4>2. CASE q # p
        <5>1. Reports(req[q], y) /\ req'[q] = req[q]
          BY <2>4, <3>3, <4>2
        <5>2. req[q].rating <= old.peak /\ req[q].rating \in Nat
          BY <2>3, <3>1, <5>1 DEF Reports, RateJob
        <5>3. peak \in Nat
          BY <1>5, <3>1
        <5> QED
          BY <3>1, <5>1, <5>2, <5>3
      <4> QED
        BY <4>1, <4>2
    <3>4. peak = rating => Reports(req'[p], y) /\ req'[p].rating = peak
      BY <1>11, <2>4, <2>6
    <3>5. peak = old.peak =>
             \/ peak = DefaultRating
             \/ \E h \in Reported(y) : h[3] = peak
             \/ \E q \in Tasks : Reports(req'[q], y) /\ req'[q].rating = peak
      BY <2>3, <2>4, <3>1
    <3>6. DefaultRating <= peak
      BY <2>3, <3>1 DEF DefaultRating
    <3> QED
      BY <3>1, <3>2, <3>3, <3>4, <3>5, <3>6
  <2> QED
    BY <2>5, <2>6
<1>15. pr_applied' \in SUBSET (PrPlayers \X PrMatches) /\ IsFiniteSet(pr_applied')
  BY <1>1 DEF RecordTypeOK, WriteRating
<1>16. UNCHANGED <<pr_match, pr_roster, pr_lineups, pr_links, pr_ratings>>
  BY DEF WriteRating
<1> QED
  BY <1>1, <1>7, <1>8, <1>11, <1>12, <1>13, <1>14, <1>15, <1>16, ProfileStep

\* The report is in the history.
LEMMA InsertRatingInv ==
    ASSUME RecordInv, Keeping, NEW p \in Tasks, InsertRating(p)
    PROVE  RecordInv'
<1>1. /\ RecordTypeOK /\ RowsSound /\ ProfilesCount /\ OneByOne /\ GamesFollowDemos /\ PeakExplained
      /\ req[p] \in RateJob /\ req[p].pc = "history"
  BY InvParts, RecordJobKinds DEF InsertRating, At
<1>2. PICK job \in RateJob : job = req[p]
  BY <1>1
<1>3. PICK x \in PrPlayers, rating \in Nat, at \in Nat : x = job.player /\ rating = job.rating /\ at = job.at
  BY DEF RateJob
<1>4. pr_ratings' = pr_ratings \cup {<<x, at, rating, "report">>}
  BY <1>2, <1>3 DEF InsertRating
<1>5. Continue(p, NoRequest) /\ req[p] # NoRequest /\ NoRequest \in RecordJobs /\ RequestSound(NoRequest)
      /\ ~Declares(NoRequest) /\ NoRequest \notin MaterializeJob /\ req[p] \notin LockJob
  BY <1>1, RecordJobKinds DEF InsertRating, Finish, Declares
<1>6. /\ Turned(p, NoRequest) /\ req' \in [Tasks -> RecordJobs]
      /\ requests' \in 0 .. scenario'.requests /\ crashes' \in 0 .. scenario'.crashes
  BY <1>1, <1>5, TurnOf
<1>7. RecordTypeOK'
  <2>1. pr_ratings' \in SUBSET (PrPlayers \X Nat \X Nat \X {"report", "demo"})
    BY <1>1, <1>4 DEF RecordTypeOK
  <2> QED
    BY <1>1, <1>6, <2>1 DEF RecordTypeOK, Turned, InsertRating
<1>8. RowsSound' /\ ProfilesCount' /\ OneByOne' /\ GamesFollowDemos'
  BY <1>1, <1>5, <1>6, RowsFrame, CountsFrame, OneByOneFrame, GamesFrame DEF InsertRating
<1>9. PeakExplained'
  <2>2. SUFFICES ASSUME crashes = 0, NEW y \in PrPlayers
                 PROVE  /\ DefaultRating <= pr_profiles[y].peak
                        /\ \A h \in Reported(y)' : h[3] <= pr_profiles[y].peak
                        /\ \A q \in Tasks : Reports(req'[q], y) => req'[q].rating <= pr_profiles[y].peak
                        /\ \/ pr_profiles[y].peak = DefaultRating
                           \/ \E h \in Reported(y)' : h[3] = pr_profiles[y].peak
                           \/ \E q \in Tasks : Reports(req'[q], y) /\ req'[q].rating = pr_profiles[y].peak
    BY <1>6 DEF PeakExplained, Turned, InsertRating, Reports
  <2>3. /\ DefaultRating <= pr_profiles[y].peak
        /\ \A h \in Reported(y) : h[3] <= pr_profiles[y].peak
        /\ \A q \in Tasks : Reports(req[q], y) => req[q].rating <= pr_profiles[y].peak
        /\ \/ pr_profiles[y].peak = DefaultRating
           \/ \E h \in Reported(y) : h[3] = pr_profiles[y].peak
           \/ \E q \in Tasks : Reports(req[q], y) /\ req[q].rating = pr_profiles[y].peak
    BY <1>1, <2>2 DEF PeakExplained
  <2>4. /\ \A q \in Tasks : q # p => req'[q] = req[q]
        /\ \A q \in Tasks : Reports(req'[q], y) => q # p
        /\ (Reports(req[p], y) <=> y = x) /\ req[p].rating = rating
    BY <1>1, <1>2, <1>3, <1>6, RecordJobKinds DEF Turned, Reports
  <2>5. /\ Reported(y)' = IF y = x THEN Reported(y) \cup {<<x, at, rating, "report">>} ELSE Reported(y)
        /\ <<x, at, rating, "report">>[3] = rating
    BY <1>4 DEF Reported
  <2>6. \A h \in Reported(y)' : h[3] <= pr_profiles[y].peak
    BY <2>3, <2>4, <2>5
  <2>7. \A q \in Tasks : Reports(req'[q], y) => req'[q].rating <= pr_profiles[y].peak
    BY <2>3, <2>4
  <2>8. CASE \E q \in Tasks : Reports(req[q], y) /\ req[q].rating = pr_profiles[y].peak
    <3>1. PICK q \in Tasks : Reports(req[q], y) /\ req[q].rating = pr_profiles[y].peak
      BY <2>8
    <3>2. CASE q = p
      BY <2>3, <2>4, <2>5, <2>6, <2>7, <3>1, <3>2
    <3>3. CASE q # p
      BY <2>3, <2>4, <2>6, <2>7, <3>1, <3>3
    <3> QED
      BY <3>2, <3>3
  <2> QED
    BY <2>3, <2>5, <2>6, <2>7, <2>8
<1> QED
  BY <1>6, <1>7, <1>8, <1>9 DEF RecordInv, Keeping, Turned

\* A demo's rating is in the history, and reports nothing.
LEMMA InsertDemoRatingInv ==
    ASSUME RecordInv, Keeping, NEW p \in Tasks, InsertDemoRating(p)
    PROVE  RecordInv'
<1>1. /\ RecordTypeOK /\ RowsSound /\ ProfilesCount /\ OneByOne /\ GamesFollowDemos /\ PeakExplained
      /\ req[p] \in RateJob /\ req[p].pc = "demo_rating"
  BY InvParts, RecordJobKinds DEF InsertDemoRating, At
<1>2. PICK x \in PrPlayers, rating \in Nat, at \in Nat :
         x = req[p].player /\ rating = req[p].rating /\ at = req[p].at
  BY <1>1 DEF RateJob
<1>3. pr_ratings' = pr_ratings \/ pr_ratings' = pr_ratings \cup {<<x, at, rating, "demo">>}
  BY <1>2 DEF InsertDemoRating
<1>4. Continue(p, NoRequest) /\ req[p] # NoRequest /\ NoRequest \in RecordJobs /\ RequestSound(NoRequest)
      /\ ~Declares(NoRequest) /\ NoRequest \notin MaterializeJob /\ req[p] \notin LockJob
  BY <1>1, RecordJobKinds DEF InsertDemoRating, Finish, Declares
<1>5. /\ Turned(p, NoRequest) /\ req' \in [Tasks -> RecordJobs]
      /\ requests' \in 0 .. scenario'.requests /\ crashes' \in 0 .. scenario'.crashes
  BY <1>1, <1>4, TurnOf
<1>6. RecordTypeOK'
  <2>1. pr_ratings' \in SUBSET (PrPlayers \X Nat \X Nat \X {"report", "demo"})
    <3>1. CASE pr_ratings' = pr_ratings
      BY <1>1, <3>1 DEF RecordTypeOK
    <3>2. CASE pr_ratings' = pr_ratings \cup {<<x, at, rating, "demo">>}
      <4>1. <<x, at, rating, "demo">> \in PrPlayers \X Nat \X Nat \X {"report", "demo"}
        OBVIOUS
      <4> QED
        BY <1>1, <3>2, <4>1 DEF RecordTypeOK
    <3> QED
      BY <1>3, <3>1, <3>2
  <2> QED
    BY <1>1, <1>5, <2>1 DEF RecordTypeOK, Turned, InsertDemoRating
<1>7. RowsSound' /\ ProfilesCount' /\ OneByOne' /\ GamesFollowDemos'
  BY <1>1, <1>4, <1>5, RowsFrame, CountsFrame, OneByOneFrame, GamesFrame DEF InsertDemoRating
<1>8. PeakExplained'
  <2>1. \A y \in PrPlayers : Reported(y)' = Reported(y)
    BY <1>3 DEF Reported
  <2>2. NoRequest.pc # "history" /\ req[p].pc # "history"
    BY <1>1, RecordJobKinds
  <2>3. \A y \in PrPlayers : pr_profiles'[y].peak = pr_profiles[y].peak
    BY DEF InsertDemoRating
  <2> QED
    BY <1>1, <1>4, <1>5, <2>1, <2>2, <2>3, PeakFrame
<1> QED
  BY <1>5, <1>6, <1>7, <1>8 DEF RecordInv, Keeping, Turned

-----------------------------------------------------------------------------
(* The theorem                                                              *)

\* Nothing is played yet, and every profile is fresh.
LEMMA RecordInitInv ==
    ASSUME RequestsInit, PrInit
    PROVE  RecordInv
<1>1. CASE Keeping
  <2>1. scenario \in Scenarios /\ scenario.requests \in Nat /\ scenario.crashes \in Nat
    BY RequestsAssumption DEF RequestsInit
  <2>2. scenario.roster \in [RecordSides -> SUBSET PrPlayers]
    BY <1>1, <2>1, PlayerRecordsAssumption DEF Keeping, RecordSides
  <2>3. NoLineup \in Lineup /\ ~NoLineup.locked /\ NoLineup.rows = {} /\ NoLineup.status = "none"
    BY DEF NoLineup, Lineup, LineupStatus
  <2>4. /\ FreshProfile \in Profile /\ FreshProfile.played = 0 /\ FreshProfile.wins = 0 /\ FreshProfile.losses = 0
        /\ FreshProfile.streak = 0 /\ FreshProfile.best = 0 /\ FreshProfile.peak = DefaultRating
    BY DEF FreshProfile, Profile, DefaultRating
  <2>5. \A p \in Tasks : req[p] = NoRequest
    BY DEF RequestsInit
  <2>6. IsFiniteSet(pr_applied) /\ \A x : LedgerCount(x) = 0
    <3>1. pr_applied = {}
      BY <1>1 DEF PrInit
    <3>2. \A x : {a \in pr_applied : a[1] = x} = {}
      BY <3>1
    <3> QED
      BY <3>1, <3>2, FS_EmptySet DEF LedgerCount
  <2>7. RecordTypeOK
    BY <1>1, <2>1, <2>2, <2>3, <2>4, <2>6, IdleJob DEF RequestsInit, PrInit, RecordTypeOK, MatchRecord
  <2>8. RowsSound
    BY <1>1, <2>3, <2>5, IdleJob DEF PrInit, RowsSound, LineupOK, RowsMarked
  <2>9. ProfilesCount
    BY <1>1, <2>4, <2>6 DEF PrInit, ProfilesCount
  <2>10. OneByOne
    BY <1>1, <2>5, IdleJob DEF PrInit, OneByOne, Declares
  <2>11. GamesFollowDemos
    <3>1. \A g : Recorded(NoLineup, g) = {}
      BY <2>3 DEF Recorded, GameRows
    <3> QED
      BY <1>1, <2>5, <3>1, IdleJob DEF PrInit, GamesFollowDemos, FromDemo
  <2>12. PeakExplained
    <3>1. \A x : Reported(x) = {}
      BY <1>1 DEF PrInit, Reported
    <3>2. \A p \in Tasks, x \in PrPlayers : ~Reports(req[p], x)
      BY <2>5, IdleJob DEF Reports
    <3>3. \A x \in PrPlayers : pr_profiles[x].peak = DefaultRating
      BY <1>1, <2>4 DEF PrInit
    <3> QED
      BY <3>1, <3>2, <3>3 DEF PeakExplained, DefaultRating
  <2> QED
    BY <1>1, <2>7, <2>8, <2>9, <2>10, <2>11, <2>12 DEF RecordInv
<1>2. CASE ~Keeping
  BY <1>2 DEF RequestsInit, RecordInv, Quiescent
<1> QED
  BY <1>1, <1>2

\* No step of a scenario of another component is a step of this one.
LEMMA OnlyWhenKeeping ==
    ASSUME RecordInv, PrNext
    PROVE  Keeping
<1>1. SUFFICES ASSUME ~Keeping PROVE FALSE
  OBVIOUS
<1>2. \A p \in Tasks : req[p] = NoRequest /\ req[p].pc = "idle"
  BY <1>1, RecordJobKinds DEF RecordInv, Quiescent
<1>3. PICK p \in Tasks : PrRequest(p) \/ RedriveStats(p) \/ PrStep(p)
  BY <1>1 DEF PrNext
<1>4. ~PrRequest(p) /\ ~RedriveStats(p)
  BY <1>1 DEF PrRequest, DeclareLineup, StartMatch, ChangeRoster, LinkPlayedDemo, UnlinkDemo, CompleteMatch,
              SubmitPlayerRating, ProcessDemoRating, RatingArrives, RedriveStats, Keeps
<1>5. ~PrStep(p)
  BY <1>2 DEF PrStep, WriteDeclared, LockLineups, MaterializeSide, UpdatePlayerStats, ReadStats, ApplyStats,
              FinishSaga, WriteRating, InsertRating, InsertDemoRating, At
<1> QED
  BY <1>3, <1>4, <1>5

\* Every step keeps the invariant.
LEMMA RecordStepInv == RecordInv /\ [PrNext]_prVars => RecordInv'
<1> SUFFICES ASSUME RecordInv, [PrNext]_prVars PROVE RecordInv'
  OBVIOUS
<1>1. CASE PrNext
  <2>1. Keeping
    BY <1>1, OnlyWhenKeeping
  <2>2. PICK p \in Tasks : PrRequest(p) \/ RedriveStats(p) \/ PrStep(p) \/ (Die(p) /\ UNCHANGED prTables)
    BY <1>1 DEF PrNext
  <2>3. CASE PrRequest(p)
    BY <2>1, <2>3, DeclareLineupInv, StartMatchInv, ChangeRosterInv, LinkPlayedDemoInv, UnlinkDemoInv,
       CompleteMatchInv, RatingArrivesInv DEF PrRequest, SubmitPlayerRating, ProcessDemoRating
  <2>4. CASE RedriveStats(p)
    BY <2>1, <2>4, RedriveStatsInv
  <2>5. CASE PrStep(p)
    BY <2>1, <2>5, WriteDeclaredInv, LockLineupsInv, MaterializeSideInv, UpdatePlayerStatsInv, ReadStatsInv,
       ApplyStatsInv, FinishSagaInv, WriteRatingInv, InsertRatingInv, InsertDemoRatingInv DEF PrStep
  <2>6. CASE Die(p) /\ UNCHANGED prTables
    BY <2>1, <2>6, RecordDeathInv
  <2> QED
    BY <2>2, <2>3, <2>4, <2>5, <2>6
<1>2. CASE UNCHANGED prVars
  <2>1. UNCHANGED requestVars /\ UNCHANGED prTables
    BY <1>2 DEF prVars
  <2>2. /\ UNCHANGED <<scenario, req, requests, crashes>>
        /\ UNCHANGED <<pr_match, pr_roster, pr_lineups, pr_links, pr_applied, pr_profiles, pr_ratings>>
    BY <2>1 DEF requestVars, prTables
  <2>3. CASE Keeping
    <3>1. RecordTypeOK /\ RowsSound /\ ProfilesCount /\ OneByOne /\ GamesFollowDemos /\ PeakExplained
      BY <2>3, InvParts
    <3>2. RecordTypeOK' /\ ProfilesCount' /\ OneByOne' /\ PeakExplained'
      BY <2>2, <3>1, CountsFrame DEF RecordTypeOK, OneByOne, Locks, Declares, PeakExplained, Reports, Reported
    <3>3. RowsSound'
      BY <2>2, <3>1 DEF RowsSound, LineupOK, RowsMarked, RequestSound
    <3>4. GamesFollowDemos'
      <4>1. \A d, s : DemoSide(d, s)' = DemoSide(d, s)
        BY <2>2 DEF DemoSide, SideOf, infer_side
      <4>2. \A who, s : FromDemo(who, s)' <=> FromDemo(who, s)
        BY <4>1 DEF FromDemo
      <4> QED
        BY <2>2, <3>1, <4>2 DEF GamesFollowDemos, Recorded, GameRows
    <3> QED
      BY <2>2, <2>3, <3>2, <3>3, <3>4 DEF RecordInv, Keeping
  <2>4. CASE ~Keeping
    BY <2>2, <2>4 DEF RecordInv, Keeping, Quiescent
  <2> QED
    BY <2>3, <2>4
<1> QED
  BY <1>1, <1>2

\* The highest of a set of numbers is the bound that is one of them.
LEMMA MaxIs ==
    ASSUME NEW S \in SUBSET Nat, NEW b \in S, \A y \in S : y <= b
    PROVE  Max(S) = b
<1>1. \A y \in S : b >= y
  OBVIOUS
<1>2. \A x \in S : (\A y \in S : x >= y) => x = b
  OBVIOUS
<1> QED
  BY <1>1, <1>2 DEF Max

\* What the invariant says of the records.
LEMMA RecordInvFollows == RecordInv => RecordsFollowGames
<1> SUFFICES ASSUME RecordInv PROVE RecordsFollowGames
  OBVIOUS
<1>1. CASE ~Keeping
  BY <1>1 DEF RecordsFollowGames, PrTypeOK, CountedOncePerMatch, StartedIsLocked, OneRecordPerGame, PeakFollowsReports
<1>2. CASE Keeping
  <2>1. RecordTypeOK /\ RowsSound /\ ProfilesCount /\ OneByOne /\ GamesFollowDemos /\ PeakExplained
    BY <1>2, InvParts
  <2>2. PrTypeOK
    <3>1. RequestsTypeOK
      BY <2>1 DEF RecordTypeOK, RequestsTypeOK
    <3>2. ASSUME NEW m \in PrMatches, NEW s \in RecordSides
          PROVE  /\ pr_lineups[m][s].status \in LineupStatus \cup {"none"}
                 /\ pr_lineups[m][s].locked <=> pr_lineups[m][s].status = "locked"
                 /\ \A r \in pr_lineups[m][s].rows : r.source \in LineupSource /\ (r.source = "declared" <=> r.game = 0)
      <4>1. pr_lineups[m][s] \in Lineup /\ LineupOK(pr_lineups[m][s])
        BY <2>1 DEF RecordTypeOK, RowsSound
      <4> QED
        BY <4>1 DEF Lineup, LineupPlayer, LineupOK, RowsMarked, LineupSource
    <3> QED
      BY <2>1, <3>1, <3>2 DEF PrTypeOK, RecordTypeOK, ProfilesCount
  <2>3. CountedOncePerMatch
    BY <2>1 DEF CountedOncePerMatch, ProfilesCount, LedgerCount
  <2>4. StartedIsLocked
    BY <2>1, IdleJob DEF StartedIsLocked, OneByOne, Quiescent, Locks
  <2>5. OneRecordPerGame
    <3>1. SUFFICES ASSUME "transfer" \notin scenario.ops, NEW m \in PrMatches, NEW s \in RecordSides,
                          NEW g \in scenario.games
                   PROVE  \/ Recorded(pr_lineups[m][s], g) = {}
                          \/ \E d \in DOMAIN PrDemos : Recorded(pr_lineups[m][s], g) = DemoSide(d, s)
      BY DEF OneRecordPerGame, Recorded, GameRows, DemoSide
    <3>2. g \in Nat \ {0}
      BY <1>2, <2>1, <3>1, PlayerRecordsAssumption DEF RecordTypeOK, Keeping
    <3> QED
      BY <2>1, <3>1, <3>2 DEF GamesFollowDemos, FromDemo
  <2>6. PeakFollowsReports
    <3> DEFINE S(x) == {DefaultRating} \cup {h[3] : h \in Reported(x)}
    <3>1. SUFFICES ASSUME Quiescent, crashes = 0, NEW x \in PrPlayers
                   PROVE  pr_profiles[x].peak = Max(S(x))
      BY DEF PeakFollowsReports
    <3>2. PICK b \in Nat : b = pr_profiles[x].peak
      BY <2>1 DEF RecordTypeOK, Profile
    <3>3. /\ DefaultRating <= b /\ \A h \in Reported(x) : h[3] <= b
          /\ b = DefaultRating \/ \E h \in Reported(x) : h[3] = b
      <4>1. \A p \in Tasks : ~Reports(req[p], x)
        BY <3>1, RecordJobKinds DEF Quiescent, Reports
      <4> QED
        BY <2>1, <3>1, <3>2, <4>1 DEF PeakExplained
    <3>4. \A h \in Reported(x) : h[3] \in Nat
      BY <2>1 DEF Reported, RecordTypeOK
    <3>5. S(x) \in SUBSET Nat /\ b \in S(x) /\ \A y \in S(x) : y <= b
      BY <3>3, <3>4 DEF DefaultRating
    <3> HIDE DEF S
    <3>6. Max(S(x)) = b
      BY <3>5, MaxIs
    <3> QED
      BY <3>2, <3>6
  <2> QED
    BY <2>2, <2>3, <2>4, <2>5, <2>6 DEF RecordsFollowGames
<1> QED
  BY <1>1, <1>2

\* Whatever the interleaving and whichever tasks die, a profile has counted as
\* many matches as the ledger names, a match that has started shows its lineups
\* locked, the rows of a game are those of one demo, and the peak is the highest of the
\* default and what was reported, whatever demos say.
THEOREM RecordsStayWithGames == PrSpec => []RecordsFollowGames
<1>1. RequestsInit /\ PrInit => RecordInv
  BY RecordInitInv
<1>2. RecordInv /\ [PrNext]_prVars => RecordInv'
  BY RecordStepInv
<1>3. RecordInv => RecordsFollowGames
  BY RecordInvFollows
<1> QED
  BY <1>1, <1>2, <1>3, PTL DEF PrSpec

\* One lineup as the next state has it keeps what a lock promised.
Stands(l, n) ==
    l.locked => n.locked /\ {r \in n.rows : r.source = "declared"} = {r \in l.rows : r.source = "declared"}

\* A lock is final: no declaration on its way, no demo and no second lock
\* changes the promised rows of a locked lineup.
LEMMA StepKeepsPromise == RecordInv /\ [PrNext]_prVars => LockedPromiseStands
<1> SUFFICES ASSUME RecordInv, [PrNext]_prVars, Keeping
             PROVE  \A m \in PrMatches, s \in RecordSides : Stands(pr_lineups[m][s], pr_lineups'[m][s])
  BY DEF LockedPromiseStands, Stands
<1>1. RecordTypeOK /\ RowsSound
  BY InvParts
<1>2. \A m \in PrMatches, s \in RecordSides : pr_lineups[m][s] \in Lineup /\ LineupOK(pr_lineups[m][s])
  BY <1>1 DEF RecordTypeOK, RowsSound
<1>3. CASE UNCHANGED pr_lineups
  BY <1>3 DEF Stands
<1>4. ASSUME NEW m \in PrMatches, NEW s \in RecordSides, NEW l \in Lineup, Stands(pr_lineups[m][s], l),
             pr_lineups' = [pr_lineups EXCEPT ![m][s] = l]
      PROVE  \A n \in PrMatches, t \in RecordSides : Stands(pr_lineups[n][t], pr_lineups'[n][t])
  <2>1. /\ pr_lineups'[m][s] = l
        /\ \A n \in PrMatches, t \in RecordSides : n # m \/ t # s => pr_lineups'[n][t] = pr_lineups[n][t]
    BY <1>1, <1>4, LineupWritten
  <2>2. \A a : Stands(a, a)
    BY DEF Stands
  <2> QED
    BY <1>4, <2>1, <2>2
<1>5. ASSUME NEW p \in Tasks, WriteDeclared(p)
      PROVE  \A n \in PrMatches, t \in RecordSides : Stands(pr_lineups[n][t], pr_lineups'[n][t])
  <2>1. req[p] \in DeclareJob /\ RequestSound(req[p])
    BY <1>5, InvParts, RecordJobKinds DEF WriteDeclared, At
  <2>2. PICK m \in PrMatches, s \in RecordSides : m = req[p].match /\ s = req[p].side
    BY <2>1 DEF DeclareJob
  <2>3. PICK before \in Lineup : before = pr_lineups[m][s] /\ LineupOK(before)
    BY <1>2
  <2>4. PICK st \in {"draft", "submitted"} : st = IF req[p].submit THEN "submitted" ELSE "draft"
    OBVIOUS
  <2>5. PICK rows \in SUBSET LineupPlayer : /\ rows = req[p].rows
                                            /\ \A row \in rows : row.source = "declared" /\ row.game = 0
    BY <2>1 DEF DeclareJob, RequestSound
  <2>6. PICK l : l = declare(before, st, rows)
    OBVIOUS
  <2>7. l \in Lineup /\ (before.locked => l = before)
    BY <2>3, <2>5, <2>6, DeclareKeepsRows
  <2>8. Stands(pr_lineups[m][s], l)
    BY <2>3, <2>7 DEF Stands
  <2>9. pr_lineups' = [pr_lineups EXCEPT ![m][s] = l]
    BY <1>5, <2>2, <2>3, <2>4, <2>5, <2>6 DEF WriteDeclared
  <2> QED
    BY <1>4, <2>7, <2>8, <2>9
<1>6. ASSUME NEW p \in Tasks, LockLineups(p)
      PROVE  \A n \in PrMatches, t \in RecordSides : Stands(pr_lineups[n][t], pr_lineups'[n][t])
  <2>1. PICK m : m = req[p].match
    OBVIOUS
  <2>2. pr_lineups' = [pr_lineups EXCEPT ![m] = [s \in RecordSides |-> lock_for_match(pr_lineups[m][s])]]
    BY <1>6, <2>1 DEF LockLineups
  <2>3. \A n \in PrMatches, t \in RecordSides :
           pr_lineups'[n][t] = pr_lineups[n][t] \/ pr_lineups'[n][t] = lock_for_match(pr_lineups[n][t])
    BY <1>1, <2>2 DEF RecordTypeOK
  <2>4. \A l \in Lineup : LineupOK(l) => Stands(l, lock_for_match(l)) /\ Stands(l, l)
    BY LockKeepsRows DEF Stands
  <2> QED
    BY <1>2, <2>3, <2>4
<1>7. ASSUME NEW p \in Tasks, MaterializeSide(p)
      PROVE  \A n \in PrMatches, t \in RecordSides : Stands(pr_lineups[n][t], pr_lineups'[n][t])
  <2>1. req[p] \in MaterializeJob /\ RequestSound(req[p])
    BY <1>7, InvParts, RecordJobKinds DEF MaterializeSide, At
  <2>2. PICK m \in PrMatches, s \in RecordSides, g \in Nat : m = req[p].match /\ s = req[p].side /\ g = req[p].game
    BY <2>1 DEF MaterializeJob
  <2>3. g # 0 /\ req[p].sides[s] \subseteq PrPlayers
    BY <2>1, <2>2 DEF RequestSound, MaterializeJob
  <2>4. PICK before \in Lineup : before = pr_lineups[m][s] /\ LineupOK(before)
    BY <1>2
  <2> DEFINE new == {PlayerRow(x, "demo", g, s) : x \in req[p].sides[s]}
  <2>5. PICK rows : rows = new
    OBVIOUS
  <2>6. rows \in SUBSET LineupPlayer /\ \A row \in rows : row.source = "demo" /\ row.game = g
    BY <2>3, <2>5, PlayerRowSound
  <2>7. pr_lineups' = IF rows = {} THEN pr_lineups
                      ELSE [pr_lineups EXCEPT ![m][s] = materialize_demo(before, g, rows)]
    BY <1>7, <2>2, <2>4, <2>5 DEF MaterializeSide
  <2>8. PICK l : l = materialize_demo(before, g, rows)
    OBVIOUS
  <2>9. l \in Lineup /\ Stands(before, l)
    BY <2>3, <2>4, <2>6, <2>8, MaterializeKeepsRows DEF Stands
  <2> QED
    BY <1>3, <1>4, <2>4, <2>7, <2>8, <2>9
<1>8. \/ UNCHANGED pr_lineups
      \/ \E p \in Tasks : WriteDeclared(p) \/ LockLineups(p) \/ MaterializeSide(p)
  BY DEF PrNext, PrRequest, PrStep, prVars, prTables, DeclareLineup, StartMatch, ChangeRoster, LinkPlayedDemo,
         UnlinkDemo, CompleteMatch, SubmitPlayerRating, ProcessDemoRating, RatingArrives, RedriveStats, UpdatePlayerStats,
         ReadStats, ApplyStats, FinishSaga, WriteRating, InsertRating, InsertDemoRating
<1> QED
  BY <1>3, <1>5, <1>6, <1>7, <1>8

\* What was promised when the match began stays promised.
THEOREM PromisesAreFinal == PrSpec => [][LockedPromiseStands]_prVars
<1>1. RequestsInit /\ PrInit => RecordInv
  BY RecordInitInv
<1>2. RecordInv /\ [PrNext]_prVars => RecordInv'
  BY RecordStepInv
<1>3. RecordInv /\ [PrNext]_prVars => LockedPromiseStands
  BY StepKeepsPromise
<1> QED
  BY <1>1, <1>2, <1>3, PTL DEF PrSpec

=============================================================================
