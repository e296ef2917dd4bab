----------------------------- MODULE DemoCatalog -----------------------------
(***************************************************************************)
(* One recorded demo in the catalogue and the evidence of the matches it   *)
(* may belong to.  The scanner catalogues the file, fetches its parsed     *)
(* statistics and submits them; demos are linked to matches by an admin,   *)
(* by a participant who makes them evidence, or by the automatic pass;     *)
(* participants upload further evidence, and the background pass expires   *)
(* it.  Every attachment is two rows, a demo_match_link and an evidence    *)
(* row, in two repositories without a common transaction, and the files    *)
(* live in object storage.                                                 *)
(* Source: services/demo.rs, services/tournament/evidence.rs, handlers/    *)
(* {demos,evidence}.rs, adapters/{demo,demo_stats,evidence}.rs,            *)
(* portal-scanner/src/scanner.rs                                           *)
(***************************************************************************)
EXTENDS Requests, Sequences, FiniteSets

CONSTANTS
    DcMatches,          \* the matches evidence is collected for
    DcTournamentOf,     \* the tournament of each match
    DcTeamOf,           \* the team each Steam ID of the demo plays for in it
    DcSides,            \* the Steam IDs of participant 1 and of participant 2
    MaxEvidence         \* rows of match_evidence per behaviour

VARIABLES
    demo,               \* the row in demos
    demoPlayers,        \* demoPlayers[s]: the submission its row is from, 0 for no row
    statFacts,          \* the submission demo_player_stats was projected from
    demoLinks,          \* demoLinks[m]: the link between the demo and match m
    evidence,           \* the rows of match_evidence, by id
    objects,            \* the files in object storage: 0 is the demo, i upload i
    submissions,        \* the sets of statistics so far: 1 is what the statistics
                        \* service parses from the file, the others are submitted by hand
    published           \* whether the service has that set under the file's name

dcTables == <<demo, demoPlayers, statFacts, demoLinks, evidence, objects, submissions, published>>
dcVars == <<dcTables, requestVars>>

SteamIds == DOMAIN DcTeamOf
DemoFile == 0
NoTournament == "none"

DemoStatus == {"pending", "processing", "ready", "failed"}
EvidenceStatus == {"pending", "active", "expired", "deleted"}
DemoLinkType == {"manual", "evidence", "auto_matched"}

ASSUME DemoCatalogAssumption ==
    /\ NoTournament \notin {DcTournamentOf[m] : m \in DcMatches}
    /\ DcSides[1] \cap DcSides[2] = {}

\* stamp is demos.tournament_id; byHand: an admin set it with associate.
UncataloguedDemo == [id |-> 0, status |-> "none", stats |-> 0, stamp |-> NoTournament, byHand |-> FALSE,
                     hidden |-> FALSE]
NoDemoLink == [id |-> 0, on |-> FALSE, type |-> "manual", verdict |-> "none"]
EvidenceRow(kind, m, status, link) ==
    [kind |-> kind, match |-> m, status |-> status, link |-> link, demo |-> demo.id, verdict |-> "none",
     claim |-> "none"]

DemoOp(op) == scenario.of = "demos" /\ op \in scenario.ops
Catalogued == demo.status # "none"
DemoIs(id) == Catalogued /\ demo.id = id

DcInit ==
    LET on == scenario.of = "demos" /\ scenario.catalogued
    IN  /\ demo = IF on THEN [UncataloguedDemo EXCEPT !.id = 1, !.status = "ready", !.stats = 1]
                  ELSE UncataloguedDemo
        /\ demoPlayers = [s \in SteamIds |-> IF on THEN 1 ELSE 0]
        /\ statFacts = IF on THEN 1 ELSE 0
        /\ demoLinks = [m \in DcMatches |-> NoDemoLink]
        /\ evidence = <<>>
        /\ objects = {DemoFile}
        /\ submissions = 1
        /\ published = on

-----------------------------------------------------------------------------
(* The tables                                                               *)

UpdateDemo(id, row) == demo' = IF DemoIs(id) THEN row ELSE demo

\* One row per bucket and key.
CreateDemoRow ==
    demo' = IF Catalogued THEN demo ELSE [UncataloguedDemo EXCEPT !.id = demo.id + 1, !.status = "pending"]

update_stats(id, n) == UpdateDemo(id, [demo EXCEPT !.status = "ready", !.stats = n])
update_demo_status(id, status) == UpdateDemo(id, [demo EXCEPT !.status = status])
associate(id, tournament, hand) ==
    UpdateDemo(id, [demo EXCEPT !.stamp = tournament, !.byHand = hand])

delete_players_by_demo(id) ==
    demoPlayers' = IF DemoIs(id) THEN [s \in SteamIds |-> 0] ELSE demoPlayers

\* create_batch inserts or overwrites one row at a time.
upsert_player(id, s, n) ==
    demoPlayers' = IF DemoIs(id) THEN [demoPlayers EXCEPT ![s] = n] ELSE demoPlayers

\* What the scanner is handed: also a demo that is ready and has no players.
find_pending_processing ==
    \/ demo.status \in {"pending", "failed"}
    \/ demo.status = "ready" /\ \A s \in SteamIds : demoPlayers[s] = 0

find_ready_unlinked ==
    demo.status = "ready" /\ demo.stats # 0 /\ \A m \in DcMatches : ~demoLinks[m].on

\* UNIQUE (demo_id, match_id); the demo must exist.
create_link(id, m, type) ==
    demoLinks' = IF DemoIs(id) /\ ~demoLinks[m].on
                 THEN [demoLinks EXCEPT ![m] = [id |-> @.id + 1, on |-> TRUE, type |-> type, verdict |-> "none"]]
                 ELSE demoLinks

delete_link(m, link) ==
    demoLinks' = IF demoLinks[m].id = link THEN [demoLinks EXCEPT ![m].on = FALSE] ELSE demoLinks

mark_link_validated(m, link, verdict) ==
    demoLinks' = IF demoLinks[m].on /\ demoLinks[m].id = link
                 THEN [demoLinks EXCEPT ![m].verdict = verdict] ELSE demoLinks

update_evidence_status(i, status) == evidence' = [evidence EXCEPT ![i].status = status]

\* find_by_match leaves out uploads that wait and rows that were deleted.
find_by_match(m) ==
    {i \in DOMAIN evidence : evidence[i].match = m /\ evidence[i].status \in {"active", "expired"}}

\* Keyed by demo and game, newest first: of two rows with one key the older stays.
evidence_ids_by_demo(m) ==
    LET rows == {i \in find_by_match(m) : evidence[i].kind = "demo" /\ evidence[i].demo = demo.id}
    IN  {i \in rows : \A j \in rows : i <= j}

-----------------------------------------------------------------------------
(* The scanner: cataloguing and statistics                                  *)

CatalogDemo(p) ==
    /\ DemoOp("catalog")
    /\ DemoFile \in objects /\ ~Catalogued
    /\ Begin(p, [pc |-> "dc insert"])
    /\ UNCHANGED dcTables

\* The statistics of what it created are asked for at once.
InsertDemo(p) ==
    /\ At(p, "dc insert")
    /\ CreateDemoRow
    /\ IF Catalogued THEN Finish(p) ELSE Continue(p, [pc |-> "dc fetch", id |-> demo'.id])
    /\ UNCHANGED <<demoPlayers, statFacts, demoLinks, evidence, objects, submissions, published>>

\* A game server sends the recording of a map.  It is stored and catalogued, and
\* a reservation of that server for the match id it names gives the link; a
\* repeated call finds file, row and link.
PostDemo(p) ==
    /\ DemoOp("post")
    /\ objects' = objects \cup {DemoFile}
    /\ Request(p, [pc |-> "dc post"])
    /\ UNCHANGED <<demo, demoPlayers, statFacts, demoLinks, evidence, submissions, published>>

InsertPosted(p) ==
    /\ At(p, "dc post")
    /\ CreateDemoRow
    /\ \/ \E m \in DcMatches : Continue(p, [pc |-> "dc find pair", id |-> demo'.id, match |-> m])
       \/ Finish(p)
    /\ UNCHANGED <<demoPlayers, statFacts, demoLinks, evidence, objects, submissions, published>>

FindPair(p) ==
    /\ At(p, "dc find pair")
    /\ IF demoLinks[req[p].match].on THEN Finish(p)
       ELSE Continue(p, [pc |-> "dc link", id |-> req[p].id, match |-> req[p].match, type |-> "auto_matched"])
    /\ UNCHANGED dcTables

\* An admin or a scanner submits parsed statistics of a demo that exists.
SubmitDemoStats(p) ==
    /\ DemoOp("stats") /\ Catalogued
    /\ submissions < scenario.submissions
    /\ Request(p, [pc |-> "dc stats", id |-> demo.id, n |-> submissions + 1])
    /\ submissions' = submissions + 1
    /\ UNCHANGED <<demo, demoPlayers, statFacts, demoLinks, evidence, objects, published>>

\* Who is in a set of statistics: everyone, or nobody.
PlayersIn(n) == IF n \in scenario.empty THEN {} ELSE SteamIds

\* The statistics service has parsed the file (no request to the portal).
PublishStats ==
    /\ scenario.of = "demos" /\ (scenario.serial => Quiescent)
    /\ DemoFile \in objects /\ ~published
    /\ published' = TRUE
    /\ UNCHANGED <<requestVars, demo, demoPlayers, statFacts, demoLinks, evidence, objects, submissions>>

\* process_pending: the scanner asks what is unfinished, and for its statistics.
ProcessPending(p) ==
    /\ DemoOp("scan")
    /\ Catalogued /\ find_pending_processing
    /\ Wake(p, [pc |-> "dc fetch", id |-> demo.id])
    /\ UNCHANGED dcTables

\* The scanner's own way in: the same statistics under its service's permission.
internal_submit_demo_stats(p) ==
    /\ At(p, "dc fetch") /\ published
    /\ Continue(p, [pc |-> "dc stats", id |-> req[p].id, n |-> 1])
    /\ UNCHANGED dcTables

\* Nothing under the name yet (the row stays as it is), or another failure.
NotYetParsed(p) ==
    /\ At(p, "dc fetch") /\ ~published
    /\ Finish(p)
    /\ UNCHANGED dcTables

StatsFetchFailed(p) ==
    /\ At(p, "dc fetch")
    /\ Continue(p, [pc |-> "dc fetch failed", id |-> req[p].id])
    /\ UNCHANGED dcTables

SaveStats(p) ==
    /\ At(p, "dc stats")
    /\ update_stats(req[p].id, req[p].n)
    /\ IF DemoIs(req[p].id) THEN Continue(p, [req[p] EXCEPT !.pc = "dc clear players"]) ELSE Finish(p)
    /\ UNCHANGED <<demoPlayers, statFacts, demoLinks, evidence, objects, submissions, published>>

ClearPlayers(p) ==
    /\ At(p, "dc clear players")
    /\ delete_players_by_demo(req[p].id)
    /\ Continue(p, IF PlayersIn(req[p].n) = {}
                   THEN [pc |-> "dc auto link", id |-> req[p].id, n |-> req[p].n]
                   ELSE [pc |-> "dc player", id |-> req[p].id, n |-> req[p].n, left |-> PlayersIn(req[p].n)])
    /\ UNCHANGED <<demo, statFacts, demoLinks, evidence, objects, submissions, published>>

InsertPlayer(p) ==
    /\ At(p, "dc player")
    /\ \E s \in req[p].left :
          /\ upsert_player(req[p].id, s, req[p].n)
          /\ CASE ~DemoIs(req[p].id) -> Finish(p)
               [] DemoIs(req[p].id) /\ req[p].left # {s} -> Continue(p, [req[p] EXCEPT !.left = @ \ {s}])
               [] OTHER -> Continue(p, [pc |-> "dc auto link", id |-> req[p].id, n |-> req[p].n])
    /\ UNCHANGED <<demo, statFacts, demoLinks, evidence, objects, submissions, published>>

\* The best candidate match, if one is confident enough and the switch is on; the
\* existing link is read with it.
TryAutoLink(p) ==
    /\ At(p, "dc auto link")
    /\ \/ \E m \in DcMatches :
             /\ DemoOp("auto")
             /\ Continue(p, [pc |-> IF demoLinks[m].on THEN "dc auto stamp" ELSE "dc auto insert",
                             id |-> req[p].id, n |-> req[p].n, match |-> m])
       \/ Continue(p, [pc |-> "dc facts", id |-> req[p].id, n |-> req[p].n])
    /\ UNCHANGED dcTables

\* A failure is logged and the submission goes on.
AutoLink(p) ==
    /\ At(p, "dc auto insert")
    /\ create_link(req[p].id, req[p].match, "auto_matched")
    /\ Continue(p, [req[p] EXCEPT !.pc = IF demoLinks' # demoLinks THEN "dc auto stamp" ELSE "dc facts"])
    /\ UNCHANGED <<demo, demoPlayers, statFacts, evidence, objects, submissions, published>>

AutoStamp(p) ==
    /\ At(p, "dc auto stamp")
    /\ associate(req[p].id, DcTournamentOf[req[p].match], FALSE)
    /\ Continue(p, [pc |-> "dc facts", id |-> req[p].id, n |-> req[p].n])
    /\ UNCHANGED <<demoPlayers, statFacts, demoLinks, evidence, objects, submissions, published>>

\* The projection is replaced in one transaction; the backfill (n = 0) has none.
StoreStatFacts(p) ==
    /\ At(p, "dc facts")
    /\ statFacts' = IF DemoIs(req[p].id) /\ req[p].n # 0 THEN req[p].n ELSE statFacts
    /\ Finish(p)
    /\ UNCHANGED <<demo, demoPlayers, demoLinks, evidence, objects, submissions, published>>

\* process_unlinked_demos: the automatic pass over what is ready and unlinked.
ProcessUnlinked(p) ==
    /\ DemoOp("auto") /\ Catalogued /\ find_ready_unlinked
    /\ Request(p, [pc |-> "dc auto link", id |-> demo.id, n |-> 0])
    /\ UNCHANGED dcTables

-----------------------------------------------------------------------------
(* The scan command of portal-cli, run by hand and without the scanner's loop *)

run_scan(p) ==
    /\ DemoOp("cli") /\ DemoFile \in objects
    /\ Request(p, [pc |-> "dc cli catalog"])
    /\ UNCHANGED dcTables

\* Statistics are asked for of what this run created.
CliCatalog(p) ==
    /\ At(p, "dc cli catalog")
    /\ CreateDemoRow
    /\ IF Catalogued THEN Finish(p) ELSE Continue(p, [pc |-> "dc cli fetch", id |-> demo'.id])
    /\ UNCHANGED <<demoPlayers, statFacts, demoLinks, evidence, objects, submissions, published>>

process_stats(p) ==
    /\ DemoOp("cli") /\ Catalogued /\ find_pending_processing
    /\ Request(p, [pc |-> "dc cli fetch", id |-> demo.id])
    /\ UNCHANGED dcTables

\* The statistics service has none yet, or they are submitted.
fetch_and_submit_stats(p) ==
    /\ At(p, "dc cli fetch")
    /\ \/ published /\ Continue(p, [pc |-> "dc stats", id |-> req[p].id, n |-> 1])
       \/ Continue(p, [pc |-> "dc fetch failed", id |-> req[p].id])
    /\ UNCHANGED dcTables

\* mark_stats_failed, as the command and the scanner report it.
FetchFailed(p) ==
    /\ At(p, "dc fetch failed")
    /\ update_demo_status(req[p].id, "failed")
    /\ Finish(p)
    /\ UNCHANGED <<demoPlayers, statFacts, demoLinks, evidence, objects, submissions, published>>

-----------------------------------------------------------------------------
(* Single updates of the row by the admins and the scanner                  *)

MarkStatsFailed(p) ==
    /\ DemoOp("manage") /\ Catalogued
    /\ update_demo_status(demo.id, "failed")
    /\ Request(p, NoRequest)
    /\ UNCHANGED <<demoPlayers, statFacts, demoLinks, evidence, objects, submissions, published>>

RequeueDemo(p) ==
    /\ DemoOp("manage") /\ Catalogued
    /\ update_demo_status(demo.id, "pending")
    /\ Request(p, NoRequest)
    /\ UNCHANGED <<demoPlayers, statFacts, demoLinks, evidence, objects, submissions, published>>

SetDemoVisibility(p) ==
    /\ DemoOp("manage") /\ Catalogued
    /\ UpdateDemo(demo.id, [demo EXCEPT !.hidden = ~@])
    /\ Request(p, NoRequest)
    /\ UNCHANGED <<demoPlayers, statFacts, demoLinks, evidence, objects, submissions, published>>

AssociateDemo(p) ==
    /\ DemoOp("manage") /\ Catalogued
    /\ \E t \in {DcTournamentOf[m] : m \in DcMatches} : associate(demo.id, t, TRUE)
    /\ Request(p, NoRequest)
    /\ UNCHANGED <<demoPlayers, statFacts, demoLinks, evidence, objects, submissions, published>>

\* delete_demo: players, links and the row, one statement each.
DeleteDemo(p) ==
    /\ DemoOp("delete demo") /\ Catalogued
    /\ delete_players_by_demo(demo.id)
    /\ Request(p, [pc |-> "dc delete links", id |-> demo.id])
    /\ UNCHANGED <<demo, statFacts, demoLinks, evidence, objects, submissions, published>>

DeleteDemoLinks(p) ==
    /\ At(p, "dc delete links")
    /\ demoLinks' = IF DemoIs(req[p].id) THEN [m \in DcMatches |-> [demoLinks[m] EXCEPT !.on = FALSE]] ELSE demoLinks
    /\ Continue(p, [req[p] EXCEPT !.pc = "dc delete row"])
    /\ UNCHANGED <<demo, demoPlayers, statFacts, evidence, objects, submissions, published>>

\* What refers to the demo goes with it.
DeleteDemoRow(p) ==
    /\ At(p, "dc delete row")
    /\ LET there == DemoIs(req[p].id) IN
       /\ demo' = IF there THEN [UncataloguedDemo EXCEPT !.id = demo.id] ELSE demo
       /\ demoPlayers' = IF there THEN [s \in SteamIds |-> 0] ELSE demoPlayers
       /\ statFacts' = IF there THEN 0 ELSE statFacts
       /\ demoLinks' = IF there THEN [m \in DcMatches |-> [demoLinks[m] EXCEPT !.on = FALSE]] ELSE demoLinks
    /\ Finish(p)
    /\ UNCHANGED <<evidence, objects, submissions, published>>

-----------------------------------------------------------------------------
(* Attaching the demo to a match                                            *)

\* link_to_match first looks for the pair and refuses a second link.
AskLink(p, op, type) ==
    /\ DemoOp(op) /\ Catalogued
    /\ \E m \in DcMatches :
          /\ ~demoLinks[m].on
          /\ type = "evidence" => Len(evidence) < MaxEvidence
          /\ Request(p, [pc |-> "dc link", id |-> demo.id, match |-> m, type |-> type])
    /\ UNCHANGED dcTables

LinkDemoToMatch(p) == AskLink(p, "link", "manual")
LinkDemo(p) == AskLink(p, "attach", "evidence")

\* What was asked for by hand, with a suggested demo, or by a game server.
InsertLink(p) ==
    /\ At(p, "dc link")
    /\ create_link(req[p].id, req[p].match, req[p].type)
    /\ IF demoLinks' = demoLinks THEN Finish(p)
       ELSE Continue(p, [pc |-> "dc stamp", id |-> req[p].id, match |-> req[p].match, type |-> req[p].type,
                         link |-> demoLinks'[req[p].match].id])
    /\ UNCHANGED <<demo, demoPlayers, statFacts, evidence, objects, submissions, published>>

\* Where a link by hand or as evidence goes on.
Linked(p, r) ==
    IF r.type = "evidence" THEN Continue(p, [r EXCEPT !.pc = "dc evidence"]) ELSE Finish(p)

\* A link stamps the demo with the tournament of the match: the row is read ...
StampLink(p) ==
    /\ At(p, "dc stamp")
    /\ CASE ~DemoIs(req[p].id) -> Finish(p)
         [] DemoIs(req[p].id) /\ demo.stamp # DcTournamentOf[req[p].match] ->
                Continue(p, [req[p] EXCEPT !.pc = "dc write stamp"])
         [] OTHER -> Linked(p, req[p])
    /\ UNCHANGED dcTables

\* ... and written.
WriteStamp(p) ==
    /\ At(p, "dc write stamp")
    /\ associate(req[p].id, DcTournamentOf[req[p].match], FALSE)
    /\ IF DemoIs(req[p].id) THEN Linked(p, req[p]) ELSE Finish(p)
    /\ UNCHANGED <<demoPlayers, statFacts, demoLinks, evidence, objects, submissions, published>>

\* link_discovered: the evidence row names the demo's own file.
InsertDemoEvidence(p) ==
    /\ At(p, "dc evidence")
    /\ evidence' = Append(evidence, [EvidenceRow("demo", req[p].match, "active", req[p].link)
                                        EXCEPT !.demo = req[p].id])
    /\ Finish(p)
    /\ UNCHANGED <<demo, demoPlayers, statFacts, demoLinks, objects, submissions, published>>

-----------------------------------------------------------------------------
(* Detaching: the pointer goes first, then the stamp, the file and the row  *)

\* Where the deletion of the named evidence rows goes on after the unlink.
DeleteRows(p, rows) ==
    IF rows = {} THEN Finish(p) ELSE Continue(p, [pc |-> "dc delete file", rows |-> rows])

\* DELETE evidence: of a demo's row the link to the match of the path is removed if it
\* is there; nothing compares that match with the row's.  The row may have been deleted
\* before (a repeated call).
DeleteEvidence(p) ==
    /\ DemoOp("delete evidence")
    /\ \E i \in DOMAIN evidence, m \in DcMatches :
       /\ evidence[i].status = "deleted" => DemoOp("delete again")
       /\ m # evidence[i].match => DemoOp("other match")
       /\ Request(p, IF evidence[i].kind = "demo"
                     THEN [pc |-> "dc unlink", match |-> m, rows |-> {i}, must |-> FALSE]
                     ELSE [pc |-> "dc delete file", rows |-> {i}])
    /\ UNCHANGED dcTables

\* The admin's unlink collects the evidence first, and asks for a link.
UnlinkDemoFromMatch(p) ==
    /\ DemoOp("unlink") /\ Catalogued
    /\ \E m \in DcMatches :
          Request(p, [pc |-> "dc unlink", match |-> m, rows |-> evidence_ids_by_demo(m), must |-> TRUE])
    /\ UNCHANGED dcTables

\* Mutant: file and row are deleted before the link is looked up.
FindLinkLast(p) ==
    /\ At(p, "dc unlink")
    /\ DeleteRows(p, req[p].rows)
    /\ UNCHANGED dcTables

FindLink(p) ==
    /\ At(p, "dc unlink")
    /\ LET m == req[p].match IN
       IF demoLinks[m].on
       THEN Continue(p, [pc |-> "dc unlink row", id |-> demo.id, match |-> m, rows |-> req[p].rows,
                         link |-> demoLinks[m].id])
       ELSE IF req[p].must THEN Finish(p) ELSE DeleteRows(p, req[p].rows)
    /\ UNCHANGED dcTables

DeleteLink(p) ==
    /\ At(p, "dc unlink row")
    /\ delete_link(req[p].match, req[p].link)
    /\ Continue(p, [pc |-> "dc unstamp", id |-> req[p].id, match |-> req[p].match, rows |-> req[p].rows])
    /\ UNCHANGED <<demo, demoPlayers, statFacts, evidence, objects, submissions, published>>

\* Nothing else links the demo to the tournament it is stamped with ...
ClearStamp(p) ==
    /\ At(p, "dc unstamp")
    /\ LET t == DcTournamentOf[req[p].match] IN
       CASE ~DemoIs(req[p].id) -> Finish(p)
         [] /\ DemoIs(req[p].id) /\ demo.stamp = t
            /\ \A m \in DcMatches : demoLinks[m].on => DcTournamentOf[m] # t ->
                Continue(p, [req[p] EXCEPT !.pc = "dc write unstamp"])
         [] OTHER -> DeleteRows(p, req[p].rows)
    /\ UNCHANGED dcTables

\* ... clear it.
WriteCleared(p) ==
    /\ At(p, "dc write unstamp")
    /\ associate(req[p].id, NoTournament, FALSE)
    /\ IF DemoIs(req[p].id) THEN DeleteRows(p, req[p].rows) ELSE Finish(p)
    /\ UNCHANGED <<demoPlayers, statFacts, demoLinks, evidence, objects, submissions, published>>

\* The file of a row: the demo's own, the upload's, or none for an address.
FileOf(i) == CASE evidence[i].kind = "demo" -> {DemoFile} [] evidence[i].kind = "upload" -> {i} [] OTHER -> {}

DeleteFile(p) ==
    /\ At(p, "dc delete file")
    /\ \E i \in req[p].rows :
          /\ objects' = objects \ FileOf(i)
          /\ Continue(p, [pc |-> "dc mark deleted", row |-> i, rows |-> req[p].rows \ {i}])
    /\ UNCHANGED <<demo, demoPlayers, statFacts, demoLinks, evidence, submissions, published>>

MarkDeleted(p) ==
    /\ At(p, "dc mark deleted")
    /\ update_evidence_status(req[p].row, "deleted")
    /\ DeleteRows(p, req[p].rows)
    /\ UNCHANGED <<demo, demoPlayers, statFacts, demoLinks, objects, submissions, published>>

-----------------------------------------------------------------------------
(* Uploads, addresses and the evidence sweep                                *)

InitiateUpload(p) ==
    /\ DemoOp("upload") /\ Len(evidence) < MaxEvidence
    /\ \E m \in DcMatches : evidence' = Append(evidence, EvidenceRow("upload", m, "pending", 0))
    /\ Request(p, NoRequest)
    /\ UNCHANGED <<demo, demoPlayers, statFacts, demoLinks, objects, submissions, published>>

\* The client puts the file under the presigned address (no request to the portal).
\* The address outlives whatever happens to the row by an hour at most; the row is
\* swept after that.
PutObject ==
    /\ scenario.of = "demos" /\ (scenario.serial => Quiescent)
    /\ \E i \in DOMAIN evidence :
          /\ evidence[i].kind = "upload" /\ evidence[i].status = "pending" /\ i \notin objects
          /\ objects' = objects \cup {i}
    /\ UNCHANGED <<requestVars, demo, demoPlayers, statFacts, demoLinks, evidence, submissions, published>>

CompleteUpload(p) ==
    /\ DemoOp("upload")
    /\ \E i \in DOMAIN evidence :
          /\ evidence[i].status = "pending" /\ i \in objects
          /\ Request(p, [pc |-> "dc activate", row |-> i])
    /\ UNCHANGED dcTables

ActivateUpload(p) ==
    /\ At(p, "dc activate")
    /\ update_evidence_status(req[p].row, "active")
    /\ Finish(p)
    /\ UNCHANGED <<demo, demoPlayers, statFacts, demoLinks, objects, submissions, published>>

AddLink(p) ==
    /\ DemoOp("upload") /\ Len(evidence) < MaxEvidence
    /\ \E m \in DcMatches : evidence' = Append(evidence, EvidenceRow("url", m, "active", 0))
    /\ Request(p, NoRequest)
    /\ UNCHANGED <<demo, demoPlayers, statFacts, demoLinks, objects, submissions, published>>

\* Rows whose retention ended, and uploads that were never completed.
find_expired == {i \in DOMAIN evidence : evidence[i].status = "active"}
find_stale_pending == {i \in DOMAIN evidence : evidence[i].status = "pending"}

\* Each row the sweep found: its file, then its status.
SweepEvidence(p) ==
    /\ DemoOp("sweep")
    /\ \/ \E i \in find_expired : Wake(p, [pc |-> "dc sweep file", row |-> i, to |-> "expired"])
       \/ \E i \in find_stale_pending : Wake(p, [pc |-> "dc sweep file", row |-> i, to |-> "deleted"])
    /\ UNCHANGED dcTables

SweepFile(p) ==
    /\ At(p, "dc sweep file")
    /\ objects' = objects \ FileOf(req[p].row)
    /\ Continue(p, [req[p] EXCEPT !.pc = "dc sweep row"])
    /\ UNCHANGED <<demo, demoPlayers, statFacts, demoLinks, evidence, submissions, published>>

SweepRow(p) ==
    /\ At(p, "dc sweep row")
    /\ update_evidence_status(req[p].row, req[p].to)
    /\ Finish(p)
    /\ UNCHANGED <<demo, demoPlayers, statFacts, demoLinks, objects, submissions, published>>

-----------------------------------------------------------------------------
(* Validating a claimed score against the catalogue                         *)

\* The Steam IDs of a participant: those of its player, and none of a team's.
steam_ids(i) == IF scenario.teams THEN {} ELSE DcSides[i]

\* The team most of a side's Steam IDs play for; none when it is a tie.
team_of(side) ==
    LET on(t) == Cardinality({s \in side \cap SteamIds : demoPlayers[s] # 0 /\ DcTeamOf[s] = t})
        teams == {DcTeamOf[s] : s \in SteamIds}
    IN  {t \in teams : on(t) > 0 /\ \A u \in teams \ {t} : on(u) < on(t)}

Oriented ==
    /\ team_of(steam_ids(1)) # {} /\ team_of(steam_ids(2)) # {}
    /\ team_of(steam_ids(1)) # team_of(steam_ids(2))

\* The claim is the demo's score, the score with the sides swapped, or another one.
validate_against_catalog(claim) ==
    \/ claim = "same"
    \/ claim = "swapped" /\ ~Oriented

\* The verdict is computed from the parsed demo, and stored on the evidence.
ValidateEvidence(p) ==
    /\ DemoOp("validate")
    /\ \E i \in DOMAIN evidence, claim \in {"same", "swapped", "other"} :
          /\ evidence[i].kind = "demo" /\ DemoIs(evidence[i].demo) /\ demo.stats # 0
          /\ Request(p, [pc |-> "dc verdict", row |-> i, claim |-> claim,
                         verdict |-> IF validate_against_catalog(claim) THEN "valid" ELSE "invalid"])
    /\ UNCHANGED dcTables

RecordValidation(p) ==
    /\ At(p, "dc verdict")
    /\ evidence' = [evidence EXCEPT ![req[p].row].verdict = req[p].verdict, ![req[p].row].claim = req[p].claim]
    /\ LET m == evidence[req[p].row].match IN
       IF demoLinks[m].on
       THEN Continue(p, [pc |-> "dc link verdict", match |-> m, link |-> demoLinks[m].id, verdict |-> req[p].verdict])
       ELSE Finish(p)
    /\ UNCHANGED <<demo, demoPlayers, statFacts, demoLinks, objects, submissions, published>>

RecordLinkValidation(p) ==
    /\ At(p, "dc link verdict")
    /\ mark_link_validated(req[p].match, req[p].link, req[p].verdict)
    /\ Finish(p)
    /\ UNCHANGED <<demo, demoPlayers, statFacts, evidence, objects, submissions, published>>

-----------------------------------------------------------------------------
DemoDies(p) == scenario.of = "demos" /\ Die(p) /\ UNCHANGED dcTables

CatalogStep(p) ==
    \/ CatalogDemo(p) \/ InsertDemo(p) \/ PostDemo(p) \/ InsertPosted(p) \/ FindPair(p)
    \/ SubmitDemoStats(p) \/ ProcessPending(p) \/ internal_submit_demo_stats(p) \/ NotYetParsed(p)
    \/ StatsFetchFailed(p) \/ SaveStats(p)
    \/ ClearPlayers(p) \/ InsertPlayer(p) \/ TryAutoLink(p) \/ AutoLink(p) \/ AutoStamp(p)
    \/ StoreStatFacts(p) \/ ProcessUnlinked(p) \/ MarkStatsFailed(p) \/ RequeueDemo(p)
    \/ run_scan(p) \/ CliCatalog(p) \/ process_stats(p) \/ fetch_and_submit_stats(p) \/ FetchFailed(p)
    \/ SetDemoVisibility(p) \/ AssociateDemo(p) \/ DeleteDemo(p) \/ DeleteDemoLinks(p) \/ DeleteDemoRow(p)

EvidenceStep(p) ==
    \/ LinkDemoToMatch(p) \/ LinkDemo(p) \/ InsertLink(p) \/ StampLink(p) \/ WriteStamp(p) \/ InsertDemoEvidence(p)
    \/ DeleteEvidence(p) \/ UnlinkDemoFromMatch(p) \/ FindLink(p) \/ DeleteLink(p) \/ ClearStamp(p) \/ WriteCleared(p)
    \/ DeleteFile(p) \/ MarkDeleted(p) \/ InitiateUpload(p) \/ CompleteUpload(p) \/ ActivateUpload(p)
    \/ AddLink(p) \/ SweepEvidence(p) \/ SweepFile(p) \/ SweepRow(p)
    \/ ValidateEvidence(p) \/ RecordValidation(p) \/ RecordLinkValidation(p)

DcNext ==
    \/ PutObject \/ PublishStats
    \/ \E p \in Tasks : CatalogStep(p) \/ EvidenceStep(p) \/ DemoDies(p)

\* A task that runs makes progress; the scanner asks for unfinished demos for ever, and
\* does not fail every time at what the service has.
DcFairness ==
    /\ WF_dcVars(\E p \in Tasks : req[p] # NoRequest /\ (CatalogStep(p) \/ EvidenceStep(p)))
    /\ WF_dcVars(ProcessPending(Pass))
    /\ SF_dcVars(internal_submit_demo_stats(Pass))

DcSpec == RequestsInit /\ DcInit /\ [][DcNext]_dcVars
DcFairSpec == DcSpec /\ DcFairness

-----------------------------------------------------------------------------
(* Properties                                                               *)

\* Undisturbed: requests do not overlap and none was interrupted.
DemoCalm == scenario.of = "demos" /\ scenario.serial /\ crashes = 0 /\ Quiescent

\* The rows of demos, demo_match_links and match_evidence.
DemoRow ==
    [id : Nat, status : DemoStatus \cup {"none"}, stats : Nat, hidden : BOOLEAN, byHand : BOOLEAN,
     stamp : {DcTournamentOf[m] : m \in DcMatches} \cup {NoTournament}]
DemoMatchLinkRow ==
    [id : Nat, on : BOOLEAN, type : DemoLinkType, verdict : {"none", "valid", "invalid"}]
MatchEvidenceRow ==
    [kind : {"demo", "upload", "url"}, match : DcMatches, status : EvidenceStatus, link : Nat,
     demo : Nat, verdict : {"none", "valid", "invalid"}, claim : {"none", "same", "swapped", "other"}]

\* Types, and what the unique keys and foreign keys say: a demo that is not
\* catalogued has neither players nor links (migrations/0040_demos.sql).
DcTypeOK ==
    /\ RequestsTypeOK
    /\ demo \in DemoRow
    /\ ~Catalogued => /\ \A s \in SteamIds : demoPlayers[s] = 0
                      /\ \A m \in DcMatches : ~demoLinks[m].on
    /\ demoLinks \in [DcMatches -> DemoMatchLinkRow]
    /\ \A i \in DOMAIN evidence : evidence[i] \in MatchEvidenceRow
    /\ objects \subseteq {DemoFile} \cup DOMAIN evidence
    /\ published \in BOOLEAN

\* No link points at a deleted evidence row, whatever overlaps or dies: the pointer
\* goes first (handlers/evidence.rs, delete_evidence; P-157), as long as whoever deletes
\* evidence names its match.
NoPointerIntoHole ==
    ~DemoOp("other match") => \A i \in DOMAIN evidence :
        (evidence[i].kind = "demo" /\ evidence[i].status = "deleted") =>
            LET link == demoLinks[evidence[i].match]
            IN  ~(link.on /\ link.id = evidence[i].link /\ demo.id = evidence[i].demo)

\* A demo that is evidence for a match is linked to it: both ways of detaching
\* remove both rows (handlers/demos.rs, unlink_demo_from_match; P-158), while nobody
\* repeats a deletion or names another match for it.
EvidenceHasLink ==
    (DemoCalm /\ ~DemoOp("delete again") /\ ~DemoOp("other match")) => \A i \in DOMAIN evidence :
        (evidence[i].kind = "demo" /\ evidence[i].status = "active" /\ DemoIs(evidence[i].demo)) =>
            demoLinks[evidence[i].match].on

\* The tournament a demo counts for is one it is linked to, unless an admin set it by
\* hand: roll-ups never keep counting a demo that was detached (unlink_from_match_if_linked).
StampIsLinked ==
    (DemoCalm /\ Catalogued /\ demo.stamp # NoTournament /\ ~demo.byHand) =>
        \E m \in DcMatches : demoLinks[m].on /\ DcTournamentOf[m] = demo.stamp

\* The player rows of a demo are those of the statistics it shows, all of them, and
\* so is the projection, however often statistics are submitted again (save_demo_stats).
PlayersMatchStats ==
    (DemoCalm /\ Catalogued /\ demo.status = "ready") =>
        /\ \A s \in SteamIds : demoPlayers[s] = IF s \in PlayersIn(demo.stats) THEN demo.stats ELSE 0
        /\ statFacts = demo.stats

\* An active upload has its file (complete_upload, delete_evidence, process_expired).
UploadHasFile ==
    DemoCalm => \A i \in DOMAIN evidence :
        (evidence[i].kind = "upload" /\ evidence[i].status = "active") => i \in objects

\* The verdict on the only evidence row of a match and the one on its link agree
\* (validate_evidence; P-111), and a claim the demo contradicts is never valid, but
\* for the sides where the demo's players cannot be told apart by them: a match of
\* teams, or a demo without players (validate_against_catalog).
VerdictsAgree ==
    DemoCalm => \A i \in DOMAIN evidence :
        /\ evidence[i].verdict = "valid" =>
              \/ evidence[i].claim = "same"
              \/ evidence[i].claim = "swapped" /\ (scenario.teams \/ scenario.empty # {})
        /\ LET link == demoLinks[evidence[i].match]
           IN  (evidence[i].kind = "demo" /\ link.on /\ link.id = evidence[i].link /\ DemoIs(evidence[i].demo)
                /\ \A j \in DOMAIN evidence \ {i} : evidence[j].match # evidence[i].match) =>
                   link.verdict = evidence[i].verdict

\* A catalogued demo whose statistics the service has under its name, with players in
\* them, ends up ready with players, whichever statement of a submission was the last
\* one before the process died and however often the fetch failed before
\* (find_pending_processing).  One the service never publishes stays pending.
StatsLand ==
    (scenario.of = "demos" /\ DemoOp("scan") /\ Catalogued /\ published /\ 1 \notin scenario.empty) ~>
        (~Catalogued \/ (demo.status = "ready" /\ \E s \in SteamIds : demoPlayers[s] # 0))

\* Evidence, links, files, players and statistics of a demo agree, however it
\* was attached, detached, parsed or deleted.
CatalogueAgrees ==
    DcTypeOK /\ NoPointerIntoHole /\ EvidenceHasLink /\ StampIsLinked /\ PlayersMatchStats
    /\ UploadHasFile /\ VerdictsAgree

=============================================================================
