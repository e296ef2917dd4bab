----------------------------- MODULE MCMatchDay -----------------------------
(***************************************************************************)
(* What surrounds the playing of one match: agreeing on a time, the veto   *)
(* and its lobby, pick-up games, and the game servers.  The components     *)
(* share the request machinery of Requests; a scenario exercises one of    *)
(* them and leaves the others' tables alone.                               *)
(***************************************************************************)
EXTENDS VetoSession, VetoLobby, VetoChat, Pugs, GameServers, ServerOps, Schedule,
        Availability, Cs2Match

Scenario(of, n, c, s) == [of |-> of, requests |-> n, crashes |-> c, serial |-> s]

BanPickDecider == <<Step(1, "ban"), Step(2, "pick"), Step(0, "decider")>>
Picking == [format |-> BanPickDecider, pool |-> 1..3, mode |-> "picker_choice"]
Wheel == [format |-> wheel(2), pool |-> 1..2, mode |-> "coin_flip"]
MCVetoSetups == {Picking, Wheel}
VetoScenarios ==
    {Scenario("veto", 1, 0, FALSE) @@ [setups |-> {Picking}],
     Scenario("veto", 2, 0, FALSE) @@ [setups |-> {Wheel}],
     Scenario("veto", 4, 1, TRUE) @@ [setups |-> MCVetoSetups]}

MCSocketRole == [s \in Sockets |-> IF s = "k3" THEN "red" ELSE "blue"]
LobbyScenarios == {Scenario("lobby", 0, 0, FALSE)}

MCChSides == <<"blue", "red">>
MCChSpeaks ==
    ("cap" :> [blue |-> "member", red |-> "nobody"])
    @@ ("rival" :> [blue |-> "nobody", red |-> "member"])
    @@ ("staff" :> [blue |-> "tournament_admin", red |-> "tournament_admin"])
    @@ ("fan" :> [blue |-> "nobody", red |-> "nobody"])
ChatScenario(people, chat, server, faults) ==
    Scenario("chat", 0, 0, FALSE) @@
        [people |-> people, chat |-> chat, server |-> server, faults |-> faults]
ChatScenarios ==
    {ChatScenario({"cap", "rival"}, 3, FALSE, FALSE), ChatScenario({"cap", "fan"}, 2, FALSE, TRUE),
     ChatScenario({"cap", "staff", "fan"}, 1, TRUE, FALSE)}

AB == ("a" :> 1) @@ ("b" :> 2)
BA == ("a" :> 2) @@ ("b" :> 1)
PugScenarios ==
    {Scenario("pug", 2, 0, FALSE) @@ [lobby |-> AB],
     Scenario("pug", 2, 1, TRUE) @@ [lobby |-> BA],
     Scenario("pug", 3, 0, TRUE) @@ [lobby |-> BA]}

ServerScenario(n, c, lost, queue) ==
    Scenario("servers", n, c, TRUE) @@ [servers |-> {"s1"}, lost |-> lost, queue |-> queue]
ServerScenarios ==
    {ServerScenario(0, 0, 1, <<"m1">>), ServerScenario(1, 0, 0, <<"m1">>),
     ServerScenario(1, 1, 0, <<>>)}

OpsScenario(n, c, s, ops, enrolled, faults, approval) ==
    Scenario("ops", n, c, s) @@
        [ops |-> ops, enrolled |-> enrolled, faults |-> faults, matches |-> {"m1"},
         approval |-> approval]
MCSoRosters == ("m1" :> <<{"a", "b"}, {"x"}>>) @@ ("m2" :> <<{"a"}, {"y"}>>)
OpsScenarios ==
    {OpsScenario(2, 1, FALSE, {"registry", "enroll", "revoke", "match", "booking"}, TRUE, {}, FALSE),
     OpsScenario(2, 0, FALSE, {"agent", "enroll"}, TRUE, {}, FALSE),
     OpsScenario(2, 1, TRUE, {"subs", "match", "halftime"}, TRUE, {}, FALSE),
     OpsScenario(3, 0, TRUE, {"subs", "match"}, TRUE, {"lost"}, TRUE),
     OpsScenario(2, 1, TRUE, {"console", "match", "hold_ends"}, TRUE, {"lost"}, FALSE),
     OpsScenario(3, 0, TRUE, {"registry", "enroll", "revoke", "agent", "booking"}, FALSE, {}, FALSE),
     OpsScenario(4, 1, TRUE, {"backup", "match"}, TRUE, {"lost"}, FALSE)}

MCSdRoster == ("A" :> {"a1", "a2"}) @@ ("B" :> {"b1"})
MCSdCaptains == ("A" :> {"a1"}) @@ ("B" :> {"b1"})
MCSdOwner == ("A" :> "o") @@ ("B" :> "b1")
ScheduleScenario(n, c, s, kind, ops) ==
    Scenario("schedule", n, c, s) @@ [kind |-> kind, ops |-> ops]
ScheduleScenarios ==
    {ScheduleScenario(2, 0, FALSE, "team", {"propose", "answer", "cancel", "expire"}),
     ScheduleScenario(3, 0, TRUE, "team", {"propose", "answer", "cancel", "counter", "expire"}),
     ScheduleScenario(3, 0, TRUE, "team", {"propose", "cancel", "admin", "leave"}),
     ScheduleScenario(2, 1, TRUE, "team", {"propose", "counter", "answer", "admin"}),
     ScheduleScenario(2, 0, TRUE, "team", {"propose", "answer", "move"}),
     ScheduleScenario(3, 0, TRUE, "individual", {"propose", "answer", "act"}),
     ScheduleScenario(3, 0, TRUE, "adhoc", {"propose", "answer", "act"}),
     ScheduleScenario(3, 0, TRUE, "team", {"act", "delegate", "leave"})}

Window(owner, a, b, pref) == [owner |-> owner, start |-> a, end |-> b, preferred |-> pref]
Override(owner, type, a, b) ==
    [owner |-> owner, type |-> type, allday |-> FALSE, start |-> a, end |-> b]
FreeTimeScenario(n, c, s, ops, windows, overrides) ==
    Scenario("availability", n, c, s) @@
        [ops |-> ops, windows |-> windows, overrides |-> overrides,
         registrant |-> ("r1" :> "c1") @@ ("r2" :> "c2"), staff |-> {"z"}]
TwoCalendars == {Window("r1", 0, 3, TRUE), Window("r2", 1, 4, FALSE)}
Blocked == <<Override("r2", "blocked", 3, 4)>>
FreeTimeScenarios ==
    {FreeTimeScenario(2, 0, FALSE, {"window"}, {}, <<>>),
     FreeTimeScenario(2, 0, FALSE, {"suggest"}, TwoCalendars, Blocked),
     FreeTimeScenario(2, 0, TRUE, {"window", "override"}, {Window("p", 1, 3, TRUE)}, <<>>),
     FreeTimeScenario(2, 0, TRUE, {"update", "window"},
                      {Window("p", 0, 2, TRUE), Window("p", 2, 4, FALSE)}, <<>>),
     FreeTimeScenario(2, 1, TRUE, {"suggest"}, TwoCalendars, Blocked)}
    \cup {FreeTimeScenario(1, 0, TRUE, {"suggest"},
                           {Window("r1", a, b, TRUE), Window("r1", 0, 1, FALSE),
                            Window("r2", c, 4, TRUE)}, <<Override("r1", type, d, 4)>>) :
            a \in {1, 2}, b \in {3, 4}, c \in {0, 1}, type \in {"blocked", "available"},
            d \in {2, 3}}

\* Two matches waiting for the only server.
TwoQueued == {ServerScenario(0, 0, 0, <<"m1", "m2">>)}

MCScenarios == VetoScenarios \cup LobbyScenarios \cup ChatScenarios \cup PugScenarios \cup ServerScenarios \cup TwoQueued
                \cup OpsScenarios \cup ScheduleScenarios \cup FreeTimeScenarios

\* The same components, one request at a time: for what must happen in the end.
LiveScenarios ==
    {Scenario("veto", 2, 1, TRUE) @@ [setups |-> {Picking}],
     Scenario("pug", 1, 1, TRUE) @@ [lobby |-> BA],
     Scenario("pug", 2, 0, TRUE) @@ [lobby |-> BA],
     OpsScenario(1, 1, TRUE, {"subs", "match", "halftime"}, TRUE, {}, FALSE),
     ScheduleScenario(2, 0, TRUE, "team", {"propose", "answer", "counter", "expire"})}
    \cup ServerScenarios

-----------------------------------------------------------------------------
tables == <<vetoTables, lobbyTables, chTables, pugTables, gsTables, soTables, sdTables, avTables>>
vars == <<requestVars, tables>>

Init ==
    /\ RequestsInit
    /\ VetoInit /\ LobbyInit /\ ChInit /\ PugInit /\ GsInit /\ SoInit /\ SdInit /\ AvInit

Next ==
    \/ /\ scenario.of = "veto" /\ VetoNext
       /\ UNCHANGED <<lobbyTables, chTables, pugTables, gsTables, soTables, sdTables, avTables>>
    \/ /\ scenario.of = "lobby" /\ LobbyNext
       /\ UNCHANGED <<vetoTables, chTables, pugTables, gsTables, soTables, sdTables, avTables>>
    \/ /\ scenario.of = "chat" /\ ChNext
       /\ UNCHANGED <<vetoTables, lobbyTables, pugTables, gsTables, soTables, sdTables, avTables>>
    \/ /\ scenario.of = "pug" /\ PugNext
       /\ UNCHANGED <<vetoTables, lobbyTables, chTables, gsTables, soTables, sdTables, avTables>>
    \/ /\ scenario.of = "servers" /\ GsNext
       /\ UNCHANGED <<vetoTables, lobbyTables, chTables, pugTables, soTables, sdTables, avTables>>
    \/ /\ scenario.of = "ops" /\ SoNext
       /\ UNCHANGED <<vetoTables, lobbyTables, chTables, pugTables, gsTables, sdTables, avTables>>
    \/ /\ scenario.of = "schedule" /\ SdNext
       /\ UNCHANGED <<vetoTables, lobbyTables, chTables, pugTables, gsTables, soTables, avTables>>
    \/ /\ scenario.of = "availability" /\ AvNext
       /\ UNCHANGED <<vetoTables, lobbyTables, chTables, pugTables, gsTables, soTables, sdTables>>

Spec == Init /\ [][Next]_vars

\* Every component under the fairness of its own tasks.
FairSpec ==
    /\ Spec
    /\ \/ scenario.of = "veto" /\ VetoFairness
       \/ scenario.of = "pug" /\ PugFairness
       \/ scenario.of = "servers" /\ GsFairness
       \/ scenario.of = "ops" /\ SoFairness
       \/ scenario.of = "schedule" /\ SdFairness

\* What the sides of a match agree on and tell each other can be relied on:
\* its time comes from their negotiation and from calendars that tell the
\* truth, their chat reaches whom it is meant for, each is asked for what is
\* its turn, and the server is told the maps and sides their veto ended with
\* (scheduling.rs, availability.rs, veto_ws.rs, action_item.rs, matchzy.rs).
SidesUnderstandEachOther ==
    ProposalsAreSound /\ SlotsAreSound /\ ChatIsSound /\ ItemsAreSound /\ ConfigIsSound

\* Nothing of a match day waits for ever for somebody who does not come: a
\* proposal is answered or expires, a veto is played or timed out, a pick-up
\* game ends, a substitution is applied or refused, a reservation is released.
MatchDayMovesOn == DueProposalExpires /\ VetoEnds /\ PugEnds /\ ApplyingSettles /\ ReservationEnds

=============================================================================
