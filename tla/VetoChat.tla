------------------------------ MODULE VetoChat ------------------------------
(***************************************************************************)
(* What the sockets in the lobby of a match tell each other: who a socket  *)
(* speaks as, the chat it starts from, the messages it sends and the       *)
(* broadcasts it forwards to its client.  A socket subscribes when it      *)
(* joins, reads the history afterwards, and only then takes broadcasts     *)
(* from its receiver; a message is inserted first and broadcast second.  A *)
(* receiver that is too far behind skips what the channel no longer holds. *)
(* Who is in the lobby is VetoLobby's subject.                             *)
(***************************************************************************)
EXTENDS Requests, Sequences, FiniteSets, SequencesExt

CONSTANTS
    ChSockets,      \* the sockets that may be open
    ChSides,        \* the registrations of the match, in order
    ChUsers,        \* the people who open sockets
    ChSpeaks,       \* ChSpeaks[u][r]: "member", "tournament_admin" or "nobody"
    ChStaff,        \* users who may manage every tournament
    MAX_HISTORY,    \* max_history_messages
    BROADCAST_CAPACITY  \* broadcasts the channel holds for a receiver

VARIABLES
    ch_messages,    \* veto_lobby_messages of the match, by created_at
    ch_socket,      \* ch_socket[s]: its phase, who it speaks as
    ch_queue,       \* ch_queue[s]: broadcasts its receiver has not taken yet, in order
    ch_seen         \* ch_seen[s]: what its client has been sent

chTables == <<ch_messages, ch_socket, ch_queue, ch_seen>>
chVars == <<requestVars, chTables>>

ASSUME ChatAssumption ==
    /\ MAX_HISTORY \in Nat \ {0} /\ BROADCAST_CAPACITY \in Nat \ {0}
    /\ \A u \in ChUsers, i \in DOMAIN ChSides :
          ChSpeaks[u][ChSides[i]] \in {"member", "tournament_admin", "nobody"}

\* The two types a client may choose; nothing writes admin or system ones.
VetoMessageType == {"team", "all"}
NoSide == "none"
VetoLobbyMessage == [type : VetoMessageType, team : {ChSides[i] : i \in DOMAIN ChSides} \cup {NoSide}]

\* A scenario says who opens sockets, how many messages are written at most,
\* and whether the match gets a server.
Chatting == scenario.of = "chat"
NoSocket == [at |-> "closed"]
ChInit ==
    /\ ch_messages = << >>
    /\ ch_socket = [s \in ChSockets |-> NoSocket]
    /\ ch_queue = [s \in ChSockets |-> << >>]
    /\ ch_seen = [s \in ChSockets |-> {}]

-----------------------------------------------------------------------------
(* Who a socket speaks as.                                                 *)

Participant(r) == [role |-> "participant", side |-> r]
Spectator == [role |-> "spectator", side |-> NoSide]
Admin == [role |-> "admin", side |-> NoSide]

\* The first registration the user may act for decides.
authenticate_user(u) ==
    LET mine == {i \in DOMAIN ChSides : ChSpeaks[u][ChSides[i]] # "nobody"}
        first == ChSides[CHOOSE i \in mine : \A j \in mine : i <= j] IN
    IF mine # {}
    THEN IF ChSpeaks[u][first] = "tournament_admin" THEN Admin ELSE Participant(first)
    ELSE IF u \in ChStaff THEN Admin ELSE Spectator

is_visible_to_team(m, r) == m.type = "team" => m.team = r
is_visible_to_spectators(m) == m.type # "team"
Visible(m, c) ==
    IF c.role = "participant" THEN is_visible_to_team(m, c.side) ELSE is_visible_to_spectators(m)

\* What is broadcast: a message by its row, or that the match has a server.
Chat(i) == [kind |-> "chat", id |-> i]
ServerAssignment == [kind |-> "server_assignment_update", id |-> 0]

\* What a client is sent of a broadcast: of a server a spectator learns the
\* status and the others how to connect.
filter_broadcast_for_connection(b, c) ==
    IF b.kind = "chat"
    THEN IF Visible(ch_messages[b.id], c) THEN {b} ELSE {}
    ELSE {[kind |-> IF c.role = "spectator" THEN "status" ELSE "connect", id |-> 0]}

-----------------------------------------------------------------------------
(* Joining.                                                                *)

Joined(s) == ch_socket[s] # NoSocket
Live(s) == Joined(s) /\ ch_socket[s].at \in {"live", "sending"}

\* The first message authenticates; joining subscribes.
handle_socket(s) ==
    /\ ~Joined(s)
    /\ \E u \in scenario.people :
          ch_socket' = [ch_socket EXCEPT ![s] =
                [at |-> "history", who |-> authenticate_user(u), got |-> {}, id |-> 0,
                 before |-> 0, skipped |-> {}]]
    /\ UNCHANGED <<ch_messages, ch_queue, ch_seen>>

\* ORDER BY created_at ASC LIMIT: the oldest ones.
Oldest(ids) == {i \in ids : Cardinality({j \in ids : j < i}) < MAX_HISTORY}
list_public_messages == Oldest({i \in DOMAIN ch_messages : ch_messages[i].type # "team"})
list_team_messages(r) ==
    Oldest({i \in DOMAIN ch_messages : ch_messages[i].type = "team" /\ ch_messages[i].team = r})

\* The client is sent the history and the main loop begins.
Sent(s, ids) ==
    /\ ch_seen' = [ch_seen EXCEPT ![s] = {Chat(i) : i \in ids}]
    /\ ch_socket' = [ch_socket EXCEPT ![s].at = "live", ![s].got = ids]
    /\ UNCHANGED <<ch_messages, ch_queue>>

get_spectator_history(s) ==
    /\ Joined(s) /\ ch_socket[s].at = "history"
    /\ ch_socket[s].who.role # "participant"
    /\ Sent(s, list_public_messages)

\* A participant's history is two queries, merged and cut.
PublicHistory(s) ==
    /\ Joined(s) /\ ch_socket[s].at = "history"
    /\ ch_socket[s].who.role = "participant"
    /\ ch_socket' = [ch_socket EXCEPT ![s].at = "team history", ![s].got = list_public_messages]
    /\ UNCHANGED <<ch_messages, ch_queue, ch_seen>>

get_participant_history(s) ==
    /\ Joined(s) /\ ch_socket[s].at = "team history"
    /\ Sent(s, Oldest(ch_socket[s].got \cup list_team_messages(ch_socket[s].who.side)))

\* A query that fails is passed over: the main loop begins without a history.
HistoryFails(s) ==
    /\ Joined(s) /\ ch_socket[s].at \in {"history", "team history"}
    /\ scenario.faults
    /\ ch_socket' = [ch_socket EXCEPT ![s].at = "live", ![s].got = {}, ![s].before = Len(ch_messages)]
    /\ UNCHANGED <<ch_messages, ch_queue, ch_seen>>

-----------------------------------------------------------------------------
(* Talking.                                                                *)

can_send_team_chat(c) == c.role = "participant"

\* Every receiver gets a copy, and the connections filter.  The channel overwrites
\* its oldest broadcast when it is full, whoever has not taken it yet.
Overrun(s) == Len(ch_queue[s]) = BROADCAST_CAPACITY
broadcast(b) ==
    ch_queue' = [s \in ChSockets |->
                    IF ~Joined(s) THEN ch_queue[s]
                    ELSE Append(IF Overrun(s) THEN Tail(ch_queue[s]) ELSE ch_queue[s], b)]
Skipping(socket, s) ==
    IF Joined(s) /\ Overrun(s) THEN [socket EXCEPT !.skipped = @ \cup {Head(ch_queue[s])}] ELSE socket

\* The message is inserted ...
create(s, type) ==
    /\ ch_messages' = Append(ch_messages, [type |-> type,
           team |-> IF type = "team" THEN ch_socket[s].who.side ELSE NoSide])
    /\ ch_socket' = [ch_socket EXCEPT ![s].at = "sending", ![s].id = Len(ch_messages) + 1]

send_team_message(s) == can_send_team_chat(ch_socket[s].who) /\ create(s, "team")
send_all_message(s) == create(s, "all")

handle_chat_message(s) ==
    /\ Joined(s) /\ ch_socket[s].at = "live"
    /\ Len(ch_messages) < scenario.chat
    /\ send_team_message(s) \/ send_all_message(s)
    /\ UNCHANGED <<ch_queue, ch_seen>>

\* ... and then broadcast, by the task that inserted it.
BroadcastChat(s) ==
    /\ Joined(s) /\ ch_socket[s].at = "sending"
    /\ broadcast(Chat(ch_socket[s].id))
    /\ ch_socket' = [t \in ChSockets |->
                        Skipping(IF t = s THEN [ch_socket[s] EXCEPT !.at = "live", !.id = 0]
                                 ELSE ch_socket[t], t)]
    /\ UNCHANGED <<ch_messages, ch_seen>>

\* The server flow announces the server of the match.
AnnounceServer ==
    /\ scenario.server
    /\ \A s \in ChSockets : ServerAssignment \notin ToSet(ch_queue[s])
    /\ broadcast(ServerAssignment)
    /\ ch_socket' = [t \in ChSockets |-> Skipping(ch_socket[t], t)]
    /\ UNCHANGED <<ch_messages, ch_seen>>

\* The main loop takes the next broadcast from the receiver; that it lagged behind
\* is logged.
Forward(s) ==
    /\ Joined(s) /\ ch_socket[s].at = "live" /\ ch_queue[s] # << >>
    /\ ch_queue' = [ch_queue EXCEPT ![s] = Tail(@)]
    /\ ch_seen' = [ch_seen EXCEPT ![s] =
           @ \cup filter_broadcast_for_connection(Head(ch_queue[s]), ch_socket[s].who)]
    /\ UNCHANGED <<ch_messages, ch_socket>>

\* The socket closes, goes silent or fails: noticed in the main loop.
Leave(s) ==
    /\ Joined(s) /\ ch_socket[s].at = "live"
    /\ ch_socket' = [ch_socket EXCEPT ![s] = NoSocket]
    /\ ch_queue' = [ch_queue EXCEPT ![s] = << >>]
    /\ ch_seen' = [ch_seen EXCEPT ![s] = {}]
    /\ UNCHANGED ch_messages

ChNext ==
    /\ Chatting
    /\ UNCHANGED requestVars
    /\ \/ AnnounceServer
       \/ \E s \in ChSockets :
             \/ handle_socket(s) \/ get_spectator_history(s) \/ PublicHistory(s)
             \/ get_participant_history(s) \/ HistoryFails(s) \/ handle_chat_message(s) \/ BroadcastChat(s)
             \/ Forward(s) \/ Leave(s)

ChSpec == RequestsInit /\ ChInit /\ [][ChNext]_chVars

-----------------------------------------------------------------------------
\* Messages carry a team exactly when they are a team's; a socket speaks for
\* a side exactly when it is a participant's.
ChTypeOK ==
    /\ \A i \in DOMAIN ch_messages :
          ch_messages[i] \in VetoLobbyMessage /\ (ch_messages[i].type = "team" <=> ch_messages[i].team # NoSide)
    /\ \A s \in ChSockets : Joined(s) =>
          (ch_socket[s].who.role = "participant" <=> ch_socket[s].who.side # NoSide)

\* A team's messages reach its own sockets only, through the history as
\* through the broadcasts, and how to connect reaches no spectator: the two
\* filters, one in SQL and one in the handler, agree.
TeamChatStaysInTeam ==
    \A s \in ChSockets : \A b \in ch_seen[s] :
        /\ b.kind = "chat" => Visible(ch_messages[b.id], ch_socket[s].who)
        /\ b.kind = "connect" => ch_socket[s].who.role # "spectator"

\* Nothing is lost between the history and the broadcasts (handle_socket joins
\* before it reads): a message that a socket may see was sent to it or is on its
\* way, but for one that its receiver was too slow to take before the channel
\* overwrote it, one behind a full history, and one that is older than a history
\* that could not be read.
NothingIsMissed ==
    \A s \in ChSockets : Live(s) =>
        \A i \in DOMAIN ch_messages :
            Visible(ch_messages[i], ch_socket[s].who) =>
                \/ Chat(i) \in ch_seen[s] \cup ToSet(ch_queue[s]) \cup ch_socket[s].skipped
                \/ \E t \in ChSockets : Joined(t) /\ ch_socket[t].at = "sending" /\ ch_socket[t].id = i
                \/ Cardinality(ch_socket[s].got) = MAX_HISTORY
                \/ i <= ch_socket[s].before

\* A lobby's chat reaches all it is meant for and nobody else.
ChatIsSound == ChTypeOK /\ TeamChatStaysInTeam /\ NothingIsMissed

=============================================================================
