------------------------------ MODULE VetoLobby ------------------------------
(***************************************************************************)
(* The websocket lobby of one match: the manager's map from the match to   *)
(* its lobby, the sockets in the lobby, and the number of sockets each     *)
(* side has open.  Sockets join, lose their connection and tear an empty   *)
(* lobby down in any order; a lobby that was torn down is a different      *)
(* object from the one the next joiner creates.                            *)
(* Source: websocket/lobby.rs, websocket/lobby_manager.rs,                 *)
(* websocket/connection.rs, handlers/veto_ws.rs                            *)
(***************************************************************************)
EXTENDS Requests, FiniteSets

CONSTANTS
    Sockets,        \* the sockets that may be open at the same time
    SocketRole,     \* SocketRole[s]: a side, or "spectator"
    MaxLobbies      \* bound: lobby objects created

VARIABLES
    lobby,          \* the lobby object of the match in the manager, 0 if none
    lobbies,        \* lobby objects created so far
    socket,         \* socket[s]: its phase and the lobby object it holds
    connections,    \* connections[l]: the sockets registered in object l
    presence        \* presence[l][r]: open sockets of r counted in object l

ASSUME LobbyAssumption == IsFiniteSet(Sockets) /\ MaxLobbies \in Nat

lobbyTables == <<lobby, lobbies, socket, connections, presence>>

Roles == {SocketRole[s] : s \in Sockets}
Lobbies == 1 .. MaxLobbies
Closed == [at |-> "closed"]

LobbyInit ==
    /\ lobby = 0
    /\ lobbies = 0
    /\ socket = [s \in Sockets |-> Closed]
    /\ connections = [l \in Lobbies |-> {}]
    /\ presence = [l \in Lobbies |-> [r \in Roles |-> 0]]

\* add_connection: count the side, then register the socket.
AddConnection(s, l) ==
    /\ presence' = [presence EXCEPT ![l][SocketRole[s]] = @ + 1]
    /\ connections' = [connections EXCEPT ![l] = @ \cup {s}]
    /\ socket' = [socket EXCEPT ![s] = [at |-> "joined", lobby |-> l]]

\* Mutant: the joiner gets the lobby, lets go of the entry and adds itself
\* afterwards.
JoinUnlocked(s) ==
    \/ /\ socket[s] = Closed
       /\ lobby # 0 \/ lobbies < MaxLobbies
       /\ lobby' = IF lobby = 0 THEN lobbies + 1 ELSE lobby
       /\ lobbies' = IF lobby = 0 THEN lobbies + 1 ELSE lobbies
       /\ socket' = [socket EXCEPT ![s] = [at |-> "joining", lobby |-> lobby']]
       /\ UNCHANGED <<connections, presence>>
    \/ /\ socket[s].at = "joining"
       /\ AddConnection(s, socket[s].lobby)
       /\ UNCHANGED <<lobby, lobbies>>

\* join: the entry of the match stays locked from looking the lobby up, or
\* creating it, until the socket is registered in it.
Join(s) ==
    /\ socket[s] = Closed
    /\ lobby # 0 \/ lobbies < MaxLobbies
    /\ lobby' = IF lobby = 0 THEN lobbies + 1 ELSE lobby
    /\ lobbies' = IF lobby = 0 THEN lobbies + 1 ELSE lobbies
    /\ AddConnection(s, lobby')

\* The socket closes, goes silent or fails; remove_connection takes it out ...
LeaveConnections(s) ==
    /\ socket[s].at = "joined"
    /\ connections' = [connections EXCEPT ![socket[s].lobby] = @ \ {s}]
    /\ socket' = [socket EXCEPT ![s].at = "leaving"]
    /\ UNCHANGED <<lobby, lobbies, presence>>

\* ... then, under the presence lock, takes one off its side.
LeavePresence(s) ==
    /\ socket[s].at = "leaving"
    /\ presence' = [presence EXCEPT ![socket[s].lobby][SocketRole[s]] = @ - 1]
    /\ socket' = [socket EXCEPT ![s].at = "left"]
    /\ UNCHANGED <<lobby, lobbies, connections>>

\* remove_if_empty: emptiness is tested with the entry locked.
RemoveIfEmpty(s) ==
    /\ socket[s].at = "left"
    /\ lobby' = IF lobby # 0 /\ connections[lobby] = {} THEN 0 ELSE lobby
    /\ socket' = [socket EXCEPT ![s] = Closed]
    /\ UNCHANGED <<lobbies, connections, presence>>

LobbyNext ==
    /\ \E s \in Sockets : \/ Join(s)
                          \/ LeaveConnections(s)
                          \/ LeavePresence(s)
                          \/ RemoveIfEmpty(s)
    /\ UNCHANGED requestVars

lobbyVars == <<requestVars, lobbyTables>>
LobbySpec == RequestsInit /\ LobbyInit /\ [][LobbyNext]_lobbyVars

-----------------------------------------------------------------------------
\* Every open socket is in the lobby that handlers and the pass broadcast to:
\* nobody sits in an object the manager has let go of.
LobbyIsShared ==
    \A s \in Sockets : socket[s].at = "joined" =>
        /\ lobby = socket[s].lobby
        /\ s \in connections[lobby]

\* The sockets of side r that the lobby object l has to count.
Open(l, r) ==
    {s \in Sockets : /\ SocketRole[s] = r
                     /\ socket[s].at \in {"joined", "leaving"}
                     /\ socket[s].lobby = l}

\* A side counts as present exactly while one of its sockets is counted: the
\* automatic coin flip never waits for a side that is there and never runs
\* for one that left.
PresenceIsExact ==
    \A l \in Lobbies, r \in Roles : presence[l][r] = Cardinality(Open(l, r))

\* Joining, leaving and tearing down agree about who is there.
LobbyIsSound == LobbyIsShared /\ PresenceIsExact

=============================================================================
