-------------------------- MODULE MatchDay_proofs --------------------------
(***************************************************************************)
(* Proofs about the components of a match day: VetoSession, for any number *)
(* of users, any formats and map pools; VetoLobby, for any number of       *)
(* sockets, any assignment of sides to them and any number of lobby        *)
(* objects; and Pugs, for any players, any team size and any number of     *)
(* lobbies.  Requests and crashes are any number in each.                  *)
(***************************************************************************)
EXTENDS VetoSession, VetoLobby, Pugs, FiniteSetTheorems, SequenceTheorems, TLAPS

Maps == UNION {s.pool : s \in VetoSetups}
Rows == [type : VetoActionType, map : Maps, by : Registrations \cup {None},
         side : Sides \cup {None}]
Chosen(s) == {s.selected[i] : i \in DOMAIN s.selected}

\* The cursor s, in the row or as somebody read it, is at or before the end of
\* a prefix of the action rows that explains it.
IsPrefix(s) ==
    \E k \in 0 .. Len(s.format) :
        /\ s.number <= k + 1
        /\ \A n \in 1 .. k : vetoActions[n] # NoAction
        /\ s.remaining = s.pool \ MapsOf(k)
        /\ Chosen(s) = PlayedOf(k)

CursorOK(s) ==
    /\ s \in SessionType
    /\ s.number <= Len(s.format) + 1
    /\ IsPrefix(s)
    /\ \A i, j \in DOMAIN s.selected : i # j => s.selected[i] # s.selected[j]

\* The turn is the one of the format, for whoever goes first.
TurnOK(s) ==
    s.turn # None /\ s.number <= Len(s.format) =>
        LET team == s.format[s.number].team
        IN  team # 0 => s.turn = IF team = 1 THEN s.first ELSE OtherSide(s.first)

\* The row of the session: the clock runs only once somebody acts, and a veto
\* is complete only behind its last action.
SessionOK ==
    veto # NoSession =>
        /\ CursorOK(veto)
        /\ veto.deadline # None => veto.number >= 1
        /\ veto.status \in {"in_progress", "completed"} => veto.number >= 1
        /\ veto.status = "completed" => veto.number = Len(veto.format) + 1
        /\ veto.status = "coin_flip" => has_team_actions(veto.format)

\* The action rows are numbered without a gap, follow the format and use every
\* map once.
RowsOK ==
    \A n \in ActionNumbers : vetoActions[n] # NoAction =>
        /\ vetoActions[n] \in Rows
        /\ veto # NoSession /\ n <= Len(veto.format)
        /\ vetoActions[n].type = veto.format[n].type /\ vetoActions[n].map \in veto.pool
        /\ \A m \in 1 .. n : vetoActions[m] # NoAction
        /\ \A m \in 1 .. n - 1 : vetoActions[m].map # vetoActions[n].map

Actors == {"veto insert", "veto side", "veto advance"}
Recordings ==
    [pc : Actors, snap : SessionType, map : Maps, by : Registrations \cup {None},
     via : {"player", "wheel", "timeout"}, drawn : Maps \cup {0}]

\* A request that acts remembers a cursor of the session there is, and the map
\* of its own row once that is there.
ActorOK(r) ==
    /\ veto # NoSession
    /\ r \in Recordings /\ CursorOK(r.snap) /\ r.snap.number \in 1 .. Len(r.snap.format)
    /\ r.snap.format = veto.format /\ r.snap.pool = veto.pool /\ r.snap.mode = veto.mode
    /\ r.by \in {None, r.snap.turn}
    /\ r.pc = "veto insert" => r.map \in r.snap.remaining
    /\ r.pc # "veto insert" => /\ vetoActions[r.snap.number] # NoAction
                               /\ r.map = vetoActions[r.snap.number].map

RequestOK(r) ==
    /\ r.pc \in Actors => ActorOK(r)
    /\ r.pc = "veto create" => r.setup \in VetoSetups
    /\ r.pc \in {"veto start", "veto started", "veto flip", "veto spin", "veto timeout",
                 "veto decider", "veto cancelled"} => veto # NoSession
    /\ r.pc = "veto started" => r.wheel = ~has_team_actions(veto.format)
    /\ r.pc = "veto flip" => /\ r.winner \in Registrations /\ r.first \in Registrations
                             /\ has_team_actions(veto.format)
    /\ r.pc = "veto decider" => veto.number >= 1 /\ r.via \in {"player", "wheel", "timeout"}
    /\ r.pc = "veto choose" => /\ r.number \in ActionNumbers /\ r.side \in Sides
                               /\ vetoActions[r.number] # NoAction

\* Until the coin is flipped nobody acts; while it was flipped once, everybody
\* remembers the same first side.
FlipOK ==
    /\ vetoFlips \in 0 .. 2
    /\ veto = NoSession => vetoFlips = 0
    /\ veto # NoSession =>
        /\ vetoFlips # 0 => has_team_actions(veto.format)
        /\ vetoFlips = 0 /\ has_team_actions(veto.format) => veto.number = 0
        /\ veto.number = 0 => /\ \A n \in ActionNumbers : vetoActions[n] = NoAction
                              /\ \A p \in Tasks : req[p].pc \notin Actors
        /\ vetoFlips < 2 =>
             /\ TurnOK(veto)
             /\ \A p \in Tasks : req[p].pc \in Actors =>
                    req[p].snap.first = veto.first /\ TurnOK(req[p].snap)
        /\ TurnsFollowFormat

\* Whoever completed the veto asked for a server, or is about to, or died.
AssignOK ==
    veto # NoSession /\ veto.status = "completed" /\ crashes = 0 =>
        vetoAssigned \/ \E p \in Tasks : req[p].pc = "veto assign"

Cursors ==
    /\ DOMAIN req = Tasks
    /\ vetoActions \in [ActionNumbers -> {NoAction} \cup Rows]
    /\ SessionOK /\ RowsOK
    /\ \A p \in Tasks : RequestOK(req[p])

-----------------------------------------------------------------------------
(* The maps *)

\* The first of the maps that are left.
LEMMA MinOfNaturals ==
    ASSUME NEW S, S \subseteq Nat, S # {}
    PROVE  Min(S) \in S /\ \A y \in S : Min(S) <= y
<1>1. PICK n \in S : TRUE
  OBVIOUS
<1> DEFINE T == {0 .. m : m \in {x \in S : x <= n}}
<1>2. IsFiniteSet(0 .. n)
  BY FS_Interval
<1>3. T \subseteq FiniteSubsetsOf(0 .. n)
  <2> SUFFICES ASSUME NEW m \in S, m <= n PROVE 0 .. m \in FiniteSubsetsOf(0 .. n)
    OBVIOUS
  <2>1. IsFiniteSet(0 .. m)
    BY FS_Interval
  <2> QED BY <2>1 DEF FiniteSubsetsOf
<1>4. 0 .. n \in T
  OBVIOUS
<1> HIDE DEF T
<1>5. PICK x \in T : \A y \in T : ~ (<<y, x>> \in StrictSubsetOrdering(0 .. n))
  BY <1>2, <1>3, <1>4, FS_StrictSubsetOrderingWellFounded, WFMin
<1>6. PICK m \in S : m <= n /\ x = 0 .. m
  BY DEF T
<1>7. ASSUME NEW y \in S PROVE m <= y
  <2> SUFFICES ASSUME y < m PROVE FALSE
    OBVIOUS
  <2>1. 0 .. y \in T
    BY <1>6 DEF T
  <2>2. 0 .. y \subseteq 0 .. m /\ 0 .. y # 0 .. m /\ 0 .. m \subseteq 0 .. n
    BY <1>6
  <2> QED BY <1>5, <1>6, <2>1, <2>2 DEF StrictSubsetOrdering
<1> QED BY <1>7 DEF Min

\* What the type of a session says of its format and pool.
LEMMA SessionFormat ==
    ASSUME NEW s \in SessionType
    PROVE  /\ s.format \in Seq([team : 0 .. 2, type : VetoActionType])
           /\ Len(s.format) \in Nat /\ Len(s.format) <= MaxActions
           /\ DOMAIN s.format = 1 .. Len(s.format)
           /\ s.format = <<>> \/ s.format[1].team # 2
           /\ s.pool \subseteq Nat /\ s.pool \subseteq Maps
           /\ s.number \in Nat
<1>1. PICK x \in VetoSetups : x.format = s.format
  BY DEF SessionType
<1>2. PICK y \in VetoSetups : y.pool = s.pool
  BY DEF SessionType
<1>3. s.number \in Nat
  BY DEF SessionType, MaxActions
<1> QED BY <1>1, <1>2, <1>3, VetoAssumption, LenProperties DEF VetoAssumption, Maps

\* An entry of the format names a side or nobody.
LEMMA FormatTeams ==
    ASSUME NEW s \in SessionType, NEW i \in 1 .. Len(s.format)
    PROVE  s.format[i].team \in 0 .. 2
<1>1. PICK f \in Seq([team : 0 .. 2, type : VetoActionType]) : f = s.format
  BY SessionFormat
<1>2. f[i] \in [team : 0 .. 2, type : VetoActionType]
  BY <1>1, ElementOfSeq
<1> QED BY <1>1, <1>2

\* Action rows are added, and change nothing but their side.
Grows ==
    \A n \in ActionNumbers : vetoActions[n] # NoAction =>
        /\ vetoActions'[n] # NoAction
        /\ vetoActions'[n].map = vetoActions[n].map /\ vetoActions'[n].type = vetoActions[n].type

\* A session that was read stays behind the rows that grow.
LEMMA GrowsPrefix ==
    ASSUME Grows, NEW s, CursorOK(s)
    PROVE  CursorOK(s)'
<1>1. s \in SessionType
  BY DEF CursorOK
<1>2. PICK k \in 0 .. Len(s.format) :
        /\ s.number <= k + 1
        /\ \A n \in 1 .. k : vetoActions[n] # NoAction
        /\ s.remaining = s.pool \ MapsOf(k)
        /\ Chosen(s) = PlayedOf(k)
  BY DEF CursorOK, IsPrefix
<1>3. 1 .. k \subseteq ActionNumbers
  BY <1>1, SessionFormat DEF ActionNumbers, MaxActions
<1>4. \A n \in 1 .. k : /\ vetoActions'[n] # NoAction
                        /\ vetoActions'[n].map = vetoActions[n].map
                        /\ vetoActions'[n].type = vetoActions[n].type
  BY <1>2, <1>3 DEF Grows
<1>5. MapsOf(k)' = MapsOf(k)
  BY <1>4 DEF MapsOf
<1>6. PlayedOf(k)' = PlayedOf(k)
  BY <1>4 DEF PlayedOf
<1>7. IsPrefix(s)'
  BY <1>2, <1>4, <1>5, <1>6 DEF IsPrefix, Chosen
<1> QED BY <1>7 DEF CursorOK

\* A cursor that moves over the row of its action is behind a prefix again.
LEMMA CursorAdvances ==
    ASSUME Cursors, NEW s, CursorOK(s), NEW t \in SessionType, NEW map \in Maps,
           s.number \in 1 .. Len(s.format), veto # NoSession, s.format = veto.format,
           vetoActions[s.number] # NoAction, map = vetoActions[s.number].map,
           t.format = s.format, t.pool = s.pool,
           t.number = s.number + 1, t.remaining = s.remaining \ {map},
           t.selected = Advanced(s, map).selected
    PROVE  CursorOK(t)
<1> DEFINE n == s.number
<1> DEFINE played == s.format[n].type # "ban"
<1>1. s \in SessionType /\ 1 .. Len(s.format) \subseteq ActionNumbers /\ n \in ActionNumbers
  <2>1. s \in SessionType
    BY DEF CursorOK
  <2>2. Len(s.format) \in Nat /\ Len(s.format) <= 7
    BY <2>1, SessionFormat DEF MaxActions
  <2> QED BY <2>1, <2>2 DEF ActionNumbers, MaxActions
<1>2. PICK k \in 0 .. Len(s.format) :
        /\ n <= k + 1
        /\ \A i \in 1 .. k : vetoActions[i] # NoAction
        /\ s.remaining = s.pool \ MapsOf(k)
        /\ Chosen(s) = PlayedOf(k)
  BY DEF CursorOK, IsPrefix
<1>3. /\ vetoActions[n].type = s.format[n].type
      /\ \A m \in 1 .. n - 1 : vetoActions[m].map # map
  BY <1>1 DEF Cursors, RowsOK
<1>4. s.selected \in Seq(Maps) /\ Len(s.selected) \in Nat
      /\ DOMAIN s.selected = 1 .. Len(s.selected)
  BY <1>1, LenProperties DEF SessionType, Maps
<1>5. /\ Chosen(t) = Chosen(s) \cup (IF played THEN {map} ELSE {})
      /\ \A i, j \in DOMAIN t.selected : i # j => t.selected[i] # t.selected[j]
  <2>1. t.selected = IF played /\ \A i \in DOMAIN s.selected : s.selected[i] # map
                     THEN Append(s.selected, map) ELSE s.selected
    BY DEF Advanced
  <2>2. CASE played /\ \A i \in DOMAIN s.selected : s.selected[i] # map
    <3>1. /\ Len(t.selected) = Len(s.selected) + 1 /\ DOMAIN t.selected = 1 .. Len(t.selected)
          /\ \A i \in 1 .. Len(s.selected) : t.selected[i] = s.selected[i]
          /\ t.selected[Len(s.selected) + 1] = map
      BY <1>4, <2>1, <2>2, AppendProperties, LenProperties
    <3> HIDE DEF n, played
    <3>2. \A i \in DOMAIN t.selected : i \in DOMAIN s.selected \/ i = Len(s.selected) + 1
      BY <1>4, <3>1
    <3>3. Chosen(t) = Chosen(s) \cup {map}
      <4>1. \A i \in DOMAIN t.selected : t.selected[i] \in Chosen(s) \cup {map}
        BY <1>4, <3>1, <3>2 DEF Chosen
      <4>2. \A i \in DOMAIN s.selected : s.selected[i] \in Chosen(t)
        BY <1>4, <3>1 DEF Chosen
      <4>3. map \in Chosen(t)
        <5>1. Len(s.selected) + 1 \in DOMAIN t.selected
          BY <1>4, <3>1
        <5> QED BY <3>1, <5>1 DEF Chosen
      <4> QED BY <4>1, <4>2, <4>3 DEF Chosen
    <3>4. ASSUME NEW i \in DOMAIN t.selected, NEW j \in DOMAIN t.selected, i # j
          PROVE  t.selected[i] # t.selected[j]
      <4>1. CASE i \in DOMAIN s.selected /\ j \in DOMAIN s.selected
        BY <1>4, <3>1, <3>4, <4>1 DEF CursorOK
      <4>2. CASE i \in DOMAIN s.selected /\ j = Len(s.selected) + 1
        BY <1>4, <2>2, <3>1, <4>2
      <4>3. CASE j \in DOMAIN s.selected /\ i = Len(s.selected) + 1
        BY <1>4, <2>2, <3>1, <4>3
      <4> QED BY <3>2, <3>4, <4>1, <4>2, <4>3
    <3> QED BY <2>2, <3>3, <3>4
  <2>3. CASE ~(played /\ \A i \in DOMAIN s.selected : s.selected[i] # map)
    <3>1. t.selected = s.selected /\ Chosen(t) = Chosen(s)
      BY <2>1, <2>3 DEF Chosen
    <3>2. played => map \in Chosen(s)
      BY <2>3 DEF Chosen
    <3> QED BY <3>1, <3>2 DEF CursorOK
  <2> QED BY <2>2, <2>3
<1>6. CASE n <= k
  <2>1. map \in MapsOf(k) /\ (played => map \in PlayedOf(k))
    BY <1>2, <1>3, <1>6 DEF MapsOf, PlayedOf
  <2>2. t.remaining = t.pool \ MapsOf(k) /\ Chosen(t) = PlayedOf(k)
    BY <1>2, <1>5, <2>1
  <2>3. IsPrefix(t)
    BY <1>2, <1>6, <2>2 DEF IsPrefix
  <2> QED BY <1>5, <2>3 DEF CursorOK
<1>7. CASE n = k + 1
  <2>1. MapsOf(n) = MapsOf(k) \cup {map}
    BY <1>2, <1>7 DEF MapsOf
  <2>2. PlayedOf(n) = PlayedOf(k) \cup (IF played THEN {map} ELSE {})
    BY <1>2, <1>3, <1>7 DEF PlayedOf
  <2>3. t.remaining = t.pool \ MapsOf(n) /\ Chosen(t) = PlayedOf(n)
    BY <1>2, <1>5, <2>1, <2>2
  <2>4. \A i \in 1 .. n : vetoActions[i] # NoAction
    BY <1>2, <1>7
  <2>5. IsPrefix(t)
    BY <1>2, <1>7, <2>3, <2>4 DEF IsPrefix
  <2> QED BY <1>5, <2>5 DEF CursorOK
<1> QED BY <1>2, <1>6, <1>7

\* The maps and the number stay, or the number is reset.
LEMMA CursorResets ==
    ASSUME NEW s, CursorOK(s), NEW t \in SessionType,
           t.format = s.format, t.pool = s.pool, t.remaining = s.remaining,
           t.selected = s.selected, t.number \in {s.number, 1}
    PROVE  CursorOK(t)
<1>1. s \in SessionType /\ Len(s.format) \in Nat
  BY SessionFormat DEF CursorOK
<1>2. PICK k \in 0 .. Len(s.format) :
        /\ s.number <= k + 1
        /\ \A i \in 1 .. k : vetoActions[i] # NoAction
        /\ s.remaining = s.pool \ MapsOf(k)
        /\ Chosen(s) = PlayedOf(k)
  BY DEF CursorOK, IsPrefix
<1>3. Chosen(t) = Chosen(s)
  BY DEF Chosen
<1>4. IsPrefix(t)
  BY <1>1, <1>2, <1>3 DEF IsPrefix
<1> QED BY <1>1, <1>4 DEF CursorOK

-----------------------------------------------------------------------------
(* The session, its rows and the requests *)

\* A session is not the absence of one.
LEMMA NotNoSession == ASSUME NEW t \in SessionType PROVE t # NoSession
  BY DEF SessionType, NoSession, VetoStatus, None

\* What no statement undoes.
Keeps ==
    veto # NoSession =>
        /\ veto' # NoSession
        /\ veto'.format = veto.format /\ veto'.pool = veto.pool /\ veto'.mode = veto.mode
        /\ veto.number >= 1 => veto'.number >= 1

\* A request that waits stays sound while the rows grow.
LEMMA RequestStays ==
    ASSUME Grows, Keeps, NEW r, RequestOK(r)
    PROVE  RequestOK(r)'
<1>1. ASSUME r.pc \in Actors PROVE ActorOK(r)'
  <2>1. ActorOK(r) /\ CursorOK(r.snap) /\ r.snap \in SessionType
    BY <1>1 DEF RequestOK, ActorOK, CursorOK
  <2>2. CursorOK(r.snap)'
    BY <2>1, GrowsPrefix
  <2>3. PICK s \in SessionType : s = r.snap /\ s.number \in 1 .. Len(s.format)
    BY <2>1 DEF ActorOK
  <2>4. Len(s.format) \in Nat /\ Len(s.format) <= 7
    BY SessionFormat DEF MaxActions
  <2>5. r.snap.number \in ActionNumbers
    BY <2>3, <2>4 DEF ActionNumbers, MaxActions
  <2> QED BY <2>1, <2>2, <2>5 DEF ActorOK, Grows, Keeps
<1> QED BY <1>1 DEF RequestOK, Grows, Keeps

\* One request moves to a sound state, the others wait.
LEMMA RequestsMove ==
    ASSUME Cursors, Grows, Keeps, NEW p \in Tasks, NEW r,
           req' = [req EXCEPT ![p] = r], RequestOK(r)'
    PROVE  DOMAIN req' = Tasks /\ \A q \in Tasks : RequestOK(req[q])'
<1>1. DOMAIN req = Tasks
  BY DEF Cursors
<1>2. ASSUME NEW q \in Tasks PROVE RequestOK(req[q])'
  <2>1. CASE q = p
    BY <1>1, <2>1
  <2>2. CASE q # p
    <3>1. PICK x : x = req[q]
      OBVIOUS
    <3>2. RequestOK(x)'
      BY <3>1, RequestStays DEF Cursors
    <3> QED BY <1>1, <2>2, <3>1, <3>2
  <2> QED BY <2>1, <2>2
<1> QED BY <1>1, <1>2

\* All requests wait.
LEMMA RequestsStay ==
    ASSUME Cursors, Grows, Keeps, UNCHANGED req
    PROVE  DOMAIN req' = Tasks /\ \A q \in Tasks : RequestOK(req[q])'
<1>1. ASSUME NEW q \in Tasks PROVE RequestOK(req[q])'
  <2>1. PICK x : x = req[q]
    OBVIOUS
  <2>2. RequestOK(x)'
    BY <2>1, RequestStays DEF Cursors
  <2> QED BY <2>1, <2>2
<1> QED BY <1>1 DEF Cursors

\* An untouched session stays sound while the rows grow.
LEMMA SessionStays ==
    ASSUME Cursors, Grows, UNCHANGED veto
    PROVE  SessionOK'
<1>1. PICK s : s = veto
  OBVIOUS
<1>2. veto # NoSession => CursorOK(s)'
  BY <1>1, GrowsPrefix DEF Cursors, SessionOK
<1> QED BY <1>1, <1>2 DEF Cursors, SessionOK

\* A step that changes a request only.
LEMMA RequestStep ==
    ASSUME Cursors, UNCHANGED <<veto, vetoActions>>, NEW p \in Tasks, NEW r,
           req' = [req EXCEPT ![p] = r], RequestOK(r)
    PROVE  Cursors'
<1>1. Grows /\ Keeps
  BY DEF Grows, Keeps
<1>2. SessionOK'
  BY <1>1, SessionStays
<1>3. RowsOK'
  BY DEF Cursors, RowsOK
<1>4. RequestOK(r)'
  BY <1>1, RequestStays
<1>5. DOMAIN req' = Tasks /\ \A q \in Tasks : RequestOK(req[q])'
  BY <1>1, <1>4, RequestsMove
<1> QED BY <1>2, <1>3, <1>5 DEF Cursors

\* A step that changes none of the three.
LEMMA NothingMoves ==
    ASSUME Cursors, UNCHANGED <<veto, vetoActions, req>>
    PROVE  Cursors'
<1>1. Grows /\ Keeps
  BY DEF Grows, Keeps
<1>2. SessionOK'
  BY <1>1, SessionStays
<1>3. RowsOK'
  BY DEF Cursors, RowsOK
<1> QED BY <1>1, <1>2, <1>3, RequestsStay DEF Cursors

\* A step that writes the session t.
SessionWritten(t) ==
    /\ veto' = t /\ UNCHANGED vetoActions
    /\ CursorOK(t)
    /\ veto # NoSession => /\ t.format = veto.format /\ t.pool = veto.pool /\ t.mode = veto.mode
                           /\ veto.number >= 1 => t.number >= 1
    /\ t.deadline # None => t.number >= 1
    /\ t.status \in {"in_progress", "completed"} => t.number >= 1
    /\ t.status = "completed" => t.number = Len(t.format) + 1
    /\ t.status = "coin_flip" => has_team_actions(t.format)

\* A session that is written the way the services write it is sound.
LEMMA SessionWrites ==
    ASSUME Cursors, NEW t, SessionWritten(t)
    PROVE  SessionOK' /\ RowsOK' /\ Grows /\ Keeps /\ veto' # NoSession
<1>1. Grows
  BY DEF Grows, SessionWritten
<1>2. t # NoSession
  BY NotNoSession DEF CursorOK, SessionWritten
<1>3. Keeps
  BY <1>2 DEF Keeps, SessionWritten
<1>4. CursorOK(t)'
  BY <1>1, GrowsPrefix DEF SessionWritten
<1>5. SessionOK'
  BY <1>4 DEF SessionOK, SessionWritten
<1>6. RowsOK'
  <2>1. veto = NoSession => \A n \in ActionNumbers : vetoActions[n] = NoAction
    BY DEF Cursors, RowsOK
  <2> QED BY <1>2, <2>1 DEF Cursors, RowsOK, SessionWritten
<1> QED BY <1>1, <1>2, <1>3, <1>5, <1>6 DEF SessionWritten

\* And so is the whole state when the writer moves on.
LEMMA SessionStep ==
    ASSUME Cursors, NEW t, SessionWritten(t),
           NEW p \in Tasks, NEW r, req' = [req EXCEPT ![p] = r], RequestOK(r)'
    PROVE  Cursors'
<1>1. SessionOK' /\ RowsOK' /\ Grows /\ Keeps
  BY SessionWrites
<1>2. DOMAIN req' = Tasks /\ \A q \in Tasks : RequestOK(req[q])'
  BY <1>1, RequestsMove
<1> QED BY <1>1, <1>2 DEF Cursors, SessionWritten

\* A step that writes an action row.
LEMMA RowStep ==
    ASSUME Cursors, UNCHANGED veto, Grows, RowsOK',
           vetoActions' \in [ActionNumbers -> {NoAction} \cup Rows],
           NEW p \in Tasks, NEW r, req' = [req EXCEPT ![p] = r], RequestOK(r)'
    PROVE  Cursors'
<1>1. Keeps
  BY DEF Keeps
<1>2. SessionOK'
  BY SessionStays
<1>3. DOMAIN req' = Tasks /\ \A q \in Tasks : RequestOK(req[q])'
  BY <1>1, RequestsMove
<1> QED BY <1>2, <1>3 DEF Cursors

\* Whatever a request begins or goes on with.
LEMMA Moves ==
    ASSUME NEW p, NEW r, Request(p, r) \/ Wake(p, r) \/ Begin(p, r) \/ Continue(p, r)
    PROVE  req' = [req EXCEPT ![p] = r] /\ UNCHANGED <<scenario, crashes>>
BY DEF Begin, Request, Wake, Continue

\* What a request takes with it when it only reads: nothing, or the session as
\* it is.
FreshOK(r) == RequestOK(r) /\ (r.pc \in Actors => r.snap = veto /\ veto.number >= 1)

\* A step that writes neither table.
Quiet(p) ==
    /\ UNCHANGED <<veto, vetoActions, vetoFlips>>
    /\ UNCHANGED req \/ \E r : req' = [req EXCEPT ![p] = r] /\ FreshOK(r)

\* A step that writes no table is quiet when its request is sound.
LEMMA QuietStep ==
    ASSUME UNCHANGED <<veto, vetoActions, vetoFlips>>,
           NEW p, NEW r, req' = [req EXCEPT ![p] = r], FreshOK(r)
    PROVE  Quiet(p)
BY DEF Quiet

\* An idle task is sound.
LEMMA IdleOK == FreshOK(NoRequest)
BY DEF FreshOK, RequestOK, NoRequest, Actors

\* A request that acts on the session it read.
LEMMA RecordingOK ==
    ASSUME Cursors, veto # NoSession, veto.number >= 1,
           ~is_complete_at(veto.format, veto.number),
           NEW map \in veto.remaining, NEW by \in {None, veto.turn},
           NEW via \in {"player", "wheel", "timeout"}
    PROVE  FreshOK(Recording(veto, map, by, via))
<1> DEFINE r == Recording(veto, map, by, via)
<1>1. CursorOK(veto) /\ veto \in SessionType
  BY DEF Cursors, SessionOK, CursorOK
<1>2. veto.number \in 1 .. Len(veto.format)
  BY <1>1, SessionFormat DEF is_complete_at
<1>3. map \in Maps /\ by \in Registrations \cup {None}
  BY <1>1 DEF SessionType, Maps, None
<1>4. r \in Recordings
  BY <1>1, <1>3 DEF Recording, Recordings, Actors
<1>5. r.pc = "veto insert" /\ r.snap = veto /\ r.map = map /\ r.by = by
  BY DEF Recording
<1> HIDE DEF r
<1>6. r.by \in {None, r.snap.turn} /\ r.map \in r.snap.remaining
  BY <1>5
<1>7. r.snap.number \in 1 .. Len(r.snap.format)
  BY <1>2, <1>5
<1>8. ActorOK(r)
  BY <1>1, <1>4, <1>5, <1>6, <1>7 DEF ActorOK
<1>9. FreshOK(r)
  BY <1>5, <1>8 DEF FreshOK, RequestOK, Actors
<1> QED BY <1>9 DEF r

-----------------------------------------------------------------------------
(* The actions that write neither table *)

\* Requests that carry nothing a later statement could misuse.
LEMMA PlainRequests ==
    ASSUME veto # NoSession
    PROVE  /\ FreshOK([pc |-> "veto start"])
           /\ FreshOK([pc |-> "veto cancel"])
           /\ FreshOK([pc |-> "veto timeout"])
           /\ FreshOK([pc |-> "veto cancelled"])
BY DEF FreshOK, RequestOK, Actors

\* The three ways to a new session begin with reads.
LEMMA CreationsAreQuiet ==
    ASSUME Cursors, scenario.setups \subseteq VetoSetups, NEW p \in Tasks,
           CreateVetoSessionRequest(p) \/ EnsureVetoSession(p) \/ AutoCreateVetoSession(p)
    PROVE  Quiet(p)
<1>1. UNCHANGED <<veto, vetoActions, vetoFlips>>
  BY DEF CreateVetoSessionRequest, EnsureVetoSession, AutoCreateVetoSession, vetoTables
<1>2. ASSUME NEW label \in {"start", "done"}, CreateSession(p, label) PROVE Quiet(p)
  <2>1. PICK setup \in scenario.setups :
            Begin(p, [pc |-> "veto create", setup |-> setup, then |-> label])
    BY <1>2 DEF CreateSession
  <2> DEFINE r == [pc |-> "veto create", setup |-> setup, then |-> label]
  <2>2. req' = [req EXCEPT ![p] = r]
    BY <2>1, Moves
  <2>3. FreshOK(r)
    BY DEF FreshOK, RequestOK, Actors
  <2> HIDE DEF r
  <2> QED BY <1>1, <2>2, <2>3, QuietStep
<1>3. ASSUME veto # NoSession, Begin(p, [pc |-> "veto start"]) PROVE Quiet(p)
  BY <1>1, <1>3, Moves, PlainRequests, QuietStep
<1>4. ASSUME UNCHANGED requestVars PROVE Quiet(p)
  BY <1>1, <1>4 DEF requestVars, Quiet
<1>5. CASE CreateVetoSessionRequest(p) \/ EnsureVetoSession(p)
  BY <1>2, <1>5 DEF CreateVetoSessionRequest, EnsureVetoSession
<1>6. CASE AutoCreateVetoSession(p)
  BY <1>2, <1>3, <1>4, <1>6 DEF AutoCreateVetoSession
<1> QED BY <1>5, <1>6

\* So does starting it,
LEMMA StartsAreQuiet ==
    ASSUME Cursors, NEW p \in Tasks, StartVetoSession(p) \/ StartSession(p)
    PROVE  Quiet(p)
<1>1. UNCHANGED <<veto, vetoActions, vetoFlips>>
  BY DEF StartVetoSession, StartSession, vetoTables
<1>2. CASE StartVetoSession(p)
  BY <1>1, <1>2, Moves, PlainRequests, QuietStep DEF StartVetoSession
<1>3. CASE StartSession(p)
  <2>1. veto # NoSession
    BY <1>3 DEF StartSession, At, Cursors, RequestOK
  <2> DEFINE r == [pc |-> "veto started", wheel |-> ~has_team_actions(veto.format)]
  <2>2. req' = [req EXCEPT ![p] = r] \/ req' = [req EXCEPT ![p] = NoRequest]
    BY <1>3 DEF StartSession, Continue, Finish
  <2>3. FreshOK(r)
    BY <2>1 DEF FreshOK, RequestOK, Actors
  <2> HIDE DEF r
  <2> QED BY <1>1, <2>2, <2>3, IdleOK, QuietStep
<1> QED BY <1>2, <1>3

\* flipping the coin,
LEMMA FlipsAreQuiet ==
    ASSUME Cursors, NEW p \in Tasks, NEW winner \in Registrations, NEW goes_first \in BOOLEAN,
           FlipCoin(p, winner, goes_first)
    PROVE  Quiet(p)
<1> DEFINE r == [pc |-> "veto flip", winner |-> winner,
                 first |-> IF goes_first THEN winner ELSE OtherSide(winner)]
<1>1. UNCHANGED <<veto, vetoActions, vetoFlips>> /\ veto # NoSession /\ has_team_actions(veto.format)
  BY DEF FlipCoin, MayFlip, vetoTables, Cursors, SessionOK
<1>2. req' = [req EXCEPT ![p] = r]
  BY Moves DEF FlipCoin
<1>3. r.first \in Registrations
  BY DEF Registrations, OtherSide
<1>4. FreshOK(r)
  BY <1>1, <1>3 DEF FreshOK, RequestOK, Actors
<1> HIDE DEF r
<1> QED BY <1>1, <1>2, <1>4, QuietStep

\* acting, by a captain or by the clock,
LEMMA ActingIsQuiet ==
    ASSUME Cursors, NEW p \in Tasks, PerformAction(p) \/ ProcessVetoTimeout(p) \/ ProcessTimeout(p)
    PROVE  Quiet(p)
<1>1. UNCHANGED <<veto, vetoActions, vetoFlips>>
  BY DEF PerformAction, ProcessVetoTimeout, ProcessTimeout, vetoTables
<1>2. CASE PerformAction(p)
  <2>1. veto # NoSession /\ veto.number >= 1 /\ ~is_complete_at(veto.format, veto.number)
    BY <1>2 DEF PerformAction, Cursors, SessionOK
  <2>2. PICK map \in veto.remaining : Request(p, Recording(veto, map, veto.turn, "player"))
    BY <1>2 DEF PerformAction
  <2>3. FreshOK(Recording(veto, map, veto.turn, "player"))
    BY <2>1, RecordingOK
  <2> QED BY <1>1, <2>2, <2>3, Moves, QuietStep
<1>3. CASE ProcessVetoTimeout(p)
  BY <1>1, <1>3, Moves, PlainRequests, QuietStep DEF ProcessVetoTimeout
<1>4. CASE ProcessTimeout(p)
  <2>1. veto # NoSession
    BY <1>4 DEF ProcessTimeout, At, Cursors, RequestOK
  <2>2. CASE Finish(p)
    BY <1>1, <2>2, Moves, IdleOK, QuietStep DEF Finish
  <2>3. CASE ~Finish(p)
    <3>1. /\ is_timed_out(veto) /\ ~is_complete_at(veto.format, veto.number)
          /\ \E map \in veto.remaining : Continue(p, Recording(veto, map, veto.turn, "timeout"))
      BY <1>4, <2>3 DEF ProcessTimeout
    <3>2. veto.number >= 1
      BY <2>1, <3>1 DEF Cursors, SessionOK, is_timed_out, None
    <3>3. PICK map \in veto.remaining : Continue(p, Recording(veto, map, veto.turn, "timeout"))
      BY <3>1
    <3>4. FreshOK(Recording(veto, map, veto.turn, "timeout"))
      BY <2>1, <3>1, <3>2, RecordingOK
    <3> QED BY <1>1, <3>3, <3>4, Moves, QuietStep
  <2> QED BY <2>2, <2>3
<1> QED BY <1>2, <1>3, <1>4

\* spinning the wheel and chaining deciders,
LEMMA SpinsAreQuiet ==
    ASSUME Cursors, NEW p \in Tasks, SpinWheel(p) \/ PerformWheelAction(p) \/ ChainDeciders(p)
    PROVE  Quiet(p)
<1>1. UNCHANGED <<veto, vetoActions, vetoFlips>>
  BY DEF SpinWheel, PerformWheelAction, ChainDeciders, vetoTables
<1>2. CASE SpinWheel(p)
  <2>1. veto # NoSession
    BY <1>2 DEF SpinWheel
  <2>2. PICK map \in veto.remaining :
            Request(p, [pc |-> "veto spin", map |-> map, expected |-> veto.number])
    BY <1>2 DEF SpinWheel
  <2> DEFINE r == [pc |-> "veto spin", map |-> map, expected |-> veto.number]
  <2>3. req' = [req EXCEPT ![p] = r]
    BY <2>2, Moves
  <2>4. FreshOK(r)
    BY <2>1 DEF FreshOK, RequestOK, Actors
  <2> HIDE DEF r
  <2> QED BY <1>1, <2>3, <2>4, QuietStep
<1>3. CASE PerformWheelAction(p) /\ ~Finish(p)
  <2>1. /\ veto.status = "in_progress" /\ req[p].map \in veto.remaining
        /\ ~is_complete_at(veto.format, veto.number)
        /\ Continue(p, Recording(veto, req[p].map, None, "wheel"))
    BY <1>3 DEF PerformWheelAction
  <2>2. veto # NoSession
    BY <1>3 DEF PerformWheelAction, At, Cursors, RequestOK
  <2>3. veto.number >= 1
    BY <2>1, <2>2 DEF Cursors, SessionOK
  <2>4. FreshOK(Recording(veto, req[p].map, None, "wheel"))
    BY <2>1, <2>2, <2>3, RecordingOK
  <2> QED BY <1>1, <2>1, <2>4, Moves, QuietStep
<1>4. CASE ChainDeciders(p) /\ ~Finish(p)
  <2>1. /\ ~is_complete_at(veto.format, veto.number) /\ veto.remaining # {}
        /\ Continue(p, Recording(veto, Min(veto.remaining), None, req[p].via))
    BY <1>4 DEF ChainDeciders
  <2>2. veto # NoSession /\ veto.number >= 1 /\ req[p].via \in {"player", "wheel", "timeout"}
    BY <1>4 DEF ChainDeciders, At, Cursors, RequestOK
  <2>3. CursorOK(veto)
    BY <2>2 DEF Cursors, SessionOK
  <2>4. veto.remaining \subseteq Nat
    BY <2>3, SessionFormat DEF CursorOK, IsPrefix
  <2>5. Min(veto.remaining) \in veto.remaining
    BY <2>1, <2>4, MinOfNaturals
  <2>6. FreshOK(Recording(veto, Min(veto.remaining), None, req[p].via))
    BY <2>1, <2>2, <2>5, RecordingOK
  <2> QED BY <1>1, <2>1, <2>6, Moves, QuietStep
<1>5. CASE Finish(p)
  BY <1>1, <1>5, Moves, IdleOK, QuietStep DEF Finish
<1> QED BY <1>2, <1>3, <1>4, <1>5

\* and everything else that writes no table.
LEMMA RestIsQuiet ==
    ASSUME Cursors, NEW p \in Tasks,
           \/ TriggerAssignment(p) \/ BroadcastSpin(p) \/ SelectSide(p)
           \/ CancelSessionForMatch(p) \/ MatchCalledOff(p) \/ VetoDie(p)
    PROVE  Quiet(p)
<1>1. UNCHANGED <<veto, vetoActions, vetoFlips>>
  BY DEF TriggerAssignment, BroadcastSpin, SelectSide, CancelSessionForMatch, MatchCalledOff,
         VetoDie, vetoTables
<1>2. FreshOK([pc |-> "veto cancel"])
  BY DEF FreshOK, RequestOK, Actors
<1>3. CASE TriggerAssignment(p) \/ BroadcastSpin(p) \/ VetoDie(p)
  BY <1>1, <1>3, IdleOK, QuietStep
     DEF TriggerAssignment, BroadcastSpin, VetoDie, Die, Finish, Continue
<1>4. CASE CancelSessionForMatch(p)
  <2>1. (veto # NoSession /\ Continue(p, [pc |-> "veto cancelled"])) \/ Finish(p)
    BY <1>4 DEF CancelSessionForMatch
  <2> QED BY <1>1, <2>1, Moves, PlainRequests, IdleOK, QuietStep DEF Finish
<1>5. CASE MatchCalledOff(p)
  BY <1>1, <1>2, <1>5, Moves, IdleOK, QuietStep DEF MatchCalledOff
<1>6. CASE SelectSide(p)
  <2>1. PICK n \in ActionNumbers, side \in Sides :
            /\ vetoActions[n].type = "pick"
            /\ Request(p, [pc |-> "veto choose", number |-> n, side |-> side])
    BY <1>6 DEF SelectSide
  <2> DEFINE r == [pc |-> "veto choose", number |-> n, side |-> side]
  <2>2. req' = [req EXCEPT ![p] = r]
    BY <2>1, Moves
  <2>3. vetoActions[n] # NoAction
    <3>1. NoAction.type # "pick"
      BY DEF NoAction, None
    <3> QED BY <2>1, <3>1
  <2>4. FreshOK(r)
    BY <2>3 DEF FreshOK, RequestOK, Actors
  <2> HIDE DEF r
  <2> QED BY <1>1, <2>2, <2>4, QuietStep
<1> QED BY <1>3, <1>4, <1>5, <1>6

-----------------------------------------------------------------------------
(* The actions that write the session *)

\* A new session stands at its first action.
LEMMA NewSession ==
    ASSUME NEW setup \in VetoSetups
    PROVE  CursorOK(CreatedSession(setup))
<1> DEFINE t == CreatedSession(setup)
<1>1. t \in SessionType
  BY VetoAssumption DEF VetoAssumption, CreatedSession, SessionType, VetoStatus, None, MaxActions
<1>2. t.number = 0 /\ t.remaining = t.pool /\ t.selected = <<>>
  BY DEF CreatedSession
<1> HIDE DEF t
<1>3. Len(t.format) \in Nat
  BY <1>1, SessionFormat
<1>4. MapsOf(0) = {} /\ PlayedOf(0) = {} /\ Chosen(t) = {}
  BY <1>2 DEF MapsOf, PlayedOf, Chosen
<1>5. IsPrefix(t)
  BY <1>2, <1>3, <1>4 DEF IsPrefix
<1>6. CursorOK(t)
  BY <1>1, <1>2, <1>3, <1>5 DEF CursorOK
<1> QED BY <1>6 DEF t

\* The insert of a session.
LEMMA InsertKeepsCursors ==
    ASSUME Cursors, NEW p \in Tasks, SessionInsert(p)
    PROVE  Cursors'
<1>1. CASE veto = NoSession
  <2>1. req[p].setup \in VetoSetups
    BY DEF SessionInsert, At, Cursors, RequestOK
  <2> DEFINE t == CreatedSession(req[p].setup)
  <2>2. CursorOK(t)
    BY <2>1, NewSession
  <2>3. veto' = t /\ UNCHANGED vetoActions
    BY <1>1 DEF SessionInsert, CreateVetoSession
  <2>4. t.deadline = None /\ t.status = "pending"
    BY DEF CreatedSession
  <2> HIDE DEF t
  <2>5. SessionWritten(t)
    BY <1>1, <2>2, <2>3, <2>4 DEF SessionWritten
  <2>6. RequestOK(NoRequest)' /\ RequestOK([pc |-> "veto start"])'
    <3>1. veto' # NoSession
      BY <2>5, SessionWrites
    <3> QED BY <3>1 DEF RequestOK, Actors, NoRequest
  <2>7. req' = [req EXCEPT ![p] = NoRequest] \/ req' = [req EXCEPT ![p] = [pc |-> "veto start"]]
    BY DEF SessionInsert, Finish, Continue
  <2> QED BY <2>5, <2>6, <2>7, SessionStep
<1>2. CASE veto # NoSession
  <2>1. UNCHANGED <<veto, vetoActions>> /\ req' = [req EXCEPT ![p] = NoRequest]
    BY <1>2 DEF SessionInsert, Finish, Continue
  <2>2. RequestOK(NoRequest)
    BY IdleOK DEF FreshOK
  <2> QED BY <2>1, <2>2, RequestStep
<1> QED BY <1>1, <1>2

\* What the statements may write to a column.
LEMMA ColumnsOK ==
    ASSUME NEW s \in SessionType
    PROVE  /\ \A x \in VetoStatus : [s EXCEPT !.status = x] \in SessionType
           /\ [s EXCEPT !.number = 1] \in SessionType
           /\ \A x \in Registrations \cup {None} :
                  /\ [s EXCEPT !.turn = x] \in SessionType
                  /\ [s EXCEPT !.first = x] \in SessionType
                  /\ [s EXCEPT !.winner = x] \in SessionType
           /\ \A x \in {None, "running", "passed"} : [s EXCEPT !.deadline = x] \in SessionType
<1>1. \A x \in VetoStatus : [s EXCEPT !.status = x] \in SessionType
  BY DEF SessionType
<1>2. [s EXCEPT !.number = 1] \in SessionType
  BY DEF SessionType, MaxActions
<1>3. ASSUME NEW x \in Registrations \cup {None}
      PROVE  /\ [s EXCEPT !.turn = x] \in SessionType
             /\ [s EXCEPT !.first = x] \in SessionType
             /\ [s EXCEPT !.winner = x] \in SessionType
  BY DEF SessionType
<1>4. \A x \in {None, "running", "passed"} : [s EXCEPT !.deadline = x] \in SessionType
  BY DEF SessionType
<1> QED BY <1>1, <1>2, <1>3, <1>4

\* A session keeps its columns where the statement names none.
LEMMA SessionColumns ==
    ASSUME Cursors, veto # NoSession
    PROVE  /\ veto \in SessionType /\ CursorOK(veto)
           /\ DOMAIN veto = {"status", "format", "mode", "pool", "remaining", "selected",
                             "number", "turn", "first", "winner", "deadline"}
<1>1. veto \in SessionType /\ CursorOK(veto)
  BY DEF Cursors, SessionOK, CursorOK
<1> QED BY <1>1 DEF SessionType

\* start_session: a wheel is under way at once, a veto waits for its coin.
LEMMA StartedSessionIs ==
    ASSUME Cursors, NEW p \in Tasks, StartSessionUpdate(p)
    PROVE  \/ /\ req[p].wheel
              /\ veto' = [veto EXCEPT !.status = "in_progress", !.number = 1, !.turn = None,
                                      !.deadline = None]
           \/ ~req[p].wheel /\ veto' = [veto EXCEPT !.status = "coin_flip"]
<1>0. veto # NoSession
  BY DEF StartSessionUpdate, At, Cursors, RequestOK
<1>1. DOMAIN veto = {"status", "format", "mode", "pool", "remaining", "selected",
                     "number", "turn", "first", "winner", "deadline"}
  BY <1>0, SessionColumns
<1>2. CASE req[p].wheel
  <2> DEFINE columns == [status |-> "in_progress", number |-> 1, turn |-> None,
                         deadline |-> None]
             t == [veto EXCEPT !.status = "in_progress", !.number = 1, !.turn = None,
                               !.deadline = None]
  <2>1. veto' = [c \in DOMAIN veto |-> IF c \in DOMAIN columns THEN columns[c] ELSE veto[c]]
    BY <1>2 DEF StartSessionUpdate, UpdateVetoSession
  <2>2. DOMAIN columns = {"status", "number", "turn", "deadline"}
    OBVIOUS
  <2>3. t = [c \in DOMAIN veto |-> t[c]]
    OBVIOUS
  <2>4. ASSUME NEW c \in DOMAIN veto
        PROVE  t[c] = IF c \in DOMAIN columns THEN columns[c] ELSE veto[c]
    <3>1. CASE c \in DOMAIN columns
      <4>1. CASE c = "status"
        BY <1>1, <4>1
      <4>2. CASE c = "number"
        BY <1>1, <4>2
      <4>3. CASE c = "turn"
        BY <1>1, <4>3
      <4>4. CASE c = "deadline"
        BY <1>1, <4>4
      <4> QED BY <4>1, <4>2, <4>3, <4>4, <2>2, <3>1
    <3>2. CASE c \notin DOMAIN columns
      BY <2>2, <3>2
    <3> QED BY <3>1, <3>2
  <2> HIDE DEF t, columns
  <2>5. veto' = t
    BY <2>1, <2>3, <2>4
  <2> QED BY <1>2, <2>5 DEF t
<1>3. CASE ~req[p].wheel
  <2>1. UpdateVetoSession([status |-> "coin_flip"])
    BY <1>3 DEF StartSessionUpdate
  <2> QED BY <1>1, <1>3, <2>1 DEF UpdateVetoSession
<1> QED BY <1>2, <1>3

\* The update that starts it.
LEMMA StartKeepsCursors ==
    ASSUME Cursors, NEW p \in Tasks, StartSessionUpdate(p)
    PROVE  Cursors'
<1>1. veto # NoSession /\ req[p].wheel = ~has_team_actions(veto.format)
  BY DEF StartSessionUpdate, At, Cursors, RequestOK
<1>2. req' = [req EXCEPT ![p] = NoRequest] /\ UNCHANGED vetoActions
  BY DEF StartSessionUpdate, Finish, Continue
<1>3. RequestOK(NoRequest)'
  BY DEF RequestOK, Actors, NoRequest
<1>4. \/ /\ req[p].wheel
         /\ veto' = [veto EXCEPT !.status = "in_progress", !.number = 1, !.turn = None,
                                 !.deadline = None]
      \/ ~req[p].wheel /\ veto' = [veto EXCEPT !.status = "coin_flip"]
  BY StartedSessionIs
<1>5. CASE /\ req[p].wheel
           /\ veto' = [veto EXCEPT !.status = "in_progress", !.number = 1, !.turn = None,
                                   !.deadline = None]
  <2> DEFINE t == [veto EXCEPT !.status = "in_progress", !.number = 1, !.turn = None,
                               !.deadline = None]
  <2>1. t \in SessionType
    <3>1. veto \in SessionType
      BY <1>1, SessionColumns
    <3>2. PICK a \in SessionType : a = [veto EXCEPT !.status = "in_progress"]
      BY <3>1, ColumnsOK DEF VetoStatus
    <3>3. PICK b \in SessionType : b = [a EXCEPT !.number = 1]
      BY ColumnsOK
    <3>4. PICK c \in SessionType : c = [b EXCEPT !.turn = None]
      BY ColumnsOK
    <3>5. [c EXCEPT !.deadline = None] \in SessionType
      BY ColumnsOK
    <3> QED BY <3>2, <3>3, <3>4, <3>5
  <2>2. CursorOK(t)
    BY <1>1, <2>1, SessionColumns, CursorResets
  <2>3. SessionWritten(t)
    BY <1>1, <1>2, <1>5, <2>2, SessionColumns DEF SessionWritten
  <2> HIDE DEF t
  <2> QED BY <1>2, <1>3, <2>3, SessionStep
<1>6. CASE ~req[p].wheel /\ veto' = [veto EXCEPT !.status = "coin_flip"]
  <2> DEFINE t == [veto EXCEPT !.status = "coin_flip"]
  <2>1. t \in SessionType
    BY <1>1, SessionColumns DEF SessionType, VetoStatus
  <2>2. CursorOK(t)
    BY <1>1, <2>1, SessionColumns, CursorResets
  <2>3. has_team_actions(t.format)
    BY <1>1, <1>6, SessionColumns
  <2>4. SessionWritten(t)
    BY <1>1, <1>2, <1>6, <2>2, <2>3, SessionColumns DEF SessionWritten, Cursors, SessionOK
  <2> HIDE DEF t
  <2> QED BY <1>2, <1>3, <2>4, SessionStep
<1> QED BY <1>4, <1>5, <1>6

\* The update of the coin flip.
LEMMA FlipKeepsCursors ==
    ASSUME Cursors, NEW p \in Tasks, CoinFlipUpdate(p)
    PROVE  Cursors'
<1> DEFINE t == [veto EXCEPT !.winner = req[p].winner, !.first = req[p].first, !.number = 1,
                             !.turn = req[p].first, !.status = "in_progress",
                             !.deadline = "running"]
<1>1. veto # NoSession /\ req[p].winner \in Registrations /\ req[p].first \in Registrations
  BY DEF CoinFlipUpdate, At, Cursors, RequestOK
<1>2. req' = [req EXCEPT ![p] = NoRequest] /\ UNCHANGED vetoActions
  BY DEF CoinFlipUpdate, Finish, Continue
<1>3. RequestOK(NoRequest)'
  BY DEF RequestOK, Actors, NoRequest
<1>4. veto' = t
  <2>1. DOMAIN veto = {"status", "format", "mode", "pool", "remaining", "selected",
                       "number", "turn", "first", "winner", "deadline"}
    BY <1>1, SessionColumns
  <2> DEFINE columns == [winner |-> req[p].winner, first |-> req[p].first, number |-> 1,
                         turn |-> req[p].first, status |-> "in_progress",
                         deadline |-> "running"]
  <2>2. veto' = [c \in DOMAIN veto |-> IF c \in DOMAIN columns THEN columns[c] ELSE veto[c]]
    BY DEF CoinFlipUpdate, UpdateVetoSession
  <2>3. DOMAIN columns = {"winner", "first", "number", "turn", "status", "deadline"}
    OBVIOUS
  <2>4. t = [c \in DOMAIN veto |-> t[c]]
    OBVIOUS
  <2>5. ASSUME NEW c \in DOMAIN veto
        PROVE  t[c] = IF c \in DOMAIN columns THEN columns[c] ELSE veto[c]
    <3>1. CASE c \in DOMAIN columns
      <4>1. CASE c = "winner"
        BY <2>1, <4>1
      <4>2. CASE c = "first"
        BY <2>1, <4>2
      <4>3. CASE c = "number"
        BY <2>1, <4>3
      <4>4. CASE c = "turn"
        BY <2>1, <4>4
      <4>5. CASE c = "status"
        BY <2>1, <4>5
      <4>6. CASE c = "deadline"
        BY <2>1, <4>6
      <4> QED BY <4>1, <4>2, <4>3, <4>4, <4>5, <4>6, <2>3, <3>1
    <3>2. CASE c \notin DOMAIN columns
      BY <2>3, <3>2
    <3> QED BY <3>1, <3>2
  <2> HIDE DEF t, columns
  <2> QED BY <2>2, <2>4, <2>5
<1>5. t \in SessionType
  <2>1. veto \in SessionType
    BY <1>1, SessionColumns
  <2>2. PICK a \in SessionType : a = [veto EXCEPT !.winner = req[p].winner]
    BY <1>1, <2>1, ColumnsOK
  <2>3. PICK b \in SessionType : b = [a EXCEPT !.first = req[p].first]
    BY <1>1, ColumnsOK
  <2>4. PICK c \in SessionType : c = [b EXCEPT !.number = 1]
    BY ColumnsOK
  <2>5. PICK d \in SessionType : d = [c EXCEPT !.turn = req[p].first]
    BY <1>1, ColumnsOK
  <2>6. PICK e \in SessionType : e = [d EXCEPT !.status = "in_progress"]
    BY ColumnsOK DEF VetoStatus
  <2>7. [e EXCEPT !.deadline = "running"] \in SessionType
    BY ColumnsOK
  <2> QED BY <2>2, <2>3, <2>4, <2>5, <2>6, <2>7
<1>6. CursorOK(t)
  BY <1>1, <1>5, SessionColumns, CursorResets
<1>7. SessionWritten(t)
  BY <1>1, <1>2, <1>4, <1>6, SessionColumns DEF SessionWritten
<1> HIDE DEF t
<1> QED BY <1>2, <1>3, <1>7, SessionStep

\* The cancellation.
LEMMA CancelKeepsCursors ==
    ASSUME Cursors, NEW p \in Tasks, CancelUpdate(p)
    PROVE  Cursors'
<1> DEFINE t == [veto EXCEPT !.status = "cancelled"]
<1>1. veto # NoSession
  BY DEF CancelUpdate, At, Cursors, RequestOK
<1>2. req' = [req EXCEPT ![p] = NoRequest] /\ UNCHANGED vetoActions
  BY DEF CancelUpdate, Finish, Continue
<1>3. RequestOK(NoRequest)'
  BY DEF RequestOK, Actors, NoRequest
<1>4. veto' = t
  <2>1. UpdateVetoSession([status |-> "cancelled"])
    BY DEF CancelUpdate
  <2> QED BY <1>1, <2>1, SessionColumns DEF UpdateVetoSession
<1>5. t \in SessionType
  BY <1>1, SessionColumns DEF SessionType, VetoStatus
<1>6. CursorOK(t)
  BY <1>1, <1>5, SessionColumns, CursorResets
<1>7. SessionWritten(t)
  BY <1>1, <1>2, <1>4, <1>6, SessionColumns DEF SessionWritten, Cursors, SessionOK
<1> HIDE DEF t
<1> QED BY <1>2, <1>3, <1>7, SessionStep

\* The deadline moves nothing but time.
LEMMA DeadlineKeepsCursors ==
    ASSUME Cursors, DeadlinePasses
    PROVE  Cursors'
<1> DEFINE t == [veto EXCEPT !.deadline = "passed"]
<1>1. veto # NoSession /\ veto.deadline # None
  BY DEF DeadlinePasses, None
<1>2. UNCHANGED <<req, vetoActions>>
  BY DEF DeadlinePasses, requestVars
<1>3. veto' = t
  BY <1>1, SessionColumns DEF DeadlinePasses, UpdateVetoSession
<1>4. t \in SessionType
  BY <1>1, SessionColumns DEF SessionType
<1>5. CursorOK(t)
  BY <1>1, <1>4, SessionColumns, CursorResets
<1>6. SessionWritten(t)
  BY <1>1, <1>2, <1>3, <1>5, SessionColumns DEF SessionWritten, Cursors, SessionOK
<1> HIDE DEF t
<1>7. SessionOK' /\ RowsOK' /\ Grows /\ Keeps
  BY <1>6, SessionWrites
<1> QED BY <1>2, <1>7, RequestsStay DEF Cursors

\* The cursor behind the action of s on map, as the statement writes it.
LEMMA AdvancedColumns ==
    ASSUME Cursors, veto # NoSession, NEW s \in SessionType, NEW map \in Maps,
           s.number \in 1 .. Len(s.format), s.format = veto.format,
           UpdateVetoSession(Advanced(s, map))
    PROVE  /\ veto' \in SessionType
           /\ veto'.format = veto.format /\ veto'.pool = veto.pool /\ veto'.mode = veto.mode
           /\ veto'.first = veto.first
           /\ veto'.number = s.number + 1 /\ veto'.remaining = s.remaining \ {map}
           /\ veto'.selected = Advanced(s, map).selected
           /\ veto'.status = IF s.number = Len(s.format) THEN "completed" ELSE "in_progress"
           /\ veto'.turn = IF s.number = Len(s.format) THEN None
                           ELSE determine_next_team(s, s.number + 1)
<1> DEFINE columns == Advanced(s, map)
<1>1. veto \in SessionType
      /\ DOMAIN veto = {"status", "format", "mode", "pool", "remaining", "selected",
                        "number", "turn", "first", "winner", "deadline"}
  BY SessionColumns
<1>2. DOMAIN columns = {"number", "remaining", "selected", "status", "turn", "deadline"}
  BY DEF Advanced
<1>3. Len(s.format) \in Nat /\ Len(s.format) <= 7 /\ s.number \in Nat
  BY SessionFormat DEF MaxActions
<1>4. is_complete_at(s.format, s.number + 1) <=> s.number = Len(s.format)
  BY <1>3 DEF is_complete_at
<1>5. /\ columns.number = s.number + 1 /\ columns.remaining = s.remaining \ {map}
      /\ columns.status = IF s.number = Len(s.format) THEN "completed" ELSE "in_progress"
      /\ columns.turn = IF s.number = Len(s.format) THEN None
                        ELSE determine_next_team(s, s.number + 1)
  BY <1>4 DEF Advanced
<1>6. columns.number \in 0 .. MaxActions + 1
  BY <1>3, <1>5 DEF MaxActions
<1>7. columns.remaining \in SUBSET Maps /\ s.remaining \in SUBSET Maps
  BY <1>5 DEF SessionType, Maps
<1>8. columns.selected \in Seq(Maps)
  <2>1. s.selected \in Seq(Maps)
    BY DEF SessionType, Maps
  <2> QED BY <2>1, AppendProperties DEF Advanced
<1>9. columns.turn \in Registrations \cup {None}
  <2>1. s.first \in Registrations \cup {None}
    BY DEF SessionType
  <2> QED BY <1>5, <2>1 DEF determine_next_team, OtherSide, Registrations
<1>10. columns.status \in VetoStatus
  BY <1>5 DEF VetoStatus
<1>11. columns.deadline \in {None, "running", "passed"}
  BY DEF Advanced
<1>12. veto' = [c \in DOMAIN veto |-> IF c \in DOMAIN columns THEN columns[c] ELSE veto[c]]
  BY DEF UpdateVetoSession
<1> HIDE DEF columns
<1>13. DOMAIN veto' = DOMAIN veto
       /\ \A c \in DOMAIN veto :
              veto'[c] = IF c \in DOMAIN columns THEN columns[c] ELSE veto[c]
  BY <1>12
<1>14. /\ veto'.number = columns.number /\ veto'.remaining = columns.remaining
       /\ veto'.selected = columns.selected /\ veto'.status = columns.status
       /\ veto'.turn = columns.turn /\ veto'.deadline = columns.deadline
  BY <1>1, <1>2, <1>13
<1>15. /\ veto'.format = veto.format /\ veto'.pool = veto.pool /\ veto'.mode = veto.mode
       /\ veto'.first = veto.first /\ veto'.winner = veto.winner
  BY <1>1, <1>2, <1>13
<1>16. veto' = [status |-> columns.status, format |-> veto.format, mode |-> veto.mode,
                pool |-> veto.pool, remaining |-> columns.remaining,
                selected |-> columns.selected, number |-> columns.number,
                turn |-> columns.turn, first |-> veto.first, winner |-> veto.winner,
                deadline |-> columns.deadline]
  BY <1>1, <1>12, <1>13, <1>14, <1>15
<1>17. veto' \in SessionType
  <2>1. /\ veto.format \in {x.format : x \in VetoSetups} /\ veto.mode \in SideSelectionMode
        /\ veto.pool \in {x.pool : x \in VetoSetups}
        /\ veto.first \in Registrations \cup {None} /\ veto.winner \in Registrations \cup {None}
    BY <1>1 DEF SessionType
  <2> QED BY <1>6, <1>7, <1>8, <1>9, <1>10, <1>11, <1>16, <2>1 DEF SessionType, Maps
<1> QED BY <1>5, <1>14, <1>15, <1>17 DEF columns

\* The cursor moves over the row that was inserted before.
LEMMA AdvanceKeepsCursors ==
    ASSUME Cursors, NEW p \in Tasks, CursorUpdate(p)
    PROVE  Cursors'
<1>1. PICK s, map : s = req[p].snap /\ map = req[p].map
  OBVIOUS
<1>2. ActorOK(req[p]) /\ req[p].pc = "veto advance"
  BY DEF CursorUpdate, At, Cursors, RequestOK, Actors
<1>3. /\ veto # NoSession /\ s \in SessionType /\ CursorOK(s) /\ map \in Maps
      /\ s.number \in 1 .. Len(s.format)
      /\ s.format = veto.format /\ s.pool = veto.pool
      /\ vetoActions[s.number] # NoAction /\ map = vetoActions[s.number].map
      /\ req[p].via \in {"player", "wheel", "timeout"}
  BY <1>1, <1>2 DEF ActorOK, Recordings, CursorOK
<1>4. UpdateVetoSession(Advanced(s, map)) /\ UNCHANGED vetoActions
  BY <1>1 DEF CursorUpdate
<1>5. PICK t : t = veto'
  OBVIOUS
<1>6. /\ t \in SessionType
      /\ t.format = veto.format /\ t.pool = veto.pool /\ t.mode = veto.mode
      /\ t.number = s.number + 1 /\ t.remaining = s.remaining \ {map}
      /\ t.selected = Advanced(s, map).selected
      /\ t.status = IF s.number = Len(s.format) THEN "completed" ELSE "in_progress"
  BY <1>3, <1>4, <1>5, AdvancedColumns
<1>7. CursorOK(t)
  BY <1>3, <1>6, CursorAdvances
<1>8. s.number \in Nat /\ s.number >= 1 /\ Len(s.format) \in Nat
  BY <1>3, SessionFormat
<1>9. SessionWritten(t)
  BY <1>3, <1>4, <1>5, <1>6, <1>7, <1>8 DEF SessionWritten
<1>10. veto' # NoSession /\ veto'.number >= 1
  BY <1>5, <1>6, <1>8, NotNoSession
<1>11. PICK via, drawn : via = req[p].via /\ drawn = req[p].drawn
  OBVIOUS
<1>12. /\ RequestOK([pc |-> "veto assign", via |-> via, map |-> map, drawn |-> drawn])'
       /\ RequestOK([pc |-> "veto spun", map |-> map, drawn |-> drawn])'
       /\ RequestOK(NoRequest)'
  BY DEF RequestOK, Actors, NoRequest
<1>13. RequestOK([pc |-> "veto decider", via |-> via])'
  BY <1>3, <1>10, <1>11 DEF RequestOK, Actors
<1>14. \/ req' = [req EXCEPT ![p] = [pc |-> "veto assign", via |-> via, map |-> map,
                                     drawn |-> drawn]]
       \/ req' = [req EXCEPT ![p] = [pc |-> "veto decider", via |-> via]]
       \/ req' = [req EXCEPT ![p] = [pc |-> "veto spun", map |-> map, drawn |-> drawn]]
       \/ req' = [req EXCEPT ![p] = NoRequest]
  BY <1>1, <1>11 DEF CursorUpdate, Finish, Continue
<1> QED BY <1>9, <1>12, <1>13, <1>14, SessionStep

-----------------------------------------------------------------------------
(* The actions that write an action row *)

\* The action that is recorded comes right after the rows there are, on a map none of them has.
LEMMA RowIsNew ==
    ASSUME Cursors, NEW s, CursorOK(s), veto # NoSession, s.format = veto.format,
           s.pool = veto.pool, NEW n, n = s.number, n \in 1 .. Len(s.format),
           vetoActions[n] = NoAction, NEW map \in s.remaining
    PROVE  /\ n \in ActionNumbers /\ map \in veto.pool
           /\ \A m \in 1 .. n - 1 : vetoActions[m] # NoAction /\ vetoActions[m].map # map
           /\ \A m \in ActionNumbers : m >= n => vetoActions[m] = NoAction
<1>1. s \in SessionType /\ Len(s.format) \in Nat /\ Len(s.format) <= 7
  BY SessionFormat DEF CursorOK, MaxActions
<1>2. PICK k \in 0 .. Len(s.format) :
        /\ n <= k + 1
        /\ \A i \in 1 .. k : vetoActions[i] # NoAction
        /\ s.remaining = s.pool \ MapsOf(k)
  BY DEF CursorOK, IsPrefix
<1>3. n = k + 1
  BY <1>1, <1>2
<1>4. \A m \in 1 .. n - 1 : vetoActions[m] # NoAction /\ vetoActions[m].map # map
  BY <1>1, <1>2, <1>3 DEF MapsOf
<1>5. n \in ActionNumbers
  BY <1>1 DEF ActionNumbers, MaxActions
<1>6. \A m \in ActionNumbers : m >= n => vetoActions[m] = NoAction
  BY <1>5 DEF Cursors, RowsOK, ActionNumbers
<1> QED BY <1>2, <1>4, <1>5, <1>6

\* A row that is there keeps its number, its type and its map.
LEMMA RowInserted ==
    ASSUME Cursors, UNCHANGED veto, NEW s, CursorOK(s), veto # NoSession,
           s.format = veto.format, s.pool = veto.pool, NEW n, n = s.number,
           n \in 1 .. Len(s.format), NEW new \in Rows, new.type = veto.format[n].type,
           vetoActions[n] = NoAction => new.map \in s.remaining,
           vetoActions' = [vetoActions EXCEPT ![n] = CreateVetoAction(n, new)]
    PROVE  /\ Grows /\ RowsOK' /\ vetoActions' \in [ActionNumbers -> {NoAction} \cup Rows]
           /\ n \in ActionNumbers /\ vetoActions'[n] # NoAction
           /\ vetoActions'[n] = CreateVetoAction(n, new)
<1>1. vetoActions \in [ActionNumbers -> {NoAction} \cup Rows] /\ RowsOK
  BY DEF Cursors
<1>2. Len(s.format) \in Nat /\ Len(s.format) <= 7
  BY SessionFormat DEF CursorOK, MaxActions
<1>3. n \in ActionNumbers /\ n \in Nat
  BY <1>2 DEF ActionNumbers, MaxActions
<1>4. new # NoAction
  BY DEF Rows, NoAction
<1>5. CASE vetoActions[n] # NoAction
  <2>1. vetoActions' = vetoActions
    BY <1>1, <1>3, <1>5 DEF CreateVetoAction
  <2>2. Grows /\ RowsOK'
    BY <1>1, <2>1 DEF Grows, RowsOK
  <2> QED BY <1>1, <1>3, <1>5, <2>1, <2>2 DEF CreateVetoAction
<1>6. CASE vetoActions[n] = NoAction
  <2>1. /\ new.map \in veto.pool
        /\ \A m \in 1 .. n - 1 : vetoActions[m] # NoAction /\ vetoActions[m].map # new.map
        /\ \A m \in ActionNumbers : m >= n => vetoActions[m] = NoAction
    BY <1>6, RowIsNew
  <2>2. /\ vetoActions' \in [ActionNumbers -> {NoAction} \cup Rows]
        /\ vetoActions'[n] = new
        /\ \A m \in ActionNumbers : m # n => vetoActions'[m] = vetoActions[m]
    BY <1>1, <1>3, <1>6 DEF CreateVetoAction
  <2>3. 1 .. n \subseteq ActionNumbers
    BY <1>3 DEF ActionNumbers, MaxActions
  <2>4. Grows
    BY <1>6, <2>2 DEF Grows
  <2>5. ASSUME NEW m \in ActionNumbers, vetoActions'[m] # NoAction
        PROVE  /\ vetoActions'[m] \in Rows
               /\ veto # NoSession /\ m <= Len(veto.format)
               /\ vetoActions'[m].type = veto.format[m].type /\ vetoActions'[m].map \in veto.pool
               /\ \A i \in 1 .. m : vetoActions'[i] # NoAction
               /\ \A i \in 1 .. m - 1 : vetoActions'[i].map # vetoActions'[m].map
    <3>1. CASE m = n
      <4>1. \A i \in 1 .. n - 1 : vetoActions'[i] = vetoActions[i]
        BY <1>3, <2>2, <2>3
      <4>2. \A i \in 1 .. n : i = n \/ i \in 1 .. n - 1
        BY <1>3
      <4> QED BY <1>4, <2>1, <2>2, <3>1, <4>1, <4>2
    <3>2. CASE m # n
      <4>1. m < n /\ vetoActions'[m] = vetoActions[m] /\ vetoActions[m] # NoAction
        BY <1>3, <2>1, <2>2, <2>5, <3>2 DEF ActionNumbers
      <4>2. \A i \in 1 .. m : i \in ActionNumbers /\ vetoActions'[i] = vetoActions[i]
        BY <1>3, <2>2, <4>1 DEF ActionNumbers, MaxActions
      <4>3. \A i \in 1 .. m - 1 : i \in 1 .. m
        BY DEF ActionNumbers
      <4> QED BY <1>1, <4>1, <4>2, <4>3 DEF RowsOK
    <3> QED BY <3>1, <3>2
  <2>6. RowsOK'
    BY <2>5 DEF RowsOK
  <2>7. vetoActions'[n] = CreateVetoAction(n, new) /\ vetoActions'[n] # NoAction
    BY <1>4, <1>6, <2>2 DEF CreateVetoAction
  <2> QED BY <1>3, <2>2, <2>4, <2>6, <2>7
<1> QED BY <1>5, <1>6

\* The insert of an action.
LEMMA ActionKeepsCursors ==
    ASSUME Cursors, NEW p \in Tasks, ActionInsert(p)
    PROVE  Cursors'
<1>1. PICK s, old : s = req[p].snap /\ old = req[p]
  OBVIOUS
<1>2. ActorOK(old) /\ old.pc = "veto insert"
  BY <1>1 DEF ActionInsert, At, Cursors, RequestOK, Actors
<1>3. /\ veto # NoSession /\ CursorOK(s) /\ s \in SessionType /\ old \in Recordings
      /\ s.number \in 1 .. Len(s.format)
      /\ s.format = veto.format /\ s.pool = veto.pool /\ s.mode = veto.mode
      /\ old.by \in {None, s.turn} /\ old.map \in s.remaining /\ old.snap = s
  BY <1>1, <1>2 DEF ActorOK, CursorOK
<1> DEFINE new == [type |-> s.format[s.number].type, map |-> old.map, by |-> old.by,
                   side |-> None]
<1>4. new \in Rows
  <2>1. s.format[s.number].type \in VetoActionType
    <3>1. s.format \in Seq([team : 0 .. 2, type : VetoActionType])
      BY <1>3, SessionFormat
    <3>2. s.format[s.number] \in [team : 0 .. 2, type : VetoActionType]
      BY <1>3, <3>1, ElementOfSeq
    <3> QED BY <3>2
  <2>2. old.map \in Maps /\ old.by \in Registrations \cup {None}
    BY <1>3 DEF Recordings
  <2> QED BY <2>1, <2>2 DEF Rows
<1>5. new.type = veto.format[s.number].type /\ new.map \in s.remaining
  BY <1>3
<1>6. /\ UNCHANGED veto
      /\ vetoActions' = [vetoActions EXCEPT ![s.number] = CreateVetoAction(s.number, new)]
  BY <1>1 DEF ActionInsert
<1>7. PICK row : row = CreateVetoAction(s.number, new)
  OBVIOUS
<1>8. PICK label \in {"veto side", "veto advance"} :
          req' = [req EXCEPT ![p] = [old EXCEPT !.map = row.map, !.pc = label]]
  BY <1>1, <1>7 DEF ActionInsert, Continue
<1> HIDE DEF new
<1>9. /\ Grows /\ RowsOK' /\ vetoActions' \in [ActionNumbers -> {NoAction} \cup Rows]
      /\ s.number \in ActionNumbers /\ vetoActions'[s.number] # NoAction
      /\ vetoActions'[s.number] = row
  BY <1>3, <1>4, <1>5, <1>6, <1>7, RowInserted
<1> DEFINE r == [old EXCEPT !.map = row.map, !.pc = label]
<1>10. row \in Rows /\ row.map \in Maps
  BY <1>9 DEF Rows
<1>11. r \in Recordings /\ r.snap = s /\ r.by = old.by /\ r.map = row.map /\ r.pc = label
  BY <1>3, <1>10 DEF Recordings, Actors
<1>12. CursorOK(s)'
  BY <1>3, <1>9, GrowsPrefix
<1> HIDE DEF r
<1>13. ActorOK(r)'
  BY <1>3, <1>6, <1>9, <1>11, <1>12 DEF ActorOK
<1>14. RequestOK(r)'
  BY <1>11, <1>13 DEF RequestOK, Actors
<1>15. req' = [req EXCEPT ![p] = r]
  BY <1>8 DEF r
<1> QED BY <1>6, <1>9, <1>14, <1>15, RowStep

\* Choosing a side changes no other column of the row.
LEMMA SideWritten ==
    ASSUME Cursors, UNCHANGED veto, NEW n \in ActionNumbers, vetoActions[n] # NoAction,
           NEW side \in Sides, UpdateSideSelection(n, side)
    PROVE  /\ Grows /\ RowsOK' /\ vetoActions' \in [ActionNumbers -> {NoAction} \cup Rows]
           /\ vetoActions'[n] # NoAction /\ vetoActions'[n].map = vetoActions[n].map
           /\ \A m \in ActionNumbers : vetoActions'[m] # NoAction =>
                  vetoActions[m] # NoAction /\ vetoActions'[m].by = vetoActions[m].by
<1>1. vetoActions \in [ActionNumbers -> {NoAction} \cup Rows] /\ RowsOK
  BY DEF Cursors
<1>2. PICK row : row = [vetoActions[n] EXCEPT !.side = side]
  OBVIOUS
<1>3. /\ row \in Rows /\ row.map = vetoActions[n].map /\ row.type = vetoActions[n].type
      /\ row.by = vetoActions[n].by
  BY <1>1, <1>2 DEF Rows
<1>4. vetoActions' = [vetoActions EXCEPT ![n] = row]
  BY <1>2 DEF UpdateSideSelection
<1>5. row # NoAction
  BY <1>3 DEF Rows, NoAction
<1>6. /\ vetoActions' \in [ActionNumbers -> {NoAction} \cup Rows]
      /\ \A m \in ActionNumbers :
             /\ vetoActions'[m] = NoAction <=> vetoActions[m] = NoAction
             /\ vetoActions[m] # NoAction =>
                  /\ vetoActions'[m] \in Rows
                  /\ vetoActions'[m].map = vetoActions[m].map
                  /\ vetoActions'[m].type = vetoActions[m].type
                  /\ vetoActions'[m].by = vetoActions[m].by
  BY <1>1, <1>3, <1>4, <1>5
<1>7. \A m \in ActionNumbers : 1 .. m \subseteq ActionNumbers /\ 1 .. m - 1 \subseteq ActionNumbers
  BY DEF ActionNumbers, MaxActions
<1>8. Grows
  BY <1>6 DEF Grows
<1>9. RowsOK'
  <2> SUFFICES ASSUME NEW m \in ActionNumbers, vetoActions'[m] # NoAction
               PROVE  /\ vetoActions'[m] \in Rows
                      /\ veto # NoSession /\ m <= Len(veto.format)
                      /\ vetoActions'[m].type = veto.format[m].type
                      /\ vetoActions'[m].map \in veto.pool
                      /\ \A i \in 1 .. m : vetoActions'[i] # NoAction
                      /\ \A i \in 1 .. m - 1 : vetoActions'[i].map # vetoActions'[m].map
    BY DEF RowsOK
  <2>1. vetoActions[m] # NoAction
    BY <1>6
  <2>2. /\ veto # NoSession /\ m <= Len(veto.format)
        /\ vetoActions[m].type = veto.format[m].type /\ vetoActions[m].map \in veto.pool
        /\ \A i \in 1 .. m : vetoActions[i] # NoAction
        /\ \A i \in 1 .. m - 1 : vetoActions[i].map # vetoActions[m].map
    BY <1>1, <2>1 DEF RowsOK
  <2>3. \A i \in 1 .. m - 1 : i \in 1 .. m
    BY DEF ActionNumbers
  <2> QED BY <1>6, <1>7, <2>1, <2>2, <2>3
<1> QED BY <1>3, <1>6, <1>8, <1>9

\* So it leaves the cursor where it was.
LEMMA SidesKeepCursors ==
    ASSUME Cursors, NEW p \in Tasks, AssignSide(p) \/ SideSelectionUpdate(p)
    PROVE  Cursors'
<1>1. CASE AssignSide(p)
  <2>1. PICK s, old : s = req[p].snap /\ old = req[p]
    OBVIOUS
  <2>2. ActorOK(old) /\ old.pc = "veto side"
    BY <1>1, <2>1 DEF AssignSide, At, Cursors, RequestOK, Actors
  <2>3. /\ veto # NoSession /\ CursorOK(s) /\ s \in SessionType /\ old \in Recordings
        /\ s.number \in 1 .. Len(s.format)
        /\ s.format = veto.format /\ s.pool = veto.pool /\ s.mode = veto.mode
        /\ old.by \in {None, s.turn} /\ old.snap = s
        /\ vetoActions[s.number] # NoAction /\ old.map = vetoActions[s.number].map
    BY <2>1, <2>2 DEF ActorOK, CursorOK
  <2>4. s.number \in ActionNumbers
    <3>1. Len(s.format) \in Nat /\ Len(s.format) <= 7
      BY <2>3, SessionFormat DEF MaxActions
    <3> QED BY <2>3, <3>1 DEF ActionNumbers, MaxActions
  <2>5. PICK side \in Sides : UpdateSideSelection(s.number, side)
    BY <1>1, <2>1 DEF AssignSide
  <2>6. UNCHANGED veto /\ req' = [req EXCEPT ![p] = [old EXCEPT !.pc = "veto advance"]]
    BY <1>1, <2>1 DEF AssignSide, Continue
  <2>7. /\ Grows /\ RowsOK' /\ vetoActions' \in [ActionNumbers -> {NoAction} \cup Rows]
        /\ vetoActions'[s.number] # NoAction
        /\ vetoActions'[s.number].map = vetoActions[s.number].map
    BY <2>3, <2>4, <2>5, <2>6, SideWritten
  <2> DEFINE r == [old EXCEPT !.pc = "veto advance"]
  <2>8. r \in Recordings /\ r.snap = s /\ r.by = old.by /\ r.map = old.map /\ r.pc = "veto advance"
    BY <2>3 DEF Recordings, Actors
  <2>9. CursorOK(s)'
    BY <2>3, <2>7, GrowsPrefix
  <2> HIDE DEF r
  <2>10. ActorOK(r)'
    BY <2>3, <2>6, <2>7, <2>8, <2>9 DEF ActorOK
  <2>11. RequestOK(r)'
    BY <2>8, <2>10 DEF RequestOK, Actors
  <2>12. req' = [req EXCEPT ![p] = r]
    BY <2>6 DEF r
  <2> QED BY <2>6, <2>7, <2>11, <2>12, RowStep
<1>2. CASE SideSelectionUpdate(p)
  <2>1. PICK n, side : n = req[p].number /\ side = req[p].side
    OBVIOUS
  <2>2. n \in ActionNumbers /\ side \in Sides /\ vetoActions[n] # NoAction
    BY <1>2, <2>1 DEF SideSelectionUpdate, At, Cursors, RequestOK
  <2>3. /\ UNCHANGED veto /\ UpdateSideSelection(n, side)
        /\ req' = [req EXCEPT ![p] = NoRequest]
    BY <1>2, <2>1 DEF SideSelectionUpdate, Finish, Continue
  <2>4. RequestOK(NoRequest)'
    BY DEF RequestOK, Actors, NoRequest
  <2>5. Grows /\ RowsOK' /\ vetoActions' \in [ActionNumbers -> {NoAction} \cup Rows]
    BY <2>2, <2>3, SideWritten
  <2> QED BY <2>3, <2>4, <2>5, RowStep
<1> QED BY <1>1, <1>2

-----------------------------------------------------------------------------
(* The steps of VetoNext, by what they write *)

QuietAction(p) ==
    \/ CreateVetoSessionRequest(p) \/ EnsureVetoSession(p) \/ AutoCreateVetoSession(p)
    \/ StartVetoSession(p) \/ StartSession(p) \/ RecordCoinFlip(p) \/ AutoCoinFlip(p)
    \/ PerformAction(p) \/ ProcessVetoTimeout(p) \/ ProcessTimeout(p)
    \/ SpinWheel(p) \/ PerformWheelAction(p) \/ ChainDeciders(p)
    \/ TriggerAssignment(p) \/ BroadcastSpin(p) \/ SelectSide(p)
    \/ CancelSessionForMatch(p) \/ MatchCalledOff(p) \/ VetoDie(p)

\* A step is quiet, or one of the writes.
LEMMA StepKinds ==
    ASSUME VetoNext
    PROVE  \/ \E p \in Tasks : QuietAction(p)
           \/ \E p \in Tasks : SessionInsert(p) \/ StartSessionUpdate(p) \/ CoinFlipUpdate(p)
                               \/ CursorUpdate(p) \/ CancelUpdate(p)
           \/ \E p \in Tasks : ActionInsert(p) \/ AssignSide(p) \/ SideSelectionUpdate(p)
           \/ DeadlinePasses
BY DEF VetoNext, VetoWake, VetoRequest, VetoStep, QuietAction

\* The quiet ones are.
LEMMA QuietActions ==
    ASSUME Cursors, scenario.setups \subseteq VetoSetups, NEW p \in Tasks, QuietAction(p)
    PROVE  Quiet(p)
<1>1. ASSUME NEW winner \in Registrations, NEW goes_first \in BOOLEAN,
             FlipCoin(p, winner, goes_first)
      PROVE  Quiet(p)
  BY <1>1, FlipsAreQuiet
<1>2. ASSUME RecordCoinFlip(p) \/ AutoCoinFlip(p) PROVE Quiet(p)
  BY <1>1, <1>2 DEF RecordCoinFlip, AutoCoinFlip
<1> QED BY <1>2, CreationsAreQuiet, StartsAreQuiet, ActingIsQuiet, SpinsAreQuiet, RestIsQuiet
        DEF QuietAction

\* A quiet step moves one request.
LEMMA QuietKeepsCursors ==
    ASSUME Cursors, NEW p \in Tasks, Quiet(p)
    PROVE  Cursors'
<1>1. UNCHANGED <<veto, vetoActions>>
  BY DEF Quiet
<1>2. CASE UNCHANGED req
  BY <1>1, <1>2, NothingMoves
<1>3. ASSUME NEW r, req' = [req EXCEPT ![p] = r], FreshOK(r) PROVE Cursors'
  BY <1>1, <1>3, RequestStep DEF FreshOK
<1> QED BY <1>2, <1>3 DEF Quiet

\* Every step keeps sessions, rows and requests in line.
LEMMA CursorsKept ==
    ASSUME Cursors, scenario.setups \subseteq VetoSetups, [VetoNext]_vetoVars
    PROVE  Cursors'
<1>1. CASE UNCHANGED vetoVars
  BY <1>1, NothingMoves DEF vetoVars, vetoTables, requestVars
<1>2. CASE VetoNext
  BY <1>2, StepKinds, QuietActions, QuietKeepsCursors, InsertKeepsCursors, StartKeepsCursors,
     FlipKeepsCursors, AdvanceKeepsCursors, CancelKeepsCursors, ActionKeepsCursors,
     SidesKeepCursors, DeadlineKeepsCursors
<1> QED BY <1>1, <1>2

\* The bookkeeping of the requests.
LEMMA Bookkeeping ==
    ASSUME scenario \in Scenarios, crashes \in Nat, [VetoNext]_vetoVars
    PROVE  scenario' = scenario /\ crashes' \in Nat
<1>1. ASSUME NEW p, NEW r, Request(p, r) \/ Wake(p, r) \/ Begin(p, r) \/ Continue(p, r)
      PROVE  scenario' = scenario /\ crashes' \in Nat
  BY <1>1, Moves
<1>2. ASSUME NEW p \in Tasks, QuietAction(p) PROVE scenario' = scenario /\ crashes' \in Nat
  <2>1. CASE VetoDie(p)
    BY <2>1 DEF VetoDie, Die
  <2>2. CASE CreateVetoSessionRequest(p) \/ EnsureVetoSession(p) \/ AutoCreateVetoSession(p)
    BY <1>1, <2>2 DEF CreateVetoSessionRequest, EnsureVetoSession, AutoCreateVetoSession,
       CreateSession, requestVars
  <2>3. CASE StartVetoSession(p) \/ StartSession(p) \/ RecordCoinFlip(p) \/ AutoCoinFlip(p)
    BY <1>1, <2>3 DEF StartVetoSession, StartSession, RecordCoinFlip, AutoCoinFlip, FlipCoin,
       Finish
  <2>4. CASE PerformAction(p) \/ ProcessVetoTimeout(p) \/ ProcessTimeout(p)
    BY <1>1, <2>4 DEF PerformAction, ProcessVetoTimeout, ProcessTimeout, Finish
  <2>5. CASE SpinWheel(p) \/ PerformWheelAction(p) \/ ChainDeciders(p)
    BY <1>1, <2>5 DEF SpinWheel, PerformWheelAction, ChainDeciders, Finish
  <2>6. CASE \/ TriggerAssignment(p) \/ BroadcastSpin(p) \/ SelectSide(p)
             \/ CancelSessionForMatch(p) \/ MatchCalledOff(p)
    BY <1>1, <2>6 DEF TriggerAssignment, BroadcastSpin, SelectSide, CancelSessionForMatch,
       MatchCalledOff, Finish
  <2> QED BY <1>2, <2>1, <2>2, <2>3, <2>4, <2>5, <2>6 DEF QuietAction
<1>3. ASSUME NEW p \in Tasks, SessionInsert(p) \/ StartSessionUpdate(p) \/ CoinFlipUpdate(p)
                              \/ CancelUpdate(p) \/ SideSelectionUpdate(p)
      PROVE  scenario' = scenario /\ crashes' \in Nat
  BY <1>1, <1>3 DEF SessionInsert, StartSessionUpdate, CoinFlipUpdate, CancelUpdate,
     SideSelectionUpdate, Finish
<1>4. ASSUME NEW p \in Tasks, ActionInsert(p) \/ AssignSide(p)
      PROVE  scenario' = scenario /\ crashes' \in Nat
  BY <1>1, <1>4 DEF ActionInsert, AssignSide
<1>5. ASSUME NEW p \in Tasks, CursorUpdate(p) PROVE scenario' = scenario /\ crashes' \in Nat
  BY <1>1, <1>5 DEF CursorUpdate, Finish
<1>6. ASSUME DeadlinePasses PROVE scenario' = scenario /\ crashes' \in Nat
  BY <1>6 DEF DeadlinePasses, requestVars
<1>7. CASE UNCHANGED vetoVars
  BY <1>7 DEF vetoVars, requestVars
<1> QED BY <1>2, <1>3, <1>4, <1>5, <1>6, <1>7, StepKinds

-----------------------------------------------------------------------------
(* Whose turn it is *)

\* The coin: quiet steps leave it alone,
LEMMA FlipQuiet ==
    ASSUME Cursors, FlipOK, NEW p \in Tasks, Quiet(p)
    PROVE  FlipOK'
<1>1. UNCHANGED <<veto, vetoActions, vetoFlips>>
  BY DEF Quiet
<1>2. ASSUME NEW q \in Tasks, req'[q].pc \in Actors
      PROVE  \/ req[q].pc \in Actors /\ req'[q] = req[q]
             \/ req'[q].snap = veto /\ veto.number >= 1
  BY <1>2 DEF Quiet, FreshOK, Cursors
<1>3. TurnsFollowFormat' = TurnsFollowFormat
  BY <1>1 DEF TurnsFollowFormat
<1>4. vetoFlips' \in 0 .. 2 /\ (veto' = NoSession => vetoFlips' = 0)
  BY <1>1 DEF FlipOK
<1>5. CASE veto = NoSession
  BY <1>1, <1>4, <1>5 DEF FlipOK
<1>6. CASE veto # NoSession
  <2>1. veto.number = 0 => \A q \in Tasks : req'[q].pc \notin Actors
    BY <1>2, <1>6 DEF FlipOK
  <2>2. ASSUME vetoFlips < 2, NEW q \in Tasks, req'[q].pc \in Actors
        PROVE  req'[q].snap.first = veto.first /\ TurnOK(req'[q].snap)
    BY <1>2, <1>6, <2>2 DEF FlipOK
  <2> QED BY <1>1, <1>3, <1>4, <1>6, <2>1, <2>2 DEF FlipOK, TurnOK
<1> QED BY <1>5, <1>6

\* The columns of the session change, and nobody remembers it anew.
LEMMA FlipSession ==
    ASSUME Cursors, FlipOK, veto # NoSession, UNCHANGED <<vetoActions, vetoFlips>>,
           NEW t, veto' = t, t # NoSession, t.format = veto.format, t.first = veto.first,
           t.number = veto.number
               \/ (t.number \in Nat \ {0} /\ (vetoFlips # 0 \/ ~has_team_actions(veto.format))),
           vetoFlips < 2 => TurnOK(t),
           \A q \in Tasks : req'[q].pc \in Actors => req'[q] = req[q]
    PROVE  FlipOK'
<1>1. TurnsFollowFormat'
  BY DEF FlipOK, TurnsFollowFormat
<1>2. t.number = 0 => /\ \A n \in ActionNumbers : vetoActions[n] = NoAction
                      /\ \A q \in Tasks : req'[q].pc \notin Actors
  BY DEF FlipOK
<1>3. vetoFlips = 0 /\ has_team_actions(t.format) => t.number = 0
  BY DEF FlipOK
<1>4. ASSUME vetoFlips < 2, NEW q \in Tasks, req'[q].pc \in Actors
      PROVE  req'[q].snap.first = t.first /\ TurnOK(req'[q].snap)
  BY <1>4 DEF FlipOK
<1>5. vetoFlips \in 0 .. 2 /\ (vetoFlips # 0 => has_team_actions(t.format))
  BY DEF FlipOK
<1> QED BY <1>1, <1>2, <1>3, <1>4, <1>5 DEF FlipOK, TurnOK

\* Somebody acts, so the coin fell, or there is none.
LEMMA FlipRows ==
    ASSUME Cursors, FlipOK, veto # NoSession, UNCHANGED <<veto, vetoFlips>>,
           veto.number # 0,
           \A q \in Tasks : req'[q].pc \in Actors =>
               req[q].pc \in Actors /\ req'[q].snap = req[q].snap,
           vetoFlips = 1 =>
               \A n \in ActionNumbers :
                   /\ vetoActions'[n] # NoAction /\ vetoActions'[n].by # None
                   /\ veto.format[n].team # 0
                   => vetoActions'[n].by = IF veto.format[n].team = 1
                                           THEN veto.first ELSE OtherSide(veto.first)
    PROVE  FlipOK'
<1>1. TurnsFollowFormat'
  BY DEF TurnsFollowFormat
<1>2. ASSUME vetoFlips < 2, NEW q \in Tasks, req'[q].pc \in Actors
      PROVE  req'[q].snap.first = veto.first /\ TurnOK(req'[q].snap)
  BY <1>2 DEF FlipOK
<1> QED BY <1>1, <1>2 DEF FlipOK, TurnOK

\* a new session has not flipped it,
LEMMA FlipInsert ==
    ASSUME Cursors, FlipOK, NEW p \in Tasks, SessionInsert(p)
    PROVE  FlipOK'
<1>1. CASE veto = NoSession
  <2>1. PICK t : t = veto'
    OBVIOUS
  <2>2. PICK setup \in VetoSetups : setup = req[p].setup
    BY DEF SessionInsert, At, Cursors, RequestOK
  <2>3. t = CreatedSession(setup)
    BY <1>1, <2>1, <2>2 DEF SessionInsert, CreateVetoSession
  <2>4. t.number = 0 /\ t.turn = None /\ t # NoSession
    <3>1. t \in SessionType
      BY <2>3, NewSession DEF CursorOK
    <3> QED BY <2>3, <3>1, NotNoSession DEF CreatedSession
  <2>5. UNCHANGED <<vetoActions, vetoFlips>> /\ vetoFlips = 0
    BY <1>1 DEF SessionInsert, FlipOK
  <2>6. \A n \in ActionNumbers : vetoActions[n] = NoAction
    BY <1>1 DEF Cursors, RowsOK
  <2>7. \A q \in Tasks : req'[q].pc \notin Actors
    <3>1. \A q \in Tasks : req[q].pc \notin Actors
      BY <1>1 DEF Cursors, RequestOK, ActorOK
    <3>2. \/ req' = [req EXCEPT ![p] = NoRequest]
          \/ req' = [req EXCEPT ![p] = [pc |-> "veto start"]]
      BY <1>1 DEF SessionInsert, Finish, Continue
    <3>3. NoRequest.pc \notin Actors /\ [pc |-> "veto start"].pc \notin Actors
      BY DEF NoRequest, Actors
    <3> QED BY <3>1, <3>2, <3>3 DEF Cursors
  <2>8. TurnsFollowFormat'
    BY <2>5 DEF TurnsFollowFormat
  <2>9. TurnOK(t)
    BY <2>4 DEF TurnOK
  <2> QED BY <2>1, <2>4, <2>5, <2>6, <2>7, <2>8, <2>9 DEF FlipOK
<1>2. CASE veto # NoSession
  <2>1. Quiet(p)
    <3>1. /\ UNCHANGED <<veto, vetoActions, vetoFlips>>
          /\ req' = [req EXCEPT ![p] = NoRequest]
      BY <1>2 DEF SessionInsert, Finish, Continue
    <3> QED BY <3>1, IdleOK, QuietStep
  <2> QED BY <2>1, FlipQuiet
<1> QED BY <1>1, <1>2

\* A request that ends, or goes on without the session it read.
LEMMA OthersRemember ==
    ASSUME Cursors, NEW p \in Tasks, NEW r, req' = [req EXCEPT ![p] = r], r.pc \notin Actors
    PROVE  \A q \in Tasks : req'[q].pc \in Actors => req'[q] = req[q]
BY DEF Cursors

\* starting does not flip it,
LEMMA FlipStart ==
    ASSUME Cursors, Cursors', FlipOK, NEW p \in Tasks, StartSessionUpdate(p)
    PROVE  FlipOK'
<1>1. veto # NoSession /\ req[p].wheel = ~has_team_actions(veto.format)
  BY DEF StartSessionUpdate, At, Cursors, RequestOK
<1>2. UNCHANGED <<vetoActions, vetoFlips>> /\ req' = [req EXCEPT ![p] = NoRequest]
  BY DEF StartSessionUpdate, Finish, Continue
<1>3. NoRequest.pc \notin Actors
  BY DEF NoRequest, Actors
<1>4. \A q \in Tasks : req'[q].pc \in Actors => req'[q] = req[q]
  BY <1>2, <1>3, OthersRemember
<1>5. PICK t : t = veto'
  OBVIOUS
<1>6. \/ /\ req[p].wheel
         /\ t = [veto EXCEPT !.status = "in_progress", !.number = 1, !.turn = None,
                             !.deadline = None]
      \/ ~req[p].wheel /\ t = [veto EXCEPT !.status = "coin_flip"]
  BY <1>5, StartedSessionIs
<1>7. DOMAIN veto = {"status", "format", "mode", "pool", "remaining", "selected",
                     "number", "turn", "first", "winner", "deadline"}
  BY <1>1, SessionColumns
<1>8. t # NoSession
  <2>1. DOMAIN t = DOMAIN veto
    BY <1>6
  <2> QED BY <1>7, <2>1 DEF NoSession
<1>9. t.format = veto.format /\ t.first = veto.first
  BY <1>6, <1>7
<1>10. CASE req[p].wheel
  <2> DEFINE u == [veto EXCEPT !.status = "in_progress", !.number = 1, !.turn = None,
                               !.deadline = None]
  <2>0. t = u
    BY <1>6, <1>10
  <2>1. t.number = 1 /\ t.turn = None
    <3>1. u.number = 1
      BY <1>7
    <3>2. u.turn = None
      BY <1>7
    <3> QED BY <2>0, <3>1, <3>2
  <2>2. TurnOK(t)
    BY <2>1 DEF TurnOK
  <2>3. ~has_team_actions(veto.format)
    BY <1>1, <1>10, Zenon
  <2>4. t.number \in Nat \ {0}
    <3>1. 1 \in Nat \ {0}
      OBVIOUS
    <3> QED BY <2>1, <3>1
  <2> HIDE DEF u
  <2> QED BY <1>1, <1>2, <1>4, <1>5, <1>8, <1>9, <2>2, <2>3, <2>4, FlipSession
<1>11. CASE ~req[p].wheel
  <2>1. t.number = veto.number /\ t.turn = veto.turn
    BY <1>6, <1>7, <1>11
  <2>2. vetoFlips < 2 => TurnOK(t)
    BY <1>1, <1>9, <2>1 DEF FlipOK, TurnOK
  <2> QED BY <1>1, <1>2, <1>4, <1>5, <1>8, <1>9, <2>1, <2>2, FlipSession
<1> QED BY <1>1, <1>10, <1>11

\* cancelling does not either,
LEMMA FlipCancel ==
    ASSUME Cursors, Cursors', FlipOK, NEW p \in Tasks, CancelUpdate(p)
    PROVE  FlipOK'
<1> DEFINE t == [veto EXCEPT !.status = "cancelled"]
<1>1. veto # NoSession
  BY DEF CancelUpdate, At, Cursors, RequestOK
<1>2. /\ UNCHANGED <<vetoActions, vetoFlips>> /\ req' = [req EXCEPT ![p] = NoRequest]
      /\ UpdateVetoSession([status |-> "cancelled"])
  BY DEF CancelUpdate, Finish, Continue
<1>3. veto' = t
  BY <1>1, <1>2, SessionColumns DEF UpdateVetoSession
<1>4. t.format = veto.format /\ t.first = veto.first /\ t.number = veto.number /\ t.turn = veto.turn
  BY <1>1, SessionColumns
<1>5. t # NoSession
  BY <1>1, SessionColumns, ColumnsOK, NotNoSession DEF VetoStatus
<1>6. NoRequest.pc \notin Actors
  BY DEF NoRequest, Actors
<1>7. \A q \in Tasks : req'[q].pc \in Actors => req'[q] = req[q]
  BY <1>2, <1>6, OthersRemember
<1> HIDE DEF t
<1>8. vetoFlips < 2 => TurnOK(t)
  BY <1>1, <1>4 DEF FlipOK, TurnOK
<1> QED BY <1>1, <1>2, <1>3, <1>4, <1>5, <1>7, <1>8, FlipSession

\* nor does the clock,
LEMMA FlipDeadline ==
    ASSUME Cursors, FlipOK, DeadlinePasses
    PROVE  FlipOK'
<1> DEFINE t == [veto EXCEPT !.deadline = "passed"]
<1>1. veto # NoSession
  BY DEF DeadlinePasses
<1>2. UNCHANGED <<vetoActions, vetoFlips, req>> /\ UpdateVetoSession([deadline |-> "passed"])
  BY DEF DeadlinePasses, requestVars
<1>3. veto' = t
  BY <1>1, <1>2, SessionColumns DEF UpdateVetoSession
<1>4. t.format = veto.format /\ t.first = veto.first /\ t.number = veto.number /\ t.turn = veto.turn
  BY <1>1, SessionColumns
<1>5. t # NoSession
  BY <1>1, SessionColumns, ColumnsOK, NotNoSession
<1> HIDE DEF t
<1>6. vetoFlips < 2 => TurnOK(t)
  BY <1>1, <1>4 DEF FlipOK, TurnOK
<1> QED BY <1>1, <1>2, <1>3, <1>4, <1>5, <1>6, FlipSession

\* The winner's choice decides who acts first, and nobody acted before.
LEMMA FlipCoinFlip ==
    ASSUME Cursors, Cursors', FlipOK, NEW p \in Tasks, CoinFlipUpdate(p)
    PROVE  FlipOK'
<1>1. veto # NoSession /\ has_team_actions(veto.format)
  BY DEF CoinFlipUpdate, At, Cursors, RequestOK
<1>2. /\ UNCHANGED vetoActions /\ req' = [req EXCEPT ![p] = NoRequest]
      /\ vetoFlips' = IF vetoFlips = 2 THEN 2 ELSE vetoFlips + 1
  BY DEF CoinFlipUpdate, Finish, Continue
<1>3. NoRequest.pc \notin Actors
  BY DEF NoRequest, Actors
<1>4. \A q \in Tasks : req'[q].pc \in Actors => req'[q] = req[q]
  BY <1>2, <1>3, OthersRemember
<1>5. PICK t : t = veto'
  OBVIOUS
<1>6. DOMAIN veto = {"status", "format", "mode", "pool", "remaining", "selected",
                     "number", "turn", "first", "winner", "deadline"}
  BY <1>1, SessionColumns
<1>7. /\ t.format = veto.format /\ t.number = 1
      /\ t.first = req[p].first /\ t.turn = req[p].first /\ t # NoSession
  <2> DEFINE columns == [winner |-> req[p].winner, first |-> req[p].first, number |-> 1,
                         turn |-> req[p].first, status |-> "in_progress",
                         deadline |-> "running"]
  <2>1. t = [c \in DOMAIN veto |-> IF c \in DOMAIN columns THEN columns[c] ELSE veto[c]]
    BY <1>5 DEF CoinFlipUpdate, UpdateVetoSession
  <2>2. DOMAIN columns = {"winner", "first", "number", "turn", "status", "deadline"}
    OBVIOUS
  <2>3. columns.number = 1 /\ columns.first = req[p].first /\ columns.turn = req[p].first
    OBVIOUS
  <2> HIDE DEF columns
  <2>4. t.format = veto.format
    BY <1>6, <2>1, <2>2
  <2>5. t.number = 1
    BY <1>6, <2>1, <2>2, <2>3
  <2>6. t.first = req[p].first /\ t.turn = req[p].first
    BY <1>6, <2>1, <2>2, <2>3
  <2>7. DOMAIN t = DOMAIN veto
    BY <2>1
  <2>8. t # NoSession
    BY <1>6, <2>7 DEF NoSession
  <2> QED BY <2>4, <2>5, <2>6, <2>8
<1>8. vetoFlips' \in {1, 2} /\ vetoFlips \in {0, 1, 2}
  BY <1>2 DEF FlipOK
<1>9. CASE vetoFlips = 0
  <2>1. /\ \A n \in ActionNumbers : vetoActions[n] = NoAction
        /\ \A q \in Tasks : req[q].pc \notin Actors
    BY <1>1, <1>9 DEF FlipOK
  <2>2. \A q \in Tasks : req'[q].pc \notin Actors
    BY <1>4, <2>1
  <2>3. TurnsFollowFormat'
    BY <1>2, <2>1 DEF TurnsFollowFormat
  <2>4. TurnOK(t)
    <3>1. veto \in SessionType
      BY <1>1, SessionColumns
    <3>2. t.format = <<>> \/ t.format[1].team # 2
      BY <1>7, <3>1, SessionFormat
    <3>3. t.format = <<>> => Len(t.format) = 0
      OBVIOUS
    <3>4. 1 <= Len(t.format) => 1 \in 1 .. Len(t.format)
      BY <1>7, <3>1, SessionFormat
    <3>5. 1 <= Len(t.format) => t.format[1].team \in 0 .. 2
      BY <1>7, <3>1, <3>4, FormatTeams
    <3>6. 1 <= Len(t.format) /\ t.format[1].team # 0 => t.format[1].team = 1
      BY <3>2, <3>3, <3>5
    <3>7. t.turn = t.first
      BY <1>7
    <3>8. t.number <= Len(t.format) /\ t.format[t.number].team # 0 => t.format[t.number].team = 1
      BY <1>7, <3>6
    <3> QED BY <3>7, <3>8 DEF TurnOK
  <2> QED BY <1>1, <1>5, <1>7, <1>8, <2>2, <2>3, <2>4 DEF FlipOK
<1>10. CASE vetoFlips # 0
  <2>1. vetoFlips' = 2
    BY <1>2, <1>8, <1>10
  <2>2. TurnsFollowFormat'
    BY <2>1 DEF TurnsFollowFormat
  <2> QED BY <1>1, <1>5, <1>7, <2>1, <2>2 DEF FlipOK
<1> QED BY <1>9, <1>10

\* What the caller does next: ask for the server behind the last action, and
\* only there.
LEMMA AfterAdvance ==
    ASSUME NEW p, CursorUpdate(p)
    PROVE  \E r : /\ req' = [req EXCEPT ![p] = r]
                  /\ r.pc \in {"veto assign", "veto decider", "veto spun", "idle"}
                  /\ is_complete_at(req[p].snap.format, req[p].snap.number + 1)
                        => r.pc = "veto assign"
<1>1. PICK snap, map, via, drawn :
          snap = req[p].snap /\ map = req[p].map /\ via = req[p].via /\ drawn = req[p].drawn
  OBVIOUS
<1>2. CASE is_complete_at(snap.format, snap.number + 1)
  <2> DEFINE r == [pc |-> "veto assign", via |-> via, map |-> map, drawn |-> drawn]
  <2>1. req' = [req EXCEPT ![p] = r]
    BY <1>1, <1>2 DEF CursorUpdate, Continue
  <2>2. r.pc = "veto assign"
    OBVIOUS
  <2> HIDE DEF r
  <2> QED BY <2>1, <2>2
<1>3. CASE ~is_complete_at(snap.format, snap.number + 1)
  <2>1. \/ req' = [req EXCEPT ![p] = [pc |-> "veto decider", via |-> via]]
        \/ req' = [req EXCEPT ![p] = [pc |-> "veto spun", map |-> map, drawn |-> drawn]]
        \/ req' = [req EXCEPT ![p] = NoRequest]
    BY <1>1, <1>3 DEF CursorUpdate, Continue, Finish
  <2>2. /\ [pc |-> "veto decider", via |-> via].pc = "veto decider"
        /\ [pc |-> "veto spun", map |-> map, drawn |-> drawn].pc = "veto spun"
        /\ NoRequest.pc = "idle"
    BY DEF NoRequest
  <2> QED BY <1>1, <1>3, <2>1, <2>2
<1> QED BY <1>2, <1>3

\* The next turn is computed from the session that was read.
LEMMA FlipAdvance ==
    ASSUME Cursors, Cursors', FlipOK, NEW p \in Tasks, CursorUpdate(p)
    PROVE  FlipOK'
<1>1. PICK s, map : s = req[p].snap /\ map = req[p].map
  OBVIOUS
<1>2. ActorOK(req[p]) /\ req[p].pc = "veto advance" /\ req[p].pc \in Actors
  BY DEF CursorUpdate, At, Cursors, RequestOK, Actors
<1>3. /\ veto # NoSession /\ s \in SessionType /\ map \in Maps
      /\ s.number \in 1 .. Len(s.format) /\ s.format = veto.format
  BY <1>1, <1>2 DEF ActorOK, Recordings
<1>4. UpdateVetoSession(Advanced(s, map)) /\ UNCHANGED <<vetoActions, vetoFlips>>
  BY <1>1 DEF CursorUpdate
<1>5. PICK t : t = veto'
  OBVIOUS
<1>6. /\ t \in SessionType /\ t.format = veto.format /\ t.first = veto.first
      /\ t.number = s.number + 1
      /\ t.turn = IF s.number = Len(s.format) THEN None
                  ELSE determine_next_team(s, s.number + 1)
  BY <1>3, <1>4, <1>5, AdvancedColumns
<1>7. \A q \in Tasks : req'[q].pc \in Actors => req'[q] = req[q]
  <2>1. PICK r : req' = [req EXCEPT ![p] = r] /\ r.pc \notin Actors
    BY AfterAdvance DEF Actors
  <2> QED BY <2>1, OthersRemember
<1>8. Len(s.format) \in Nat /\ s.number \in Nat \ {0}
  BY <1>3, SessionFormat
<1>9. t.number \in Nat \ {0}
  BY <1>6, <1>8
<1>10. vetoFlips # 0 \/ ~has_team_actions(veto.format)
  BY <1>2, <1>3, <1>8 DEF FlipOK
<1>11. ASSUME vetoFlips < 2 PROVE TurnOK(t)
  <2>1. s.first = t.first
    BY <1>1, <1>2, <1>3, <1>6, <1>11 DEF FlipOK
  <2>2. CASE s.number = Len(s.format)
    BY <1>6, <2>2 DEF TurnOK
  <2>3. CASE s.number # Len(s.format)
    <3>1. t.number \in 1 .. Len(s.format)
      BY <1>3, <1>6, <1>8, <2>3
    <3>2. s.format[t.number].team \in 0 .. 2
      BY <1>3, <3>1, FormatTeams
    <3>3. t.turn = IF t.format[t.number].team = 2 THEN OtherSide(t.first) ELSE t.first
      BY <1>3, <1>6, <2>1, <2>3 DEF determine_next_team
    <3> QED BY <1>3, <1>6, <3>2, <3>3 DEF TurnOK
  <2> QED BY <2>2, <2>3
<1> QED BY <1>3, <1>4, <1>5, <1>6, <1>7, <1>9, <1>10, <1>11, NotNoSession, FlipSession

\* A new row is acted by the side whose turn it was when the session was read.
LEMMA FlipAction ==
    ASSUME Cursors, Cursors', FlipOK, NEW p \in Tasks, ActionInsert(p)
    PROVE  FlipOK'
<1>1. PICK s, old : s = req[p].snap /\ old = req[p]
  OBVIOUS
<1>2. ActorOK(old) /\ old.pc = "veto insert" /\ old.pc \in Actors
  BY <1>1 DEF ActionInsert, At, Cursors, RequestOK, Actors
<1>3. /\ veto # NoSession /\ s.format = veto.format /\ s \in SessionType
      /\ s.number \in 1 .. Len(s.format) /\ old.by \in {None, s.turn} /\ old \in Recordings
  BY <1>1, <1>2 DEF ActorOK, Recordings
<1>4. s.number \in ActionNumbers
  <2>1. Len(s.format) \in Nat /\ Len(s.format) <= 7
    BY <1>3, SessionFormat DEF MaxActions
  <2> QED BY <1>3, <2>1 DEF ActionNumbers, MaxActions
<1>5. UNCHANGED <<veto, vetoFlips>>
  BY DEF ActionInsert
<1>6. veto.number # 0
  BY <1>1, <1>2, <1>3 DEF FlipOK
<1>7. \A q \in Tasks : req'[q].pc \in Actors =>
          req[q].pc \in Actors /\ req'[q].snap = req[q].snap
  <2>1. PICK map, label : req' = [req EXCEPT ![p] = [old EXCEPT !.map = map, !.pc = label]]
    BY <1>1 DEF ActionInsert, Continue
  <2>2. [old EXCEPT !.map = map, !.pc = label].snap = old.snap
    BY <1>3 DEF Recordings
  <2> QED BY <1>1, <1>2, <2>1, <2>2 DEF Cursors
<1> DEFINE new == [type |-> s.format[s.number].type, map |-> old.map, by |-> old.by,
                   side |-> None]
<1>8. vetoActions' = [vetoActions EXCEPT ![s.number] = CreateVetoAction(s.number, new)]
  BY <1>1 DEF ActionInsert
<1>9. new.by = old.by
  OBVIOUS
<1> HIDE DEF new
<1>10. ASSUME vetoFlips = 1, NEW n \in ActionNumbers, vetoActions'[n] # NoAction,
              vetoActions'[n].by # None, veto.format[n].team # 0
       PROVE  vetoActions'[n].by = IF veto.format[n].team = 1
                                   THEN veto.first ELSE OtherSide(veto.first)
  <2>1. TurnOK(s) /\ s.first = veto.first
    <3>1. vetoFlips < 2 => \A q \in Tasks : req[q].pc \in Actors =>
              req[q].snap.first = veto.first /\ TurnOK(req[q].snap)
      BY <1>3 DEF FlipOK
    <3>2. vetoFlips < 2
      BY <1>10
    <3> QED BY <1>1, <1>2, <3>1, <3>2
  <2>2. CASE n = s.number /\ vetoActions[n] = NoAction
    <3>1. vetoActions'[n].by = old.by
      BY <1>4, <1>8, <1>9, <2>2 DEF CreateVetoAction, Cursors
    <3>2. old.by = s.turn /\ s.turn # None
      BY <1>3, <1>10, <3>1
    <3>3. s.number <= Len(s.format)
      BY <1>3
    <3> QED BY <1>3, <1>10, <2>1, <2>2, <3>1, <3>2, <3>3 DEF TurnOK
  <2>3. CASE ~(n = s.number /\ vetoActions[n] = NoAction)
    <3>1. vetoActions'[n] = vetoActions[n]
      BY <1>4, <1>8, <2>3 DEF CreateVetoAction, Cursors
    <3> QED BY <1>3, <1>10, <3>1 DEF FlipOK, TurnsFollowFormat
  <2> QED BY <2>2, <2>3
<1> QED BY <1>3, <1>5, <1>6, <1>7, <1>10, FlipRows

\* nor a choice of side;
LEMMA FlipSides ==
    ASSUME Cursors, Cursors', FlipOK, NEW p \in Tasks, AssignSide(p) \/ SideSelectionUpdate(p)
    PROVE  FlipOK'
<1>1. UNCHANGED <<veto, vetoFlips>>
  BY DEF AssignSide, SideSelectionUpdate
<1>2. PICK n \in ActionNumbers, side \in Sides :
          /\ vetoActions[n] # NoAction /\ UpdateSideSelection(n, side)
  <2>1. CASE AssignSide(p)
    <3>1. ActorOK(req[p]) /\ req[p].pc = "veto side"
      BY <2>1 DEF AssignSide, At, Cursors, RequestOK, Actors
    <3>2. PICK s \in SessionType :
              s = req[p].snap /\ s.number \in 1 .. Len(s.format) /\ vetoActions[s.number] # NoAction
      BY <3>1 DEF ActorOK, Recordings
    <3>3. Len(s.format) \in Nat /\ Len(s.format) <= 7
      BY SessionFormat DEF MaxActions
    <3>4. s.number \in ActionNumbers
      BY <3>2, <3>3 DEF ActionNumbers, MaxActions
    <3> QED BY <2>1, <3>2, <3>4 DEF AssignSide
  <2>2. CASE SideSelectionUpdate(p)
    BY <2>2 DEF SideSelectionUpdate, At, Cursors, RequestOK
  <2> QED BY <2>1, <2>2
<1>3. \A m \in ActionNumbers : vetoActions'[m] # NoAction =>
          vetoActions[m] # NoAction /\ vetoActions'[m].by = vetoActions[m].by
  BY <1>1, <1>2, SideWritten
<1>4. veto # NoSession /\ veto.number # 0
  BY <1>2 DEF FlipOK, Cursors, RowsOK
<1>5. \A q \in Tasks : req'[q].pc \in Actors =>
          req[q].pc \in Actors /\ req'[q].snap = req[q].snap
  <2>1. CASE AssignSide(p)
    <3>1. PICK old : old = req[p]
      OBVIOUS
    <3>2. ActorOK(old) /\ old.pc \in Actors
      BY <2>1, <3>1 DEF AssignSide, At, Cursors, RequestOK, Actors
    <3>3. req' = [req EXCEPT ![p] = [old EXCEPT !.pc = "veto advance"]]
      BY <2>1, <3>1 DEF AssignSide, Continue
    <3>4. [old EXCEPT !.pc = "veto advance"].snap = old.snap
      BY <3>2 DEF ActorOK, Recordings
    <3> QED BY <3>1, <3>2, <3>3, <3>4 DEF Cursors
  <2>2. CASE SideSelectionUpdate(p)
    <3>1. req' = [req EXCEPT ![p] = NoRequest] /\ NoRequest.pc \notin Actors
      BY <2>2 DEF SideSelectionUpdate, Finish, Continue, NoRequest, Actors
    <3> QED BY <3>1 DEF Cursors
  <2> QED BY <2>1, <2>2
<1> QED BY <1>1, <1>3, <1>4, <1>5, FlipRows DEF FlipOK, TurnsFollowFormat

\* every step keeps what the flip decided.
LEMMA FlipKept ==
    ASSUME Cursors, Cursors', FlipOK, scenario.setups \subseteq VetoSetups, [VetoNext]_vetoVars
    PROVE  FlipOK'
<1>1. CASE UNCHANGED vetoVars
  <2>1. UNCHANGED <<veto, vetoActions, vetoFlips, req>>
    BY <1>1 DEF vetoVars, vetoTables, requestVars
  <2> QED BY <2>1 DEF FlipOK, TurnOK, TurnsFollowFormat
<1>2. CASE VetoNext
  BY <1>2, StepKinds, QuietActions, FlipQuiet, FlipInsert, FlipStart, FlipCoinFlip, FlipAdvance,
     FlipCancel, FlipAction, FlipSides, FlipDeadline
<1> QED BY <1>1, <1>2

-----------------------------------------------------------------------------
(* A completed veto asks for a server *)

\* A step of a task that is not about to ask.
OtherTask(p) ==
    /\ \/ UNCHANGED req
       \/ req[p].pc # "veto assign" /\ \E r : req' = [req EXCEPT ![p] = r]
    /\ UNCHANGED <<vetoAssigned, crashes>>

\* A quiet step that neither triggers the assignment nor dies.
LEMMA OtherTasks ==
    ASSUME NEW p \in Tasks, QuietAction(p), ~TriggerAssignment(p), ~VetoDie(p)
    PROVE  OtherTask(p)
<1>1. ASSUME NEW r, Request(p, r) \/ Wake(p, r) \/ Begin(p, r)
      PROVE  req[p].pc = "idle" /\ req' = [req EXCEPT ![p] = r] /\ UNCHANGED crashes
  BY <1>1 DEF Request, Wake, Begin, MayStart, NoRequest
<1>2. ASSUME NEW r, Continue(p, r) PROVE req' = [req EXCEPT ![p] = r] /\ UNCHANGED crashes
  BY <1>2, Moves
<1>3. CASE CreateVetoSessionRequest(p) \/ EnsureVetoSession(p)
  BY <1>1, <1>3 DEF CreateVetoSessionRequest, EnsureVetoSession, CreateSession, OtherTask, vetoTables
<1>4. CASE StartVetoSession(p) \/ RecordCoinFlip(p) \/ AutoCoinFlip(p)
  BY <1>1, <1>4 DEF StartVetoSession, RecordCoinFlip, AutoCoinFlip, FlipCoin, OtherTask, vetoTables
<1>5. CASE PerformAction(p) \/ ProcessVetoTimeout(p) \/ SpinWheel(p) \/ SelectSide(p)
  BY <1>1, <1>5 DEF PerformAction, ProcessVetoTimeout, SpinWheel, SelectSide, OtherTask, vetoTables
<1>6. CASE MatchCalledOff(p)
  BY <1>1, <1>6 DEF MatchCalledOff, OtherTask
<1>7. CASE StartSession(p) \/ ProcessTimeout(p)
  BY <1>2, <1>7 DEF StartSession, ProcessTimeout, Finish, At, OtherTask, vetoTables
<1>8. CASE PerformWheelAction(p) \/ ChainDeciders(p)
  BY <1>2, <1>8 DEF PerformWheelAction, ChainDeciders, Finish, At, OtherTask, vetoTables
<1>9. CASE BroadcastSpin(p) \/ CancelSessionForMatch(p)
  BY <1>2, <1>9 DEF BroadcastSpin, CancelSessionForMatch, Finish, At, OtherTask, vetoTables
<1>10. CASE AutoCreateVetoSession(p)
  BY <1>1, <1>10 DEF AutoCreateVetoSession, CreateSession, OtherTask, requestVars
<1> QED BY <1>3, <1>4, <1>5, <1>6, <1>7, <1>8, <1>9, <1>10 DEF QuietAction

\* The assignment stands while the session does not complete.
LEMMA AssignStays ==
    ASSUME Cursors, AssignOK, NEW p \in Tasks, OtherTask(p),
           veto' # NoSession /\ veto'.status = "completed" =>
               veto # NoSession /\ veto.status = "completed"
    PROVE  AssignOK'
<1>1. ASSUME NEW q \in Tasks, req[q].pc = "veto assign" PROVE req'[q].pc = "veto assign"
  BY <1>1 DEF OtherTask, Cursors
<1> QED BY <1>1 DEF AssignOK, OtherTask

\* Every step keeps it.
LEMMA AssignKept ==
    ASSUME Cursors, AssignOK, crashes \in Nat, scenario.setups \subseteq VetoSetups,
           [VetoNext]_vetoVars
    PROVE  AssignOK'
<1>1. CASE UNCHANGED vetoVars
  BY <1>1 DEF vetoVars, vetoTables, requestVars, AssignOK
<1>2. ASSUME NEW p \in Tasks, QuietAction(p) PROVE AssignOK'
  <2>1. CASE TriggerAssignment(p)
    BY <2>1 DEF TriggerAssignment, AssignOK
  <2>2. CASE VetoDie(p)
    <3>1. crashes' # 0
      BY <2>2 DEF VetoDie, Die
    <3> QED BY <3>1 DEF AssignOK
  <2>3. CASE ~TriggerAssignment(p) /\ ~VetoDie(p)
    <3>1. OtherTask(p)
      BY <1>2, <2>3, OtherTasks
    <3>2. UNCHANGED veto
      BY <1>2, QuietActions DEF Quiet
    <3> QED BY <3>1, <3>2, AssignStays
  <2> QED BY <2>1, <2>2, <2>3
<1>3. ASSUME NEW p \in Tasks, SessionInsert(p) PROVE AssignOK'
  <2>1. OtherTask(p)
    <3>1. req[p].pc = "veto create" /\ UNCHANGED vetoAssigned
      BY <1>3 DEF SessionInsert, At
    <3>2. Continue(p, [pc |-> "veto start"]) \/ Continue(p, NoRequest)
      BY <1>3 DEF SessionInsert, Finish
    <3> QED BY <3>1, <3>2 DEF Continue, OtherTask
  <2>2. veto = NoSession => veto'.status = "pending"
    <3>1. PICK setup : setup = req[p].setup
      OBVIOUS
    <3>2. CreatedSession(setup).status = "pending"
      BY DEF CreatedSession
    <3>3. veto = NoSession => veto' = CreatedSession(setup)
      BY <1>3, <3>1 DEF SessionInsert, CreateVetoSession
    <3> QED BY <3>2, <3>3
  <2>3. veto # NoSession => UNCHANGED veto
    BY <1>3 DEF SessionInsert
  <2> QED BY <2>1, <2>2, <2>3, AssignStays
<1>4. ASSUME NEW p \in Tasks, StartSessionUpdate(p) \/ CoinFlipUpdate(p) \/ CancelUpdate(p)
      PROVE  AssignOK'
  <2>1. veto'.status \in {"in_progress", "coin_flip", "cancelled"}
    <3>1. "status" \in DOMAIN veto
      <4>1. veto # NoSession
        BY <1>4 DEF StartSessionUpdate, CoinFlipUpdate, CancelUpdate, At, Cursors, RequestOK
      <4> QED BY <4>1, SessionColumns
    <3> DEFINE flip == [winner |-> req[p].winner, first |-> req[p].first, number |-> 1,
                        turn |-> req[p].first, status |-> "in_progress",
                        deadline |-> "running"]
               wheel_on == [status |-> "in_progress", number |-> 1, turn |-> None,
                            deadline |-> None]
    <3>2. \E columns : /\ UpdateVetoSession(columns) /\ "status" \in DOMAIN columns
                       /\ columns.status \in {"in_progress", "coin_flip", "cancelled"}
      <4>1. CASE CoinFlipUpdate(p)
        <5>1. UpdateVetoSession(flip)
          BY <4>1 DEF CoinFlipUpdate
        <5>2. "status" \in DOMAIN flip /\ flip.status = "in_progress"
          OBVIOUS
        <5> QED BY <5>1, <5>2
      <4>2. CASE StartSessionUpdate(p)
        <5>1. UpdateVetoSession(wheel_on) \/ UpdateVetoSession([status |-> "coin_flip"])
          BY <4>2 DEF StartSessionUpdate
        <5>2. "status" \in DOMAIN wheel_on /\ wheel_on.status = "in_progress"
          OBVIOUS
        <5>3. "status" \in DOMAIN [status |-> "coin_flip"]
              /\ [status |-> "coin_flip"].status = "coin_flip"
          OBVIOUS
        <5> QED BY <5>1, <5>2, <5>3
      <4>3. CASE CancelUpdate(p)
        <5>1. UpdateVetoSession([status |-> "cancelled"])
          BY <4>3 DEF CancelUpdate
        <5>2. "status" \in DOMAIN [status |-> "cancelled"]
              /\ [status |-> "cancelled"].status = "cancelled"
          OBVIOUS
        <5> QED BY <5>1, <5>2
      <4> QED BY <1>4, <4>1, <4>2, <4>3
    <3>3. PICK columns : /\ UpdateVetoSession(columns) /\ "status" \in DOMAIN columns
                         /\ columns.status \in {"in_progress", "coin_flip", "cancelled"}
      BY <3>2
    <3>4. veto'.status = columns.status
      BY <3>1, <3>3 DEF UpdateVetoSession
    <3> QED BY <3>3, <3>4
  <2> QED BY <2>1 DEF AssignOK
<1>5. ASSUME NEW p \in Tasks, CursorUpdate(p) PROVE AssignOK'
  <2>1. PICK s, map : s = req[p].snap /\ map = req[p].map
    OBVIOUS
  <2>2. ActorOK(req[p])
    BY <1>5 DEF CursorUpdate, At, Cursors, RequestOK, Actors
  <2>3. /\ veto # NoSession /\ s \in SessionType /\ map \in Maps
        /\ s.number \in 1 .. Len(s.format) /\ s.format = veto.format
    BY <2>1, <2>2 DEF ActorOK, Recordings
  <2>4. UpdateVetoSession(Advanced(s, map))
    BY <1>5, <2>1 DEF CursorUpdate
  <2>5. veto'.status = "completed" => s.number = Len(s.format)
    BY <2>3, <2>4, AdvancedColumns
  <2>6. Len(s.format) \in Nat
    BY <2>3, SessionFormat
  <2>7. veto'.status = "completed" => is_complete_at(s.format, s.number + 1)
    BY <2>3, <2>5, <2>6 DEF is_complete_at
  <2>8. veto'.status = "completed" => req'[p].pc = "veto assign"
    BY <1>5, <2>1, <2>7, AfterAdvance DEF Cursors
  <2> QED BY <2>8 DEF AssignOK
<1>6. ASSUME NEW p \in Tasks, ActionInsert(p) \/ AssignSide(p) \/ SideSelectionUpdate(p)
      PROVE  AssignOK'
  <2>1. OtherTask(p)
    BY <1>6, Moves DEF ActionInsert, AssignSide, SideSelectionUpdate, At, Finish, OtherTask
  <2>2. UNCHANGED veto
    BY <1>6 DEF ActionInsert, AssignSide, SideSelectionUpdate
  <2> QED BY <2>1, <2>2, AssignStays
<1>7. ASSUME DeadlinePasses PROVE AssignOK'
  <2>1. veto # NoSession /\ UpdateVetoSession([deadline |-> "passed"])
        /\ UNCHANGED <<req, vetoAssigned, crashes>>
    BY <1>7 DEF DeadlinePasses, requestVars
  <2>2. veto'.status = veto.status
    BY <2>1, SessionColumns DEF UpdateVetoSession
  <2> QED BY <2>1, <2>2 DEF AssignOK
<1> QED BY <1>1, <1>2, <1>3, <1>4, <1>5, <1>6, <1>7, StepKinds

-----------------------------------------------------------------------------
(* The invariant *)

VetoInv ==
    /\ scenario \in Scenarios /\ crashes \in Nat
    /\ Cursors /\ FlipOK /\ AssignOK

\* The invariant holds at the start
LEMMA VetoInvInit ==
    ASSUME \A s \in Scenarios : s.setups \subseteq VetoSetups, RequestsInit, VetoInit
    PROVE  VetoInv
<1>1. scenario \in Scenarios /\ crashes \in Nat
  BY DEF RequestsInit
<1>2. /\ req = [p \in Tasks |-> NoRequest]
      /\ vetoActions = [n \in ActionNumbers |-> NoAction]
      /\ vetoFlips = 0 /\ vetoAssigned = FALSE
  BY DEF RequestsInit, VetoInit
<1>3. \A p \in Tasks : req[p].pc = "idle" /\ RequestOK(req[p])
  BY <1>2, IdleOK DEF FreshOK, NoRequest
<1>4. veto = NoSession \/ \E setup \in VetoSetups : veto = StartedSession(setup)
  BY <1>1 DEF VetoInit
<1>5. ASSUME NEW setup \in VetoSetups, veto = StartedSession(setup)
      PROVE  /\ CursorOK(veto) /\ veto # NoSession /\ veto.deadline = None /\ veto.turn = None
             /\ veto.status \in {"coin_flip", "in_progress"}
             /\ veto.status = "coin_flip" => has_team_actions(veto.format) /\ veto.number = 0
             /\ veto.status = "in_progress" => ~has_team_actions(veto.format) /\ veto.number = 1
  <2> DEFINE c == CreatedSession(setup)
  <2>1. CursorOK(c) /\ c \in SessionType
    BY NewSession DEF CursorOK
  <2>2. /\ c.format = setup.format /\ c.number = 0 /\ c.turn = None /\ c.deadline = None
        /\ DOMAIN c = {"status", "format", "mode", "pool", "remaining", "selected",
                       "number", "turn", "first", "winner", "deadline"}
    BY DEF CreatedSession
  <2> HIDE DEF c
  <2>3. CASE has_team_actions(setup.format)
    <3>1. veto = [c EXCEPT !.status = "coin_flip"]
      BY <1>5, <2>3 DEF StartedSession, c
    <3>2. veto \in SessionType
      BY <2>1, <3>1, ColumnsOK DEF VetoStatus
    <3>3. /\ veto.format = c.format /\ veto.pool = c.pool /\ veto.remaining = c.remaining
          /\ veto.selected = c.selected /\ veto.number = c.number
          /\ veto.status = "coin_flip" /\ veto.turn = c.turn /\ veto.deadline = c.deadline
      BY <2>2, <3>1
    <3>4. CursorOK(veto)
      BY <2>1, <3>2, <3>3, CursorResets
    <3> QED BY <2>2, <2>3, <3>2, <3>3, <3>4, NotNoSession
  <2>4. CASE ~has_team_actions(setup.format)
    <3>1. veto = [c EXCEPT !.status = "in_progress", !.number = 1]
      BY <1>5, <2>4 DEF StartedSession, c
    <3>2. veto \in SessionType
      <4>1. PICK a \in SessionType : a = [c EXCEPT !.status = "in_progress"]
        BY <2>1, ColumnsOK DEF VetoStatus
      <4> QED BY <3>1, <4>1, ColumnsOK
    <3>3. /\ veto.format = c.format /\ veto.pool = c.pool /\ veto.remaining = c.remaining
          /\ veto.selected = c.selected
          /\ veto.status = "in_progress" /\ veto.turn = c.turn /\ veto.deadline = c.deadline
      BY <2>2, <3>1
    <3>4. veto.number = 1
      BY <2>2, <3>1
    <3>5. CursorOK(veto)
      BY <2>1, <3>2, <3>3, <3>4, CursorResets
    <3> QED BY <2>2, <2>4, <3>2, <3>3, <3>4, <3>5, NotNoSession
  <2> QED BY <2>3, <2>4
<1>6. Cursors
  <2>1. DOMAIN req = Tasks /\ vetoActions \in [ActionNumbers -> {NoAction} \cup Rows] /\ RowsOK
    BY <1>2 DEF RowsOK
  <2>2. SessionOK
    BY <1>4, <1>5 DEF SessionOK
  <2> QED BY <1>3, <2>1, <2>2 DEF Cursors
<1>7. FlipOK
  <2>1. \A n \in ActionNumbers : vetoActions[n] = NoAction
    BY <1>2
  <2>2. \A p \in Tasks : req[p].pc \notin Actors
    BY <1>3 DEF Actors
  <2>3. veto # NoSession => TurnOK(veto) /\ (has_team_actions(veto.format) => veto.number = 0)
    BY <1>4, <1>5 DEF TurnOK
  <2>4. TurnsFollowFormat
    BY <1>2 DEF TurnsFollowFormat
  <2> QED BY <1>2, <2>1, <2>2, <2>3, <2>4 DEF FlipOK
<1>8. AssignOK
  BY <1>4, <1>5 DEF AssignOK
<1> QED BY <1>1, <1>6, <1>7, <1>8 DEF VetoInv

\* and after every step,
LEMMA VetoInvNext ==
    ASSUME \A s \in Scenarios : s.setups \subseteq VetoSetups
    PROVE  VetoInv /\ [VetoNext]_vetoVars => VetoInv'
<1> SUFFICES ASSUME VetoInv, [VetoNext]_vetoVars PROVE VetoInv'
  OBVIOUS
<1>1. scenario.setups \subseteq VetoSetups
  BY DEF VetoInv
<1>2. Cursors'
  BY <1>1, CursorsKept DEF VetoInv
<1>3. FlipOK'
  BY <1>1, <1>2, FlipKept DEF VetoInv
<1>4. AssignOK'
  BY <1>1, AssignKept DEF VetoInv
<1> QED BY <1>2, <1>3, <1>4, Bookkeeping DEF VetoInv

-----------------------------------------------------------------------------
(* What the invariant says of the veto *)

\* f on S and g on 1 .. n have the same values, each of them once.
SameValues(S, f, n, g) ==
    /\ \A i, j \in S : f[i] = f[j] => i = j
    /\ \A i, j \in 1 .. n : g[i] = g[j] => i = j
    /\ \A i \in S : \E j \in 1 .. n : g[j] = f[i]
    /\ \A j \in 1 .. n : \E i \in S : f[i] = g[j]

\* Numbers from 1 to n, each taken once, are n numbers.
LEMMA EquallyMany ==
    ASSUME NEW S, NEW f, NEW n \in Nat, NEW g, SameValues(S, f, n, g)
    PROVE  Cardinality(S) = n
<1> USE DEF SameValues
<1> DEFINE T == {g[i] : i \in 1 .. n}
           one == [i \in 1 .. n |-> g[i]]
           pick == [x \in T |-> CHOOSE i \in S : f[i] = x]
<1>1. IsFiniteSet(1 .. n) /\ Cardinality(1 .. n) = n
  BY FS_Interval
<1>2. one \in Bijection(1 .. n, T)
  BY DEF Bijection, Injection, Surjection, IsInjective
<1>3. IsFiniteSet(T) /\ Cardinality(T) = n
  BY <1>1, <1>2, FS_Bijection DEF ExistsBijection
<1>4. \A x \in T : pick[x] \in S /\ f[pick[x]] = x
  <2> SUFFICES ASSUME NEW x \in T PROVE pick[x] \in S /\ f[pick[x]] = x
    OBVIOUS
  <2>1. \E i \in S : f[i] = x
    OBVIOUS
  <2> QED BY <2>1
<1>5. \A i \in S : f[i] \in T
  OBVIOUS
<1>6. pick = [x \in T |-> pick[x]]
  OBVIOUS
<1> HIDE DEF pick, T
<1>7. pick \in Bijection(T, S)
  <2>1. pick \in [T -> S]
    BY <1>4, <1>6
  <2>2. \A x, y \in T : pick[x] = pick[y] => x = y
    BY <1>4
  <2>3. \A i \in S : \E x \in T : pick[x] = i
    <3> SUFFICES ASSUME NEW i \in S PROVE pick[f[i]] = i
      BY <1>5
    <3>1. pick[f[i]] \in S /\ f[pick[f[i]]] = f[i]
      BY <1>4, <1>5
    <3> QED BY <3>1
  <2> QED BY <2>1, <2>2, <2>3 DEF Bijection, Injection, Surjection, IsInjective
<1> QED BY <1>3, <1>7, FS_Bijection DEF ExistsBijection

\* Behind its last action a veto has selected the maps its format plays.
LEMMA AllSelected ==
    ASSUME Cursors, veto # NoSession, veto.status = "completed"
    PROVE  Len(veto.selected) = maps_selected(veto.format)
<1> DEFINE n == Len(veto.format)
           S == {i \in DOMAIN veto.format : veto.format[i].type # "ban"}
           f == [i \in S |-> vetoActions[i].map]
<1>1. veto \in SessionType /\ CursorOK(veto) /\ veto.number = n + 1
  BY SessionColumns DEF Cursors, SessionOK
<1>2. n \in Nat /\ n <= 7 /\ DOMAIN veto.format = 1 .. n
  BY <1>1, SessionFormat DEF MaxActions
<1> HIDE DEF n
<1>3. PICK k \in 0 .. n :
        /\ veto.number <= k + 1
        /\ \A i \in 1 .. k : vetoActions[i] # NoAction
        /\ Chosen(veto) = PlayedOf(k)
  BY <1>1 DEF CursorOK, IsPrefix, n
<1>4. k = n
  BY <1>1, <1>2, <1>3
<1>5. \A i \in 1 .. n : i \in ActionNumbers /\ vetoActions[i] # NoAction
  BY <1>2, <1>3, <1>4 DEF ActionNumbers, MaxActions
<1>6. \A i \in 1 .. n : /\ vetoActions[i].type = veto.format[i].type
                        /\ \A m \in 1 .. i - 1 : vetoActions[m].map # vetoActions[i].map
  BY <1>5 DEF Cursors, RowsOK
<1>7. {i \in 1 .. n : vetoActions[i].type # "ban"} = S
  BY <1>2, <1>6
<1>8. PlayedOf(n) = {f[i] : i \in S}
  BY <1>7 DEF PlayedOf
<1>9. \A i, j \in S : f[i] = f[j] => i = j
  <2>1. ASSUME NEW i \in S, NEW j \in S, i < j PROVE f[i] # f[j]
    <3>1. i \in 1 .. j - 1 /\ j \in 1 .. n
      BY <1>2, <2>1
    <3> QED BY <1>6, <3>1
  <2>2. \A i, j \in S : i < j \/ j < i \/ i = j
    BY <1>2
  <2> QED BY <2>1, <2>2
<1>10. veto.selected \in Seq(Maps)
  BY <1>1 DEF SessionType, Maps
<1>11. Len(veto.selected) \in Nat /\ DOMAIN veto.selected = 1 .. Len(veto.selected)
  BY <1>10, LenProperties
<1>12. \A i, j \in 1 .. Len(veto.selected) : veto.selected[i] = veto.selected[j] => i = j
  BY <1>1, <1>11 DEF CursorOK
<1>13. Chosen(veto) = {veto.selected[i] : i \in 1 .. Len(veto.selected)}
  BY <1>11 DEF Chosen
<1> HIDE DEF S, f
<1>14. /\ \A i \in S : \E j \in 1 .. Len(veto.selected) : veto.selected[j] = f[i]
       /\ \A j \in 1 .. Len(veto.selected) : \E i \in S : f[i] = veto.selected[j]
  BY <1>3, <1>4, <1>8, <1>13
<1>15. Cardinality(S) = Len(veto.selected)
  <2>1. SameValues(S, f, Len(veto.selected), veto.selected)
    BY <1>9, <1>12, <1>14 DEF SameValues
  <2> QED BY <1>11, <2>1, EquallyMany
<1> QED BY <1>15 DEF S, maps_selected

\* and it says that the veto is fair.
LEMMA FairVeto ==
    ASSUME VetoInv
    PROVE  VetoIsFair
<1>1. VetoTypeOK
  <2>1. veto = NoSession \/ veto \in SessionType
    BY SessionColumns DEF VetoInv
  <2>2. veto # NoSession => veto.number <= Len(veto.format) + 1
    BY DEF VetoInv, Cursors, SessionOK, CursorOK
  <2>3. veto # NoSession /\ veto.status \in {"in_progress", "completed"} => veto.number >= 1
    BY DEF VetoInv, Cursors, SessionOK
  <2>4. \A n \in ActionNumbers : vetoActions[n] = NoAction \/ vetoActions[n] \in Rows
    BY DEF VetoInv, Cursors
  <2> QED BY <2>1, <2>2, <2>3, <2>4 DEF VetoTypeOK, Rows, Maps
<1>2. MapsFollowActions
  <2> SUFFICES ASSUME veto # NoSession
               PROVE  /\ \E k \in 0 .. Len(veto.format) :
                            /\ veto.number <= k + 1
                            /\ \A n \in 1 .. k : vetoActions[n] # NoAction
                            /\ veto.remaining = veto.pool \ MapsOf(k)
                            /\ {veto.selected[i] : i \in DOMAIN veto.selected} = PlayedOf(k)
                      /\ \A m, n \in ActionNumbers :
                            /\ m # n /\ vetoActions[m] # NoAction /\ vetoActions[n] # NoAction
                            => vetoActions[m].map # vetoActions[n].map
    BY DEF MapsFollowActions
  <2>1. IsPrefix(veto)
    BY DEF VetoInv, Cursors, SessionOK, CursorOK
  <2>2. ASSUME NEW m \in ActionNumbers, NEW n \in ActionNumbers, m < n,
               vetoActions[m] # NoAction, vetoActions[n] # NoAction
        PROVE  vetoActions[m].map # vetoActions[n].map
    <3>1. m \in 1 .. n - 1
      BY <2>2 DEF ActionNumbers
    <3> QED BY <2>2, <3>1 DEF VetoInv, Cursors, RowsOK
  <2>3. ASSUME NEW m \in ActionNumbers, NEW n \in ActionNumbers, m # n,
               vetoActions[m] # NoAction, vetoActions[n] # NoAction
        PROVE  vetoActions[m].map # vetoActions[n].map
    <3>1. m < n \/ n < m
      BY <2>3 DEF ActionNumbers, MaxActions
    <3> QED BY <2>2, <2>3, <3>1
  <2> QED BY <2>1, <2>3 DEF IsPrefix, Chosen
<1>3. TurnsFollowFormat
  <2>1. CASE veto = NoSession
    BY <2>1 DEF TurnsFollowFormat
  <2>2. CASE veto # NoSession
    BY <2>2 DEF VetoInv, FlipOK
  <2> QED BY <2>1, <2>2
<1>4. CompletedVetoIsPlayable
  <2>1. ASSUME Quiescent PROVE \A p \in Tasks : req[p].pc # "veto assign"
    <3>1. NoRequest.pc # "veto assign"
      BY DEF NoRequest
    <3> QED BY <2>1, <3>1 DEF Quiescent
  <2>2. ASSUME veto # NoSession, veto.status = "completed", Quiescent, crashes = 0
        PROVE  vetoAssigned
    BY <2>1, <2>2 DEF VetoInv, AssignOK
  <2>3. ASSUME veto # NoSession, veto.status = "completed"
        PROVE  Len(veto.selected) = maps_selected(veto.format)
    BY <2>3, AllSelected DEF VetoInv
  <2> QED BY <2>2, <2>3 DEF CompletedVetoIsPlayable
<1> QED BY <1>1, <1>2, <1>3, <1>4 DEF VetoIsFair

\* veto.rs recomputes the cursor from the committed action row and writes it
\* back unconditionally: however clicks, spins, timeouts and deaths interleave,
\* the maps and the turns are those of the format, and a completed veto has the
\* maps its format plays and asked for a server.
THEOREM VetoStaysFair ==
    ASSUME \A s \in Scenarios : s.setups \subseteq VetoSetups
    PROVE  VetoSpec => []VetoIsFair
<1>1. RequestsInit /\ VetoInit => VetoInv
  BY VetoInvInit
<1>2. VetoInv /\ [VetoNext]_vetoVars => VetoInv'
  BY VetoInvNext
<1>3. VetoInv => VetoIsFair
  BY FairVeto
<1> QED BY <1>1, <1>2, <1>3, PTL DEF VetoSpec

-----------------------------------------------------------------------------
(* The lobby of a veto                                                      *)

\* A socket holds the lobby object it joined until it is closed.
SocketStates == {Closed} \cup [at : {"joined", "leaving", "left"}, lobby : 1 .. lobbies]

LobbyTypeOK ==
    /\ lobbies \in 0 .. MaxLobbies
    /\ lobby \in 0 .. lobbies
    /\ socket \in [Sockets -> SocketStates]
    /\ connections \in [Lobbies -> SUBSET Sockets]
    /\ presence \in [Lobbies -> [Roles -> Int]]

\* A lobby object lists exactly the sockets that joined it and have not begun
\* to leave: what remove_if_empty tests is the truth.
ListedAreJoined ==
    \A l \in Lobbies, s \in Sockets :
        s \in connections[l] <=> socket[s].at = "joined" /\ socket[s].lobby = l

LobbyInv == LobbyTypeOK /\ ListedAreJoined /\ LobbyIsShared /\ PresenceIsExact

\* The sockets that are counted are finitely many.
LEMMA OpenIsFinite == ASSUME NEW l, NEW r PROVE IsFiniteSet(Open(l, r))
  BY LobbyAssumption, FS_Subset DEF LobbyAssumption, Open

\* Nobody is in a lobby at the start.
LEMMA LobbyInitInv == LobbyInit => LobbyInv
<1> SUFFICES ASSUME LobbyInit PROVE LobbyInv
  OBVIOUS
<1>1. LobbyTypeOK
  BY LobbyAssumption DEF LobbyInit, LobbyTypeOK, LobbyAssumption, SocketStates, Closed
<1>2. ListedAreJoined /\ LobbyIsShared
  BY DEF LobbyInit, ListedAreJoined, LobbyIsShared, Closed
<1>3. PresenceIsExact
  <2> SUFFICES ASSUME NEW l \in Lobbies, NEW r \in Roles
               PROVE  presence[l][r] = Cardinality(Open(l, r))
    BY DEF PresenceIsExact
  <2>1. Open(l, r) = {}
    BY DEF LobbyInit, Open, Closed
  <2> QED
    BY <2>1, FS_EmptySet DEF LobbyInit
<1> QED
  BY <1>1, <1>2, <1>3 DEF LobbyInv

\* A socket is added to the lobby the manager holds, or to a new one.
LEMMA JoinInv ==
    ASSUME LobbyInv, NEW s \in Sockets, Join(s)
    PROVE  LobbyInv'
<1> USE DEF LobbyInv
<1> DEFINE l == lobby'
<1>1. /\ l \in Lobbies /\ l \in 1 .. lobbies' /\ lobbies' \in 0 .. MaxLobbies
      /\ lobbies <= lobbies'
  BY LobbyAssumption DEF Join, LobbyTypeOK, LobbyAssumption, Lobbies
<1>2. SocketRole[s] \in Roles
  BY DEF Roles
<1>3. /\ presence' = [presence EXCEPT ![l][SocketRole[s]] = @ + 1]
      /\ connections' = [connections EXCEPT ![l] = @ \cup {s}]
      /\ socket' = [socket EXCEPT ![s] = [at |-> "joined", lobby |-> l]]
      /\ socket[s] = Closed
  BY DEF Join, AddConnection
<1>4. LobbyTypeOK'
  <2>1. socket' \in [Sockets -> SocketStates']
    BY <1>1, <1>3 DEF LobbyTypeOK, SocketStates
  <2>2. connections' \in [Lobbies -> SUBSET Sockets]
    BY <1>1, <1>3 DEF LobbyTypeOK
  <2>3. presence' \in [Lobbies -> [Roles -> Int]]
    BY <1>1, <1>2, <1>3 DEF LobbyTypeOK
  <2> QED
    BY <1>1, <2>1, <2>2, <2>3 DEF LobbyTypeOK
<1>5. ListedAreJoined'
  BY <1>1, <1>3 DEF ListedAreJoined, LobbyTypeOK, Closed
<1>6. ASSUME NEW q \in Sockets, q # s, socket[q].at = "joined"
      PROVE  l = socket[q].lobby
  BY <1>6, LobbyAssumption DEF LobbyIsShared, Join, LobbyTypeOK, SocketStates, Closed
<1>7. LobbyIsShared'
  BY <1>1, <1>3, <1>5, <1>6 DEF LobbyIsShared, ListedAreJoined, LobbyTypeOK
<1>8. PresenceIsExact'
  <2> SUFFICES ASSUME NEW k \in Lobbies, NEW r \in Roles
               PROVE  presence'[k][r] = Cardinality(Open(k, r)')
    BY DEF PresenceIsExact
  <2>1. CASE k = l /\ r = SocketRole[s]
    <3>1. Open(k, r)' = Open(k, r) \cup {s} /\ s \notin Open(k, r)
      BY <2>1, <1>3 DEF Open, LobbyTypeOK, Closed
    <3>2. Cardinality(Open(k, r)') = Cardinality(Open(k, r)) + 1
      BY <3>1, OpenIsFinite, FS_AddElement
    <3> QED
      BY <2>1, <3>2, <1>1, <1>3 DEF PresenceIsExact, LobbyTypeOK
  <2>2. CASE ~(k = l /\ r = SocketRole[s])
    <3>1. Open(k, r)' = Open(k, r)
      BY <2>2, <1>3 DEF Open, LobbyTypeOK, Closed
    <3> QED
      BY <2>2, <3>1, <1>1, <1>2, <1>3 DEF PresenceIsExact, LobbyTypeOK
  <2> QED
    BY <2>1, <2>2
<1> QED
  BY <1>4, <1>5, <1>7, <1>8

\* remove_connection, first half: the socket is off the list and still counted.
LEMMA LeaveConnectionsInv ==
    ASSUME LobbyInv, NEW s \in Sockets, LeaveConnections(s)
    PROVE  LobbyInv'
<1> USE DEF LobbyInv
<1>1. PICK l \in 1 .. lobbies : socket[s] = [at |-> "joined", lobby |-> l]
  BY DEF LeaveConnections, LobbyTypeOK, SocketStates, Closed
<1>2. /\ connections' = [connections EXCEPT ![l] = @ \ {s}]
      /\ socket' = [socket EXCEPT ![s] = [at |-> "leaving", lobby |-> l]]
      /\ UNCHANGED <<lobby, lobbies, presence>>
  <2>1. [socket[s] EXCEPT !.at = "leaving"] = [at |-> "leaving", lobby |-> l]
    BY <1>1
  <2>2. socket' = [socket EXCEPT ![s] = [socket[s] EXCEPT !.at = "leaving"]]
    BY DEF LeaveConnections
  <2> QED
    BY <1>1, <2>1, <2>2 DEF LeaveConnections
<1>3. l \in Lobbies
  BY LobbyAssumption DEF LobbyTypeOK, LobbyAssumption, Lobbies
<1>4. LobbyTypeOK'
  BY <1>1, <1>2, <1>3 DEF LobbyTypeOK, SocketStates
<1>5. ListedAreJoined'
  BY <1>1, <1>2, <1>3 DEF ListedAreJoined, LobbyTypeOK
<1>6. LobbyIsShared'
  BY <1>1, <1>2, <1>3 DEF LobbyIsShared, ListedAreJoined, LobbyTypeOK
<1>7. ASSUME NEW k \in Lobbies, NEW r \in Roles PROVE Open(k, r)' = Open(k, r)
  BY <1>1, <1>2 DEF Open, LobbyTypeOK
<1>8. PresenceIsExact'
  BY <1>2, <1>7 DEF PresenceIsExact
<1> QED
  BY <1>4, <1>5, <1>6, <1>8

\* remove_connection, second half: the side has one socket less.
LEMMA LeavePresenceInv ==
    ASSUME LobbyInv, NEW s \in Sockets, LeavePresence(s)
    PROVE  LobbyInv'
<1> USE DEF LobbyInv
<1>1. PICK l \in 1 .. lobbies : socket[s] = [at |-> "leaving", lobby |-> l]
  BY DEF LeavePresence, LobbyTypeOK, SocketStates, Closed
<1>2. /\ presence' = [presence EXCEPT ![l][SocketRole[s]] = @ - 1]
      /\ socket' = [socket EXCEPT ![s] = [at |-> "left", lobby |-> l]]
      /\ UNCHANGED <<lobby, lobbies, connections>>
  <2>1. [socket[s] EXCEPT !.at = "left"] = [at |-> "left", lobby |-> l]
    BY <1>1
  <2>2. socket' = [socket EXCEPT ![s] = [socket[s] EXCEPT !.at = "left"]]
    BY DEF LeavePresence
  <2> QED
    BY <1>1, <2>1, <2>2 DEF LeavePresence
<1>3. l \in Lobbies /\ SocketRole[s] \in Roles
  BY LobbyAssumption DEF LobbyTypeOK, LobbyAssumption, Lobbies, Roles
<1>4. LobbyTypeOK'
  BY <1>1, <1>2, <1>3 DEF LobbyTypeOK, SocketStates
<1>5. ListedAreJoined' /\ LobbyIsShared'
  BY <1>1, <1>2, <1>3 DEF ListedAreJoined, LobbyIsShared, LobbyTypeOK
<1>6. PresenceIsExact'
  <2> SUFFICES ASSUME NEW k \in Lobbies, NEW r \in Roles
               PROVE  presence'[k][r] = Cardinality(Open(k, r)')
    BY DEF PresenceIsExact
  <2>1. CASE k = l /\ r = SocketRole[s]
    <3>1. Open(k, r)' = Open(k, r) \ {s} /\ s \in Open(k, r)
      BY <2>1, <1>1, <1>2 DEF Open, LobbyTypeOK
    <3>2. Cardinality(Open(k, r)') = Cardinality(Open(k, r)) - 1
      BY <3>1, OpenIsFinite, FS_RemoveElement
    <3> QED
      BY <2>1, <3>2, <1>2, <1>3 DEF PresenceIsExact, LobbyTypeOK
  <2>2. CASE ~(k = l /\ r = SocketRole[s])
    <3>1. Open(k, r)' = Open(k, r)
      BY <2>2, <1>1, <1>2 DEF Open, LobbyTypeOK
    <3> QED
      BY <2>2, <3>1, <1>2, <1>3 DEF PresenceIsExact, LobbyTypeOK
  <2> QED
    BY <2>1, <2>2
<1> QED
  BY <1>4, <1>5, <1>6

\* remove_if_empty lets go of a lobby only when nobody is in it.
LEMMA RemoveIfEmptyInv ==
    ASSUME LobbyInv, NEW s \in Sockets, RemoveIfEmpty(s)
    PROVE  LobbyInv'
<1> USE DEF LobbyInv
<1>1. /\ socket[s].at = "left"
      /\ lobby' = IF lobby # 0 /\ connections[lobby] = {} THEN 0 ELSE lobby
      /\ socket' = [socket EXCEPT ![s] = Closed]
      /\ UNCHANGED <<lobbies, connections, presence>>
  BY DEF RemoveIfEmpty
<1>2. LobbyTypeOK'
  BY <1>1 DEF LobbyTypeOK, SocketStates
<1>3. ListedAreJoined'
  BY <1>1 DEF ListedAreJoined, LobbyTypeOK, Closed
<1>4. LobbyIsShared'
  BY <1>1 DEF LobbyIsShared, LobbyTypeOK, Closed
<1>5. ASSUME NEW k \in Lobbies, NEW r \in Roles PROVE Open(k, r)' = Open(k, r)
  BY <1>1 DEF Open, LobbyTypeOK, Closed
<1>6. PresenceIsExact'
  BY <1>1, <1>5 DEF PresenceIsExact
<1> QED
  BY <1>2, <1>3, <1>4, <1>6

\* Every step keeps the invariant.
LEMMA LobbyNextInv == LobbyInv /\ [LobbyNext]_lobbyVars => LobbyInv'
<1> SUFFICES ASSUME LobbyInv, [LobbyNext]_lobbyVars PROVE LobbyInv'
  OBVIOUS
<1>1. CASE LobbyNext
  BY <1>1, JoinInv, LeaveConnectionsInv, LeavePresenceInv, RemoveIfEmptyInv DEF LobbyNext
<1>2. CASE UNCHANGED lobbyVars
  BY <1>2 DEF lobbyVars, lobbyTables, LobbyInv, LobbyTypeOK, SocketStates, ListedAreJoined,
              LobbyIsShared, PresenceIsExact, Open
<1> QED
  BY <1>1, <1>2

\* Whoever joins, leaves, or tears an empty lobby down in whatever order, every
\* open socket is in the lobby that is broadcast to, and a side counts as
\* present exactly while one of its sockets is counted (join, remove_connection,
\* remove_if_empty).
THEOREM LobbyStaysSound == LobbySpec => []LobbyIsSound
<1>1. LobbySpec => []LobbyInv
  BY LobbyInitInv, LobbyNextInv, PTL DEF LobbySpec
<1>2. LobbyInv => LobbyIsSound
  BY DEF LobbyInv, LobbyIsSound
<1> QED
  BY <1>1, <1>2, PTL

-----------------------------------------------------------------------------
(* Pick-up games.  A lobby that is locked stays locked and plays with the teams *)
(* it froze, and one that was called off leaves no match behind.                *)
(* The requests                                                             *)

\* A roster with the creator in it: the creator never leaves.
CreatorRosters == {f \in PugRosters : PugCreator \in DOMAIN f}

CreateJob == [pc : {"pug create"}, then : {0}]
RematchJob == [pc : {"pug create"}, then : PugIds, players : CreatorRosters]
CopyJob ==
    {c \in [pc : {"pug copy", "pug copy creator"}, pug : PugIds, from : PugIds, players : CreatorRosters,
            left : SUBSET PugPlayers] :
        c.left \subseteq DOMAIN c.players}
RematchedJob == [pc : {"pug rematched"}, pug : PugIds, players : CreatorRosters]
SeatJob == [pc : {"pug join", "pug captain", "pug nominate"}, pug : PugIds, player : PugPlayers]
LeaveJob == [pc : {"pug leave"}, pug : PugIds, player : PugPlayers \ {PugCreator}]
MoveJob == [pc : {"pug move"}, pug : PugIds, player : PugPlayers, team : 0 .. 2]
DealJob == [pc : {"pug deal"}, pug : PugIds, deal : PugRosters]
RowJob ==
    [pc : {"pug swap", "pug rollback", "pug veto", "pug pick_ban", "pug attach", "pug veto hook",
           "pug live hook", "pug live", "pug expire"}, pug : PugIds]
LockJob == [pc : {"pug lock", "pug freeze"}, pug : PugIds, actor : PugPlayers, force : BOOLEAN]
BuildJob == [pc : {"pug container", "pug match"}, pug : PugIds, teams : AdhocTeam \X AdhocTeam]
CancelJob ==
    [pc : {"pug cancel veto", "pug cancel server", "pug cancel match", "pug cancelled"},
     pug : PugIds, then : {"orphan", "cancelled", "swept"}]
EndJob == [pc : {"pug end hook"}, pug : PugIds, winner : 0 .. 2, then : {"done", "swept"}]

PugJobs ==
    {NoRequest} \cup CreateJob \cup RematchJob \cup CopyJob \cup RematchedJob \cup SeatJob
    \cup LeaveJob \cup MoveJob \cup DealJob \cup RowJob \cup LockJob \cup BuildJob
    \cup CancelJob \cup EndJob

\* Whoever won the lock and has not let go of it yet.
LockPcs == {"pug freeze", "pug container", "pug match", "pug veto", "pug pick_ban", "pug attach",
            "pug rollback"}
Locking(r, i) == r.pc \in LockPcs /\ r.pug = i

\* A request that acts on a match acts on one that is there.
NeedsMatch(r) ==
    \/ r.pc \in {"pug veto", "pug pick_ban", "pug attach", "pug cancel veto", "pug cancel server",
                 "pug cancel match"}
    \/ r.pc \in {"pug end hook", "pug cancelled"} /\ r.then = "swept"

Sweeping(r, i) == r.pc = "pug cancel veto" /\ r.pug = i /\ r.then = "swept"

-----------------------------------------------------------------------------
(* The inductive invariant                                                  *)

Built(box) == box.match \notin {"none", "tournament"}
Over(box) == box.match \in {"completed", "cancelled"}
SoundTeams(teams) == teams[1] # {} /\ teams[2] # {} /\ teams[1] \cap teams[2] = {}

TypeInv ==
    /\ scenario \in Scenarios
    /\ crashes \in Nat
    /\ req \in [Tasks -> PugJobs]
    /\ pugs \in [PugIds -> PugRow]
    /\ pugRoster \in [PugIds -> PugRosters]
    /\ pugCaptains \in [PugIds -> SUBSET PugPlayers]
    /\ pugEntries \in [PugIds -> SUBSET PugPlayers]
    /\ pugMatch \in [PugIds -> PugContainer]

\* The captains and the creator are in their lobby.
SeatsInv ==
    \A i \in PugIds :
        /\ pugCaptains[i] \subseteq DOMAIN pugRoster[i]
        /\ pugs[i].status # "none" => PugCreator \in DOMAIN pugRoster[i]

\* A lobby and its container fit together.
RowFits(row, box) ==
    /\ row.status = "none" => row = NoPug
    /\ row.attached => row.status # "gathering" /\ Built(box)
    /\ Built(box) => row.status # "none" /\ SoundTeams(box.teams)
    /\ box.veto # "none" => Built(box)

\* A request fits the lobby it works on: it is there, nobody else can lock it
\* while this one does, and the match that is acted upon was made.
Fits(r, rows, boxes) ==
    /\ r.pc \notin {"idle", "pug create"} => rows[r.pug].status # "none"
    /\ r.pc \in LockPcs => rows[r.pug].status # "gathering" /\ ~rows[r.pug].attached
    /\ NeedsMatch(r) => Built(boxes[r.pug])
    /\ r.pc \in {"pug container", "pug match"} => SoundTeams(r.teams)

OneLocker ==
    \A p, q \in Tasks, i \in PugIds : Locking(req[p], i) /\ Locking(req[q], i) => p = q

LockInv ==
    /\ \A i \in PugIds : RowFits(pugs[i], pugMatch[i])
    /\ \A p \in Tasks : Fits(req[p], pugs, pugMatch)
    /\ OneLocker

\* One request at a time.
Alone == \A p, q \in Tasks : req[p] # NoRequest /\ req[q] # NoRequest => p = q

\* A request that is alone finds the lobby as it left it: what it is about to
\* call off is torn down.
SerialFits(r, rows, boxes) ==
    /\ r.pc \in LockPcs => rows[r.pug].status = "map_selection"
    /\ /\ r.pc \in {"pug cancel server", "pug cancel match", "pug cancelled"}
       /\ r.then # "swept"
       /\ rows[r.pug].attached
       => boxes[r.pug].veto # "active"
    /\ r.pc = "pug cancelled" /\ rows[r.pug].attached => Over(boxes[r.pug])

TornDown(i) ==
    pugs[i].status = "cancelled" /\ pugs[i].attached =>
        /\ Over(pugMatch[i])
        /\ crashes = 0 /\ pugMatch[i].veto = "active" => \E p \in Tasks : Sweeping(req[p], i)

SerialInv ==
    scenario.serial =>
        /\ Alone
        /\ \A p \in Tasks : SerialFits(req[p], pugs, pugMatch)
        /\ \A i \in PugIds : TornDown(i)

PugInv == TypeInv /\ SeatsInv /\ LockInv /\ SerialInv

-----------------------------------------------------------------------------
(* Lemmas about requests                                                    *)

\* What each kind of request is at.
LEMMA KindsApart ==
    /\ NoRequest.pc = "idle"
    /\ \A x \in CreateJob : x.pc \in {"pug create"}
    /\ \A x \in RematchJob : x.pc \in {"pug create"}
    /\ \A x \in CopyJob : x.pc \in {"pug copy", "pug copy creator"} /\ x.pug \in PugIds
    /\ \A x \in RematchedJob : x.pc \in {"pug rematched"} /\ x.pug \in PugIds
    /\ \A x \in SeatJob : x.pc \in {"pug join", "pug captain", "pug nominate"} /\ x.pug \in PugIds
    /\ \A x \in LeaveJob : x.pc \in {"pug leave"} /\ x.pug \in PugIds
    /\ \A x \in MoveJob : x.pc \in {"pug move"} /\ x.pug \in PugIds
    /\ \A x \in DealJob : x.pc \in {"pug deal"} /\ x.pug \in PugIds
    /\ \A x \in RowJob : x.pc \in {"pug swap", "pug rollback", "pug veto", "pug pick_ban", "pug attach",
                           "pug veto hook", "pug live hook", "pug live", "pug expire"} /\ x.pug \in PugIds
    /\ \A x \in LockJob : x.pc \in {"pug lock", "pug freeze"} /\ x.pug \in PugIds
    /\ \A x \in BuildJob : x.pc \in {"pug container", "pug match"} /\ x.pug \in PugIds
    /\ \A x \in CancelJob : x.pc \in {"pug cancel veto", "pug cancel server", "pug cancel match",
                              "pug cancelled"} /\ x.pug \in PugIds
    /\ \A x \in EndJob : x.pc \in {"pug end hook"} /\ x.pug \in PugIds
  BY DEF NoRequest, CreateJob, RematchJob, CopyJob, RematchedJob, SeatJob, LeaveJob, MoveJob,
         DealJob, RowJob, LockJob, BuildJob, CancelJob, EndJob

\* The label of a request tells what it carries.
LEMMA KindOfJob ==
    ASSUME NEW r \in PugJobs
    PROVE  /\ r.pc = "idle" <=> r = NoRequest
           /\ r.pc = "pug create" => r \in CreateJob \cup RematchJob
           /\ r.pc \in {"pug copy", "pug copy creator"} => r \in CopyJob
           /\ r.pc = "pug rematched" => r \in RematchedJob
           /\ r.pc \in {"pug join", "pug captain", "pug nominate"} => r \in SeatJob
           /\ r.pc = "pug leave" => r \in LeaveJob
           /\ r.pc = "pug move" => r \in MoveJob
           /\ r.pc = "pug deal" => r \in DealJob
           /\ r.pc \in {"pug swap", "pug rollback", "pug veto", "pug pick_ban", "pug attach",
                        "pug veto hook", "pug live hook", "pug live", "pug expire"} => r \in RowJob
           /\ r.pc \in {"pug lock", "pug freeze"} => r \in LockJob
           /\ r.pc \in {"pug container", "pug match"} => r \in BuildJob
           /\ r.pc \in {"pug cancel veto", "pug cancel server", "pug cancel match", "pug cancelled"}
                  => r \in CancelJob
           /\ r.pc = "pug end hook" => r \in EndJob
<1>1. \/ r = NoRequest \/ r \in CreateJob \cup RematchJob \/ r \in CopyJob \/ r \in RematchedJob
      \/ r \in SeatJob \/ r \in LeaveJob \/ r \in MoveJob \/ r \in DealJob \/ r \in RowJob
      \/ r \in LockJob \/ r \in BuildJob \/ r \in CancelJob \/ r \in EndJob
  BY DEF PugJobs
<1>2. CASE r = NoRequest
  BY <1>2, KindsApart
<1>3. CASE r # NoRequest
  <2>1. r.pc # "idle"
    BY <1>1, <1>3, KindsApart
  <2>2. r.pc = "pug create" => r \in CreateJob \cup RematchJob
    BY <1>1, KindsApart
  <2>3. r.pc \in {"pug copy", "pug copy creator"} => r \in CopyJob
    BY <1>1, KindsApart
  <2>4. r.pc = "pug rematched" => r \in RematchedJob
    BY <1>1, KindsApart
  <2>5. r.pc \in {"pug join", "pug captain", "pug nominate"} => r \in SeatJob
    BY <1>1, KindsApart
  <2>6. r.pc = "pug leave" => r \in LeaveJob
    BY <1>1, KindsApart
  <2>7. r.pc = "pug move" => r \in MoveJob
    BY <1>1, KindsApart
  <2>8. r.pc = "pug deal" => r \in DealJob
    BY <1>1, KindsApart
  <2>9. r.pc \in {"pug swap", "pug rollback", "pug veto", "pug pick_ban", "pug attach",
               "pug veto hook", "pug live hook", "pug live", "pug expire"} => r \in RowJob
    BY <1>1, KindsApart
  <2>10. r.pc \in {"pug lock", "pug freeze"} => r \in LockJob
    BY <1>1, KindsApart
  <2>11. r.pc \in {"pug container", "pug match"} => r \in BuildJob
    BY <1>1, KindsApart
  <2>12. r.pc \in {"pug cancel veto", "pug cancel server", "pug cancel match", "pug cancelled"}
             => r \in CancelJob
    BY <1>1, KindsApart
  <2>13. r.pc = "pug end hook" => r \in EndJob
    BY <1>1, KindsApart
  <2> QED
    BY <1>3, <2>1, <2>2, <2>3, <2>4, <2>5, <2>6, <2>7, <2>8, <2>9, <2>10, <2>11, <2>12, <2>13
<1> QED
  BY <1>2, <1>3

\* Every request but an idle one and one that creates a lobby names a lobby.
LEMMA JobHasPug ==
    ASSUME NEW r \in PugJobs, r.pc \notin {"idle", "pug create"}
    PROVE  r.pug \in PugIds
  BY KindsApart DEF PugJobs

\* Task p goes on as r.
Turned(p, r) ==
    /\ scenario' = scenario
    /\ req' = [req EXCEPT ![p] = r]
    /\ crashes' \in Nat /\ (crashes' = 0 => crashes = 0)
    /\ scenario.serial /\ req[p] = NoRequest => Quiescent

\* A request that arrives, that goes on, and one that dies.
LEMMA Turning ==
    ASSUME TypeInv, NEW p \in Tasks, NEW r
    PROVE  /\ Request(p, r) => Turned(p, r) /\ req[p] = NoRequest
           /\ Wake(p, r) => Turned(p, r) /\ req[p] = NoRequest
           /\ Elsewhere(p, r) => Turned(p, r) /\ req[p] = NoRequest
           /\ req[p] # NoRequest /\ Continue(p, r) => Turned(p, r)
           /\ req[p] # NoRequest /\ Finish(p) => Turned(p, NoRequest)
           /\ Die(p) => Turned(p, NoRequest)
  BY DEF TypeInv, Turned, Request, Wake, Elsewhere, Continue, Finish, Die, MayStart, Quiescent

\* Whoever is somewhere in the code is not idle.
LEMMA NotIdle == ASSUME NEW p, NEW label, At(p, label), label # "idle" PROVE req[p] # NoRequest
  BY DEF At, NoRequest

\* An idle task fits any lobby.
LEMMA IdleFits ==
    ASSUME NEW rows, NEW boxes
    PROVE  /\ NoRequest \in PugJobs
           /\ NoRequest.pc = "idle"
           /\ Fits(NoRequest, rows, boxes) /\ SerialFits(NoRequest, rows, boxes)
  BY DEF PugJobs, NoRequest, Fits, SerialFits, LockPcs, NeedsMatch

-----------------------------------------------------------------------------
(* What a step does to one lobby                                            *)

\* A step of task p that writes one lobby and its container keeps the locks
\* apart, when what it writes fits together and leaves the other tasks alone.
LEMMA LobbyStep ==
    ASSUME TypeInv, LockInv, NEW p \in Tasks, NEW r \in PugJobs, Turned(p, r),
           NEW i \in PugIds, NEW row, NEW box,
           pugs' = [pugs EXCEPT ![i] = row], pugMatch' = [pugMatch EXCEPT ![i] = box],
           RowFits(row, box),
           pugs[i].status # "none" => row.status # "none",
           Built(pugMatch[i]) => Built(box),
           \A q \in Tasks : q # p /\ Locking(req[q], i) => row.status # "gathering" /\ ~row.attached,
           Fits(r, pugs', pugMatch'),
           \A j : Locking(r, j) => Locking(req[p], j) \/ \A q \in Tasks : ~Locking(req[q], j)
    PROVE  LockInv'
<1>1. req' = [req EXCEPT ![p] = r] /\ req \in [Tasks -> PugJobs]
  BY DEF Turned, TypeInv
<1>2. \A j \in PugIds : RowFits(pugs'[j], pugMatch'[j])
  BY DEF LockInv, TypeInv
<1>3. ASSUME NEW q \in Tasks PROVE Fits(req'[q], pugs', pugMatch')
  <2>1. CASE q = p
    BY <1>1, <2>1
  <2>2. CASE q # p
    <3>1. req'[q] = req[q] /\ req[q] \in PugJobs /\ Fits(req[q], pugs, pugMatch)
      BY <1>1, <2>2 DEF LockInv
    <3>2. CASE req[q].pc \in {"idle", "pug create"}
      BY <3>1, <3>2 DEF Fits, LockPcs, NeedsMatch
    <3>3. CASE req[q].pc \notin {"idle", "pug create"}
      <4>1. req[q].pug \in PugIds
        BY <3>1, <3>3, JobHasPug
      <4>2. CASE req[q].pug # i
        <5>1. pugs'[req[q].pug] = pugs[req[q].pug] /\ pugMatch'[req[q].pug] = pugMatch[req[q].pug]
          BY <4>1, <4>2 DEF TypeInv
        <5> QED
          BY <3>1, <5>1 DEF Fits
      <4>3. CASE req[q].pug = i
        <5>1. pugs'[i] = row /\ pugMatch'[i] = box
          BY DEF TypeInv
        <5> QED
          BY <2>2, <3>1, <4>3, <5>1 DEF Fits, Locking
      <4> QED
        BY <4>2, <4>3
    <3> QED
      BY <3>2, <3>3
  <2> QED
    BY <2>1, <2>2
<1>4. OneLocker'
  <2> SUFFICES ASSUME NEW q1 \in Tasks, NEW q2 \in Tasks, NEW j \in PugIds,
                      Locking(req'[q1], j), Locking(req'[q2], j), q1 # q2
               PROVE  FALSE
    BY DEF OneLocker, Locking
  <2>1. \A q \in Tasks : q # p => req'[q] = req[q]
    BY <1>1
  <2>2. req'[p] = r
    BY <1>1
  <2> QED
    BY <2>1, <2>2 DEF LockInv, OneLocker
<1> QED
  BY <1>2, <1>3, <1>4 DEF LockInv

\* In a serial scenario the step also has to fit what it left behind.
LEMMA SerialStep ==
    ASSUME TypeInv, SerialInv, NEW p \in Tasks, NEW r \in PugJobs, Turned(p, r),
           NEW i \in PugIds, NEW row, NEW box,
           pugs' = [pugs EXCEPT ![i] = row], pugMatch' = [pugMatch EXCEPT ![i] = box],
           scenario.serial => SerialFits(r, pugs', pugMatch'),
           \A j \in PugIds : j # i => ~Sweeping(req[p], j),
           scenario.serial /\ row.status = "cancelled" /\ row.attached => Over(box),
           scenario.serial /\ row.status = "cancelled" /\ row.attached /\ crashes' = 0 /\ box.veto = "active"
               => Sweeping(r, i)
    PROVE  SerialInv'
<1> SUFFICES ASSUME scenario'.serial
             PROVE  (Alone /\ (\A q \in Tasks : SerialFits(req[q], pugs, pugMatch)) /\ \A j \in PugIds : TornDown(j))'
  BY DEF SerialInv
<1>1. /\ scenario.serial /\ req' = [req EXCEPT ![p] = r] /\ req \in [Tasks -> PugJobs]
      /\ crashes' = 0 => crashes = 0
  BY DEF Turned, TypeInv
<1>2. Alone /\ \A j \in PugIds : TornDown(j)
  BY <1>1 DEF SerialInv
<1>3. \A q \in Tasks : q # p => req[q] = NoRequest
  <2>1. CASE req[p] = NoRequest
    BY <1>1, <2>1 DEF Turned, Quiescent
  <2>2. CASE req[p] # NoRequest
    BY <1>2, <2>2 DEF Alone
  <2> QED
    BY <2>1, <2>2
<1>4. /\ \A q \in Tasks : q # p => req'[q] = NoRequest
      /\ req'[p] = r
  BY <1>1, <1>3
<1>5. Alone'
  BY <1>4 DEF Alone
<1>6. ASSUME NEW q \in Tasks PROVE SerialFits(req'[q], pugs', pugMatch')
  BY <1>1, <1>4, IdleFits
<1>7. ASSUME NEW j \in PugIds PROVE TornDown(j)'
  <2>1. CASE j = i
    <3>1. pugs'[i] = row /\ pugMatch'[i] = box
      BY DEF TypeInv
    <3> QED
      BY <1>1, <1>4, <2>1, <3>1 DEF TornDown
  <2>2. CASE j # i
    <3>1. pugs'[j] = pugs[j] /\ pugMatch'[j] = pugMatch[j]
      BY <2>2 DEF TypeInv
    <3>2. \A q \in Tasks : ~Sweeping(req[q], j)
      BY <1>3, <2>2, IdleFits DEF Sweeping
    <3> QED
      BY <1>1, <1>2, <3>1, <3>2 DEF TornDown
  <2> QED
    BY <2>1, <2>2
<1> QED
  BY <1>5, <1>6, <1>7

\* A step that writes no lobby row and no container keeps the locks apart.
LEMMA QuietLocks ==
    ASSUME TypeInv, LockInv, NEW p \in Tasks, NEW r \in PugJobs, Turned(p, r),
           UNCHANGED <<pugs, pugMatch>>,
           Fits(r, pugs, pugMatch),
           \A j : Locking(r, j) => Locking(req[p], j)
    PROVE  LockInv'
<1>1. 1 \in PugIds
  BY PugsAssumption DEF PugsAssumption, PugIds
<1>2. /\ pugs' = [pugs EXCEPT ![1] = pugs[1]]
      /\ pugMatch' = [pugMatch EXCEPT ![1] = pugMatch[1]]
  BY <1>1 DEF TypeInv
<1>3. RowFits(pugs[1], pugMatch[1])
  BY <1>1 DEF LockInv
<1>4. ASSUME NEW q \in Tasks, Locking(req[q], 1) PROVE pugs[1].status # "gathering" /\ ~pugs[1].attached
  BY <1>4 DEF LockInv, Fits, Locking
<1>5. Fits(r, pugs', pugMatch')
  OBVIOUS
<1> QED
  BY <1>1, <1>2, <1>3, <1>4, <1>5, LobbyStep

\* A step that writes no lobby row and no container.
LEMMA PugQuietStep ==
    ASSUME TypeInv, LockInv, SerialInv, NEW p \in Tasks, NEW r \in PugJobs, Turned(p, r),
           UNCHANGED <<pugs, pugMatch>>,
           Fits(r, pugs, pugMatch),
           \A j : Locking(r, j) => Locking(req[p], j),
           scenario.serial => SerialFits(r, pugs, pugMatch),
           \A j \in PugIds : ~Sweeping(req[p], j)
    PROVE  LockInv' /\ SerialInv'
<1>1. 1 \in PugIds
  BY PugsAssumption DEF PugsAssumption, PugIds
<1>2. /\ pugs' = [pugs EXCEPT ![1] = pugs[1]]
      /\ pugMatch' = [pugMatch EXCEPT ![1] = pugMatch[1]]
  BY <1>1 DEF TypeInv
<1>3. LockInv'
  BY QuietLocks
<1>4. SerialInv'
  <2> SUFFICES ASSUME scenario.serial PROVE SerialInv'
    BY DEF SerialInv, Turned
  <2>1. \A q \in Tasks : q # p => req[q] = NoRequest
    BY DEF SerialInv, Alone, Turned, Quiescent
  <2>2. ASSUME pugs[1].status = "cancelled", pugs[1].attached
        PROVE  Over(pugMatch[1]) /\ (crashes' = 0 /\ pugMatch[1].veto = "active" => Sweeping(r, 1))
    <3>1. TornDown(1)
      BY <1>1 DEF SerialInv
    <3>2. \A q \in Tasks : ~Sweeping(req[q], 1)
      BY <1>1, <2>1, IdleFits DEF Sweeping
    <3> QED
      BY <2>2, <3>1, <3>2 DEF TornDown, Turned
  <2>3. SerialFits(r, pugs', pugMatch')
    OBVIOUS
  <2> QED
    <3> DEFINE row == pugs[1]
    <3> DEFINE box == pugMatch[1]
    <3>1. \A j \in PugIds : j # 1 => ~Sweeping(req[p], j)
      OBVIOUS
    <3>2. scenario.serial /\ row.status = "cancelled" /\ row.attached => Over(box)
      BY <2>2
    <3>3. scenario.serial /\ row.status = "cancelled" /\ row.attached /\ crashes' = 0 /\ box.veto = "active"
             => Sweeping(r, 1)
      BY <2>2
    <3>4. pugs' = [pugs EXCEPT ![1] = row] /\ pugMatch' = [pugMatch EXCEPT ![1] = box]
      BY <1>2
    <3> HIDE DEF row, box
    <3> QED
      BY <1>1, <2>3, <3>1, <3>2, <3>3, <3>4, SerialStep
<1> QED
  BY <1>3, <1>4

-----------------------------------------------------------------------------
(* Steps that write no lobby row and no container                           *)

\* What a request may be without any claim on its lobby.
Harmless(r) ==
    r.pc \in {"pug create", "pug copy", "pug copy creator", "pug rematched", "pug join", "pug captain",
              "pug nominate", "pug leave", "pug move", "pug deal", "pug swap", "pug veto hook",
              "pug live hook", "pug live", "pug expire", "pug lock"}

\* Such a request fits any lobby that is there.
LEMMA HarmlessFits ==
    ASSUME NEW r, Harmless(r), NEW rows, NEW boxes,
           r.pc = "pug create" \/ rows[r.pug].status # "none"
    PROVE  Fits(r, rows, boxes) /\ SerialFits(r, rows, boxes) /\ (\A j : ~Locking(r, j))
  BY DEF Harmless, Fits, SerialFits, LockPcs, NeedsMatch, Locking

\* A step that writes the seats of lobbies only: nobody but a leaving player
\* loses a seat.
LEMMA SeatStep ==
    ASSUME PugInv, NEW p \in Tasks, NEW r \in PugJobs, Turned(p, r),
           UNCHANGED <<pugs, pugMatch>>,
           pugRoster' \in [PugIds -> PugRosters],
           pugCaptains' \in [PugIds -> SUBSET PugPlayers],
           pugEntries' \in [PugIds -> SUBSET PugPlayers],
           \A i \in PugIds : pugCaptains'[i] \subseteq DOMAIN pugRoster'[i],
           \A i \in PugIds : PugCreator \in DOMAIN pugRoster[i] => PugCreator \in DOMAIN pugRoster'[i],
           Fits(r, pugs, pugMatch),
           \A j : Locking(r, j) => Locking(req[p], j),
           scenario.serial => SerialFits(r, pugs, pugMatch),
           req[p].pc # "pug cancel veto"
    PROVE  PugInv'
<1>1. TypeInv'
  BY DEF PugInv, TypeInv, Turned
<1>2. SeatsInv'
  BY DEF PugInv, SeatsInv
<1>3. LockInv' /\ SerialInv'
  <2>1. \A j \in PugIds : ~Sweeping(req[p], j)
    BY DEF Sweeping
  <2> QED
    BY <2>1, PugQuietStep DEF PugInv
<1> QED
  BY <1>1, <1>2, <1>3 DEF PugInv

\* A step that writes no table at all.
LEMMA PlainStep ==
    ASSUME PugInv, NEW p \in Tasks, NEW r \in PugJobs, Turned(p, r), UNCHANGED pugTables,
           Fits(r, pugs, pugMatch),
           \A j : Locking(r, j) => Locking(req[p], j),
           scenario.serial => SerialFits(r, pugs, pugMatch),
           req[p].pc # "pug cancel veto"
    PROVE  PugInv'
<1>1. UNCHANGED <<pugs, pugRoster, pugCaptains, pugEntries, pugMatch>>
  BY DEF pugTables
<1>2. /\ pugRoster' \in [PugIds -> PugRosters]
      /\ pugCaptains' \in [PugIds -> SUBSET PugPlayers]
      /\ pugEntries' \in [PugIds -> SUBSET PugPlayers]
  BY <1>1 DEF PugInv, TypeInv
<1>3. \A i \in PugIds : pugCaptains'[i] \subseteq DOMAIN pugRoster'[i]
  BY <1>1 DEF PugInv, SeatsInv
<1> QED
  BY <1>1, <1>2, <1>3, SeatStep

\* The arrival of a request, or the sweeper taking up a lobby.
LEMMA ArrivalInv ==
    ASSUME PugInv, NEW p \in Tasks, NEW r \in PugJobs, Request(p, r) \/ Wake(p, r),
           UNCHANGED pugTables,
           Fits(r, pugs, pugMatch), SerialFits(r, pugs, pugMatch), \A j : ~Locking(r, j)
    PROVE  PugInv'
<1>1. Turned(p, r) /\ req[p] = NoRequest
  BY Turning DEF PugInv
<1>2. req[p].pc # "pug cancel veto"
  BY <1>1, IdleFits
<1> QED
  BY <1>1, <1>2, PlainStep

\* The rows of a lobby that is there.
LEMMA RowTypes ==
    ASSUME PugInv, NEW i \in PugIds
    PROVE  /\ pugs[i] \in PugRow /\ pugMatch[i] \in PugContainer /\ pugRoster[i] \in PugRosters
           /\ DOMAIN pugRoster[i] \subseteq PugPlayers
           /\ pugCaptains[i] \subseteq DOMAIN pugRoster[i] /\ pugEntries[i] \subseteq PugPlayers
           /\ RowFits(pugs[i], pugMatch[i])
           /\ is_open(i) => pugs[i].status # "none" /\ ~pugs[i].attached
           /\ pugs[i].status # "none" => pugRoster[i] \in CreatorRosters
           /\ pugs[i] # NoPug => pugs[i].status # "none"
<1>1. pugRoster[i] \in PugRosters /\ DOMAIN pugRoster[i] \subseteq PugPlayers
  BY DEF PugInv, TypeInv, PugRosters
<1>2. /\ pugs[i] \in PugRow /\ pugMatch[i] \in PugContainer /\ pugEntries[i] \subseteq PugPlayers
      /\ pugCaptains[i] \subseteq DOMAIN pugRoster[i]
      /\ RowFits(pugs[i], pugMatch[i])
      /\ pugs[i].status # "none" => PugCreator \in DOMAIN pugRoster[i]
  BY DEF PugInv, TypeInv, SeatsInv, LockInv
<1> QED
  BY <1>1, <1>2 DEF RowFits, is_open, CreatorRosters

\* Whoever joins, leaves, is moved or dealt, nominates a map or tries to lock
\* finds the lobby open.
LEMMA LobbyRequestsInv ==
    ASSUME PugInv, NEW p \in Tasks,
           \/ CreatePug(p) \/ JoinByCode(p) \/ LeavePug(p) \/ SetTeam(p) \/ DraftPick(p)
           \/ ShuffleTeams(p) \/ SwapTeams(p) \/ SetCaptain(p) \/ NominateMap(p) \/ LockPug(p)
    PROVE  PugInv'
<1>1. PICK r : /\ r \in PugJobs /\ Harmless(r)
               /\ r.pc = "pug create" \/ pugs[r.pug].status # "none"
               /\ Request(p, r) /\ UNCHANGED pugTables
  <2>1. CASE CreatePug(p)
    <3> DEFINE r == [pc |-> "pug create", then |-> 0]
    <3>1. r \in PugJobs /\ Harmless(r)
      BY DEF PugJobs, CreateJob, Harmless
    <3> QED
      BY <2>1, <3>1 DEF CreatePug
  <2>2. CASE JoinByCode(p)
    <3>1. PICK i \in PugIds, x \in PugPlayers :
             is_open(i) /\ Request(p, [pc |-> "pug join", pug |-> i, player |-> x])
      BY <2>2 DEF JoinByCode
    <3> DEFINE r == [pc |-> "pug join", pug |-> i, player |-> x]
    <3>2. r \in PugJobs /\ Harmless(r)
      BY DEF PugJobs, SeatJob, Harmless
    <3> QED
      BY <2>2, <3>1, <3>2, RowTypes DEF JoinByCode
  <2>3. CASE LeavePug(p)
    <3>1. PICK i \in PugIds, x \in PugPlayers \ {PugCreator} :
             is_open(i) /\ Request(p, [pc |-> "pug leave", pug |-> i, player |-> x])
      BY <2>3 DEF LeavePug
    <3> DEFINE r == [pc |-> "pug leave", pug |-> i, player |-> x]
    <3>2. r \in PugJobs /\ Harmless(r)
      BY DEF PugJobs, LeaveJob, Harmless
    <3> QED
      BY <2>3, <3>1, <3>2, RowTypes DEF LeavePug
  <2>4. CASE SetTeam(p)
    <3>1. PICK i \in PugIds, x \in PugPlayers, t \in 0 .. 2 :
             is_open(i) /\ Request(p, [pc |-> "pug move", pug |-> i, player |-> x, team |-> t])
      BY <2>4 DEF SetTeam
    <3> DEFINE r == [pc |-> "pug move", pug |-> i, player |-> x, team |-> t]
    <3>2. r \in PugJobs /\ Harmless(r)
      BY DEF PugJobs, MoveJob, Harmless
    <3> QED
      BY <2>4, <3>1, <3>2, RowTypes DEF SetTeam
  <2>5. CASE DraftPick(p)
    <3>1. PICK i \in PugIds, x \in PugPlayers :
             is_open(i) /\ Request(p, [pc |-> "pug move", pug |-> i, player |-> x, team |-> picking_team(i)])
      BY <2>5 DEF DraftPick
    <3> DEFINE r == [pc |-> "pug move", pug |-> i, player |-> x, team |-> picking_team(i)]
    <3>2. picking_team(i) \in 0 .. 2
      BY DEF picking_team
    <3>3. r \in PugJobs /\ Harmless(r)
      BY <3>2 DEF PugJobs, MoveJob, Harmless
    <3> HIDE DEF r
    <3>4. Request(p, r) /\ r.pug = i
      BY <3>1 DEF r
    <3> QED
      BY <2>5, <3>1, <3>3, <3>4, RowTypes DEF DraftPick
  <2>6. CASE ShuffleTeams(p)
    <3>0. PICK i \in PugIds : is_open(i) /\ \E d \in Deals(DOMAIN pugRoster[i]) :
                                 Request(p, [pc |-> "pug deal", pug |-> i, deal |-> d])
      BY <2>6 DEF ShuffleTeams
    <3>1. PICK d \in Deals(DOMAIN pugRoster[i]) : Request(p, [pc |-> "pug deal", pug |-> i, deal |-> d])
      BY <3>0
    <3> DEFINE r == [pc |-> "pug deal", pug |-> i, deal |-> d]
    <3>2. d \in PugRosters
      <4>1. d \in [DOMAIN pugRoster[i] -> 0 .. 2] /\ DOMAIN pugRoster[i] \in SUBSET PugPlayers
        BY <3>1, RowTypes DEF Deals
      <4> QED
        BY <4>1 DEF PugRosters
    <3>3. r \in PugJobs /\ Harmless(r)
      BY <3>2 DEF PugJobs, DealJob, Harmless
    <3> QED
      BY <2>6, <3>0, <3>1, <3>3, RowTypes DEF ShuffleTeams
  <2>7. CASE SwapTeams(p)
    <3>1. PICK i \in PugIds : is_open(i) /\ Request(p, [pc |-> "pug swap", pug |-> i])
      BY <2>7 DEF SwapTeams
    <3> DEFINE r == [pc |-> "pug swap", pug |-> i]
    <3>2. r \in PugJobs /\ Harmless(r)
      BY DEF PugJobs, RowJob, Harmless
    <3> QED
      BY <2>7, <3>1, <3>2, RowTypes DEF SwapTeams
  <2>8. CASE SetCaptain(p)
    <3>1. PICK i \in PugIds, x \in PugPlayers :
             is_open(i) /\ Request(p, [pc |-> "pug captain", pug |-> i, player |-> x])
      BY <2>8 DEF SetCaptain
    <3> DEFINE r == [pc |-> "pug captain", pug |-> i, player |-> x]
    <3>2. r \in PugJobs /\ Harmless(r)
      BY DEF PugJobs, SeatJob, Harmless
    <3> QED
      BY <2>8, <3>1, <3>2, RowTypes DEF SetCaptain
  <2>9. CASE NominateMap(p)
    <3>1. PICK i \in PugIds, x \in PugPlayers :
             is_open(i) /\ Request(p, [pc |-> "pug nominate", pug |-> i, player |-> x])
      BY <2>9 DEF NominateMap
    <3> DEFINE r == [pc |-> "pug nominate", pug |-> i, player |-> x]
    <3>2. r \in PugJobs /\ Harmless(r)
      BY DEF PugJobs, SeatJob, Harmless
    <3> QED
      BY <2>9, <3>1, <3>2, RowTypes DEF NominateMap
  <2>10. CASE LockPug(p)
    <3>1. PICK i \in PugIds, actor \in PugPlayers, force \in BOOLEAN :
             is_open(i) /\ Request(p, [pc |-> "pug lock", pug |-> i, actor |-> actor, force |-> force])
      BY <2>10 DEF LockPug
    <3> DEFINE r == [pc |-> "pug lock", pug |-> i, actor |-> actor, force |-> force]
    <3>2. r \in PugJobs /\ Harmless(r)
      BY DEF PugJobs, LockJob, Harmless
    <3> QED
      BY <2>10, <3>1, <3>2, RowTypes DEF LockPug
  <2> QED
    BY <2>1, <2>2, <2>3, <2>4, <2>5, <2>6, <2>7, <2>8, <2>9, <2>10
<1> QED
  BY <1>1, HarmlessFits, ArrivalInv

\* The first step of a teardown: a lobby with a match takes its veto down first.
LEMMA TeardownFits ==
    ASSUME PugInv, NEW i \in PugIds, pugs[i].status # "none",
           NEW r, r = Teardown(i, "cancelled")
    PROVE  r \in PugJobs /\ Fits(r, pugs, pugMatch) /\ SerialFits(r, pugs, pugMatch) /\ \A j : ~Locking(r, j)
<1>1. CASE pugs[i].attached
  <2> DEFINE v == [pc |-> "pug cancel veto", pug |-> i, then |-> "cancelled"]
  <2>1. Built(pugMatch[i])
    BY <1>1, RowTypes DEF RowFits
  <2>2. v \in PugJobs /\ \A j : ~Locking(v, j)
    BY DEF PugJobs, CancelJob, LockPcs, Locking
  <2>3. Fits(v, pugs, pugMatch) /\ SerialFits(v, pugs, pugMatch)
    BY <2>1 DEF Fits, SerialFits, LockPcs, NeedsMatch
  <2>4. r = v
    BY <1>1 DEF Teardown
  <2> HIDE DEF v
  <2> QED
    BY <2>2, <2>3, <2>4
<1>2. CASE ~pugs[i].attached
  <2> DEFINE v == [pc |-> "pug cancelled", pug |-> i, then |-> "cancelled"]
  <2>2. v \in PugJobs /\ \A j : ~Locking(v, j)
    BY DEF PugJobs, CancelJob, LockPcs, Locking
  <2>3. Fits(v, pugs, pugMatch) /\ SerialFits(v, pugs, pugMatch)
    BY <1>2 DEF Fits, SerialFits, LockPcs, NeedsMatch
  <2>4. r = v
    BY <1>2 DEF Teardown
  <2> HIDE DEF v
  <2> QED
    BY <2>2, <2>3, <2>4
<1> QED
  BY <1>1, <1>2

\* The creator calls a lobby off.
LEMMA CancelPugInv == ASSUME PugInv, NEW p \in Tasks, CancelPug(p) PROVE PugInv'
<1>1. PICK i \in PugIds : pugs[i] # NoPug /\ Request(p, Teardown(i, "cancelled"))
  BY DEF CancelPug
<1>2. pugs[i].status # "none" /\ UNCHANGED pugTables
  BY <1>1, RowTypes DEF CancelPug
<1> QED
  BY <1>1, <1>2, TeardownFits, ArrivalInv

\* A finished lobby is opened again with the roster it has.
LEMMA RematchPugInv == ASSUME PugInv, NEW p \in Tasks, RematchPug(p) PROVE PugInv'
<1>1. PICK i \in PugIds :
         PugOver(pugs[i].status) /\ Request(p, [pc |-> "pug create", then |-> i, players |-> pugRoster[i]])
  BY DEF RematchPug
<1> DEFINE r == [pc |-> "pug create", then |-> i, players |-> pugRoster[i]]
<1>2. pugRoster[i] \in CreatorRosters
  BY <1>1, RowTypes DEF PugOver
<1>3. r \in PugJobs /\ Harmless(r) /\ r.pc = "pug create"
  BY <1>2 DEF PugJobs, RematchJob, Harmless
<1>4. UNCHANGED pugTables /\ Request(p, r)
  BY <1>1 DEF RematchPug
<1> HIDE DEF r
<1> QED
  BY <1>3, <1>4, HarmlessFits, ArrivalInv

\* The sweeper finds a lobby that was never locked, one whose match is over, or
\* one that is stuck.
LEMMA SweepPugsInv ==
    ASSUME PugInv, NEW p \in Tasks, NEW i \in PugIds, SweepPugs(p, i)
    PROVE  PugInv'
<1>1. CASE ExpireGathering(p, i)
  <2> DEFINE r == [pc |-> "pug expire", pug |-> i]
  <2>1. r \in PugJobs /\ Harmless(r) /\ r.pug = i
    BY DEF PugJobs, RowJob, Harmless
  <2>2. Wake(p, r) /\ UNCHANGED pugTables /\ is_open(i)
    BY <1>1 DEF ExpireGathering
  <2> HIDE DEF r
  <2> QED
    BY <2>1, <2>2, RowTypes, HarmlessFits, ArrivalInv
<1>2. CASE ReconcileWithMatch(p, i)
  <2>1. /\ pugs[i].attached /\ pugs[i].status # "none" /\ MatchOver(i) /\ UNCHANGED pugTables
        /\ Wake(p, IF pugMatch[i].match = "cancelled" THEN Teardown(i, "cancelled")
                   ELSE IF pugMatch[i].winner = 0 THEN [pc |-> "pug cancelled", pug |-> i, then |-> "swept"]
                   ELSE [pc |-> "pug end hook", pug |-> i, winner |-> pugMatch[i].winner, then |-> "swept"])
    BY <1>2 DEF ReconcileWithMatch, desynced
  <2>2. CASE pugMatch[i].match = "cancelled"
    <3>1. Wake(p, Teardown(i, "cancelled"))
      BY <2>1, <2>2
    <3> QED
      BY <2>1, <3>1, TeardownFits, ArrivalInv
  <2>3. Built(pugMatch[i]) /\ Over(pugMatch[i]) /\ pugMatch[i].winner \in 0 .. 2
    BY <2>1, RowTypes DEF RowFits, MatchOver, Over, PugContainer
  <2>4. CASE pugMatch[i].match # "cancelled" /\ pugMatch[i].winner = 0
    <3> DEFINE r == [pc |-> "pug cancelled", pug |-> i, then |-> "swept"]
    <3>1. r \in PugJobs /\ (\A j : ~Locking(r, j))
      BY DEF PugJobs, CancelJob, Locking, LockPcs
    <3>2. Fits(r, pugs, pugMatch) /\ SerialFits(r, pugs, pugMatch)
      BY <2>1, <2>3 DEF Fits, SerialFits, LockPcs, NeedsMatch
    <3>3. Wake(p, r)
      BY <2>1, <2>4
    <3> QED
      BY <2>1, <3>1, <3>2, <3>3, ArrivalInv
  <2>5. CASE pugMatch[i].match # "cancelled" /\ pugMatch[i].winner # 0
    <3> DEFINE r == [pc |-> "pug end hook", pug |-> i, winner |-> pugMatch[i].winner, then |-> "swept"]
    <3>1. r \in PugJobs /\ (\A j : ~Locking(r, j))
      BY <2>3 DEF PugJobs, EndJob, Locking, LockPcs
    <3>2. Fits(r, pugs, pugMatch) /\ SerialFits(r, pugs, pugMatch)
      BY <2>1, <2>3 DEF Fits, SerialFits, LockPcs, NeedsMatch
    <3>3. Wake(p, r)
      BY <2>1, <2>5
    <3> QED
      BY <2>1, <3>1, <3>2, <3>3, ArrivalInv
  <2> QED
    BY <2>2, <2>4, <2>5
<1>3. CASE CancelStalled(p, i)
  <2>1. Wake(p, Teardown(i, "cancelled")) /\ UNCHANGED pugTables /\ pugs[i].status # "none"
    BY <1>3 DEF CancelStalled
  <2> QED
    BY <2>1, TeardownFits, ArrivalInv
<1> QED
  BY <1>1, <1>2, <1>3 DEF SweepPugs

-----------------------------------------------------------------------------
(* Steps that write seats                                                   *)

\* Moving somebody keeps who is there.
LEMMA MovedKeeps ==
    ASSUME NEW f \in PugRosters, NEW x, NEW t \in 0 .. 2
    PROVE  Moved(f, x, t) \in PugRosters /\ DOMAIN Moved(f, x, t) = DOMAIN f
<1>1. PICK S \in SUBSET PugPlayers : f \in [S -> 0 .. 2]
  BY DEF PugRosters
<1>2. Moved(f, x, t) \in [S -> 0 .. 2]
  BY <1>1 DEF Moved
<1> QED
  BY <1>1, <1>2 DEF PugRosters

\* Somebody new sits on the bench.
LEMMA SeatedKeeps ==
    ASSUME NEW f \in PugRosters, NEW x \in PugPlayers
    PROVE  Seated(f, x) \in PugRosters /\ DOMAIN Seated(f, x) = DOMAIN f \cup {x}
<1>1. PICK S \in SUBSET PugPlayers : f \in [S -> 0 .. 2]
  BY DEF PugRosters
<1>2. Seated(f, x) \in [S \cup {x} -> 0 .. 2]
  BY <1>1 DEF Seated
<1> QED
  BY <1>1, <1>2 DEF PugRosters

\* The writes of a request that ends with them: a seat taken, given up or
\* changed, a captain, a nomination.
LEMMA SeatWritesInv ==
    ASSUME PugInv, NEW p \in Tasks,
           \/ AddPlayer(p) \/ RemovePlayer(p) \/ MovePlayer(p) \/ AssignTeams(p)
           \/ SwapWrite(p) \/ SetPlayerCaptain(p) \/ UpsertWheelEntry(p)
    PROVE  PugInv'
<1>0. req[p] \in PugJobs
  BY DEF PugInv, TypeInv
<1>1. /\ UNCHANGED <<pugs, pugMatch>> /\ Finish(p)
      /\ req[p].pc \in {"pug join", "pug leave", "pug move", "pug deal", "pug swap", "pug captain",
                        "pug nominate"}
  BY DEF AddPlayer, RemovePlayer, MovePlayer, AssignTeams, SwapWrite, SetPlayerCaptain, UpsertWheelEntry, At
<1>2. /\ Turned(p, NoRequest) /\ req[p].pc # "pug cancel veto"
      /\ req[p].pug \in PugIds
  BY <1>0, <1>1, Turning, IdleFits, JobHasPug DEF PugInv
<1> DEFINE i == req[p].pug
<1>3. /\ pugRoster \in [PugIds -> PugRosters]
      /\ pugCaptains \in [PugIds -> SUBSET PugPlayers] /\ pugEntries \in [PugIds -> SUBSET PugPlayers]
      /\ \A j \in PugIds : pugCaptains[j] \subseteq DOMAIN pugRoster[j]
  BY DEF PugInv, TypeInv, SeatsInv
<1>4. pugRoster[i] \in PugRosters /\ DOMAIN pugRoster[i] \subseteq PugPlayers
  BY <1>2, RowTypes
<1>5. SUFFICES
         /\ pugRoster' \in [PugIds -> PugRosters]
         /\ pugCaptains' \in [PugIds -> SUBSET PugPlayers]
         /\ pugEntries' \in [PugIds -> SUBSET PugPlayers]
         /\ \A j \in PugIds : pugCaptains'[j] \subseteq DOMAIN pugRoster'[j]
         /\ \A j \in PugIds : PugCreator \in DOMAIN pugRoster[j] => PugCreator \in DOMAIN pugRoster'[j]
  <2>1. \A j : ~Locking(NoRequest, j)
    BY IdleFits DEF Locking, LockPcs
  <2> QED
    BY <1>1, <1>2, <1>5, <2>1, IdleFits, SeatStep
<1>6. CASE AddPlayer(p)
  <2>1. /\ UNCHANGED <<pugCaptains, pugEntries>> /\ add_player(i, req[p].player) /\ req[p].player \in PugPlayers
    BY <1>0, <1>6, KindOfJob DEF AddPlayer, At, SeatJob
  <2>2. pugRoster' = pugRoster \/ pugRoster' = [pugRoster EXCEPT ![i] = Seated(pugRoster[i], req[p].player)]
    BY <2>1, <1>2, <1>3 DEF add_player
  <2> DEFINE new == Seated(pugRoster[i], req[p].player)
  <2>3. new \in PugRosters /\ DOMAIN new = DOMAIN pugRoster[i] \cup {req[p].player}
    BY <1>4, <2>1, SeatedKeeps
  <2> HIDE DEF new
  <2>4. pugRoster' = pugRoster \/ pugRoster' = [pugRoster EXCEPT ![i] = new]
    BY <2>2 DEF new
  <2> QED
    BY <1>2, <1>3, <2>1, <2>3, <2>4
<1>7. CASE RemovePlayer(p)
  <2>1. remove_player(i, req[p].player) /\ req[p].player # PugCreator
    BY <1>0, <1>7, KindOfJob DEF RemovePlayer, At, LeaveJob
  <2> DEFINE x == req[p].player
  <2> DEFINE new == Restrict(pugRoster[i], DOMAIN pugRoster[i] \ {x})
  <2>2. new \in PugRosters /\ DOMAIN new = DOMAIN pugRoster[i] \ {x}
    <3>1. PICK S \in SUBSET PugPlayers : pugRoster[i] \in [S -> 0 .. 2]
      BY <1>4 DEF PugRosters
    <3>2. new \in [S \ {x} -> 0 .. 2]
      BY <3>1 DEF Restrict
    <3> QED
      BY <3>1, <3>2 DEF PugRosters
  <2>3. /\ pugRoster' = [pugRoster EXCEPT ![i] = new]
        /\ pugCaptains' = [pugCaptains EXCEPT ![i] = @ \ {x}]
        /\ pugEntries' = [pugEntries EXCEPT ![i] = @ \ {x}]
    BY <2>1, <1>2, <1>3 DEF remove_player
  <2> HIDE DEF new, x
  <2> QED
    BY <1>2, <1>3, <2>1, <2>2, <2>3 DEF x
<1>8. CASE MovePlayer(p)
  <2>1. /\ UNCHANGED <<pugCaptains, pugEntries>> /\ req[p].team \in 0 .. 2
        /\ set_player_team(i, req[p].player, req[p].team)
    BY <1>0, <1>8, KindOfJob DEF MovePlayer, At, MoveJob
  <2> DEFINE new == Moved(pugRoster[i], req[p].player, req[p].team)
  <2>2. new \in PugRosters /\ DOMAIN new = DOMAIN pugRoster[i]
    BY <1>4, <2>1, MovedKeeps
  <2>3. pugRoster' = [pugRoster EXCEPT ![i] = new]
    BY <2>1, <1>2, <1>3 DEF set_player_team
  <2> HIDE DEF new
  <2> QED
    BY <1>2, <1>3, <2>1, <2>2, <2>3
<1>9. CASE AssignTeams(p)
  <2>1. /\ UNCHANGED <<pugCaptains, pugEntries>> /\ req[p].deal \in PugRosters
        /\ assign_teams(i, req[p].deal)
    BY <1>0, <1>9, KindOfJob DEF AssignTeams, At, DealJob
  <2> DEFINE deal == req[p].deal
  <2> DEFINE new == [x \in DOMAIN pugRoster[i] |-> IF x \in DOMAIN deal THEN deal[x] ELSE pugRoster[i][x]]
  <2>2. new \in PugRosters /\ DOMAIN new = DOMAIN pugRoster[i]
    <3>1. PICK S \in SUBSET PugPlayers : pugRoster[i] \in [S -> 0 .. 2]
      BY <1>4 DEF PugRosters
    <3>2. PICK D \in SUBSET PugPlayers : deal \in [D -> 0 .. 2]
      BY <2>1 DEF PugRosters
    <3>3. new \in [S -> 0 .. 2]
      BY <3>1, <3>2
    <3> QED
      BY <3>1, <3>3 DEF PugRosters
  <2>3. pugRoster' = [pugRoster EXCEPT ![i] = new]
    BY <2>1, <1>2, <1>3 DEF assign_teams
  <2> HIDE DEF new
  <2> QED
    BY <1>2, <1>3, <2>1, <2>2, <2>3
<1>10. CASE SwapWrite(p)
  <2>1. UNCHANGED <<pugCaptains, pugEntries>> /\ SwappedTeams(i)
    BY <1>10 DEF SwapWrite
  <2> DEFINE new == [x \in DOMAIN pugRoster[i] |-> IF pugRoster[i][x] = 0 THEN 0 ELSE 3 - pugRoster[i][x]]
  <2>2. new \in PugRosters /\ DOMAIN new = DOMAIN pugRoster[i]
    <3>1. PICK S \in SUBSET PugPlayers : pugRoster[i] \in [S -> 0 .. 2]
      BY <1>4 DEF PugRosters
    <3>2. new \in [S -> 0 .. 2]
      BY <3>1
    <3> QED
      BY <3>1, <3>2 DEF PugRosters
  <2>3. pugRoster' = [pugRoster EXCEPT ![i] = new]
    BY <2>1, <1>2, <1>3 DEF SwappedTeams
  <2> HIDE DEF new
  <2> QED
    BY <1>2, <1>3, <2>1, <2>2, <2>3
<1>11. CASE SetPlayerCaptain(p)
  <2>1. UNCHANGED <<pugRoster, pugEntries>> /\ req[p].player \in PugPlayers
    BY <1>0, <1>11, KindOfJob DEF SetPlayerCaptain, At, SeatJob
  <2>2. PICK others \in {pugCaptains[i] \ {req[p].player},
                         pugCaptains[i] \cup ({req[p].player} \cap DOMAIN pugRoster[i])} :
           pugCaptains' = [pugCaptains EXCEPT ![i] = others]
    BY <1>11 DEF SetPlayerCaptain
  <2>3. others \subseteq DOMAIN pugRoster[i] /\ others \subseteq PugPlayers
    BY <1>2, <1>3, <1>4, <2>2
  <2> QED
    BY <1>2, <1>3, <2>1, <2>2, <2>3
<1>12. CASE UpsertWheelEntry(p)
  <2>1. UNCHANGED <<pugRoster, pugCaptains>> /\ req[p].player \in PugPlayers
        /\ pugEntries' = [pugEntries EXCEPT ![i] = @ \cup {req[p].player}]
    BY <1>0, <1>12, KindOfJob DEF UpsertWheelEntry, At, SeatJob
  <2> QED
    BY <1>2, <1>3, <2>1
<1> QED
  BY <1>6, <1>7, <1>8, <1>9, <1>10, <1>11, <1>12
-----------------------------------------------------------------------------
(* Steps that write a lobby's row or its container                          *)

\* What a task leaves behind in a serial scenario when it was not sweeping the
\* lobby: a lobby that was called off has no match and no veto going on.
LEMMA CalmLobby ==
    ASSUME PugInv, scenario.serial, NEW p \in Tasks, NEW r, Turned(p, r), NEW i \in PugIds,
           ~Sweeping(req[p], i), pugs[i].status = "cancelled", pugs[i].attached
    PROVE  Over(pugMatch[i]) /\ (crashes' = 0 => pugMatch[i].veto # "active")
<1>1. Alone /\ TornDown(i)
  BY DEF PugInv, SerialInv
<1>2. \A q \in Tasks : q # p => req[q] = NoRequest
  BY <1>1 DEF Alone, Turned, Quiescent
<1>3. \A q \in Tasks : ~Sweeping(req[q], i)
  BY <1>2, IdleFits DEF Sweeping
<1> QED
  BY <1>1, <1>3 DEF TornDown, Turned

\* A step that writes the row of a lobby, its container, or both.
LEMMA PugRowStep ==
    ASSUME PugInv, NEW p \in Tasks, NEW r \in PugJobs, Turned(p, r),
           UNCHANGED <<pugRoster, pugCaptains, pugEntries>>,
           NEW i \in PugIds, NEW row \in PugRow, NEW box \in PugContainer,
           pugs' = [pugs EXCEPT ![i] = row], pugMatch' = [pugMatch EXCEPT ![i] = box],
           RowFits(row, box),
           pugs[i].status # "none" /\ row.status # "none",
           Built(pugMatch[i]) => Built(box),
           \A q \in Tasks : q # p /\ Locking(req[q], i) => row.status # "gathering" /\ ~row.attached,
           Fits(r, pugs', pugMatch'),
           \A j : Locking(r, j) => Locking(req[p], j) \/ \A q \in Tasks : ~Locking(req[q], j),
           scenario.serial => SerialFits(r, pugs', pugMatch'),
           \A j \in PugIds : j # i => ~Sweeping(req[p], j),
           scenario.serial /\ row.status = "cancelled" /\ row.attached => Over(box),
           scenario.serial /\ row.status = "cancelled" /\ row.attached /\ crashes' = 0 /\ box.veto = "active"
               => Sweeping(r, i)
    PROVE  PugInv'
<1>1. TypeInv'
  BY DEF PugInv, TypeInv, Turned
<1>2. SeatsInv'
  BY DEF PugInv, SeatsInv, TypeInv
<1>3. TypeInv /\ LockInv /\ SerialInv
  BY DEF PugInv
<1>4. LockInv'
  BY <1>3, LobbyStep
<1>5. SerialInv'
  BY <1>3, SerialStep
<1> QED
  BY <1>1, <1>2, <1>4, <1>5 DEF PugInv

\* What a task at a step that names a lobby knows of it.
LEMMA AtLobby ==
    ASSUME PugInv, NEW p \in Tasks, req[p].pc \notin {"idle", "pug create"}
    PROVE  LET i == req[p].pug IN
           /\ req[p] \in PugJobs /\ req[p] # NoRequest
           /\ i \in PugIds /\ pugs[i] \in PugRow /\ pugMatch[i] \in PugContainer
           /\ RowFits(pugs[i], pugMatch[i])
           /\ pugs[i].status # "none" /\ pugs[i] # NoPug
           /\ Fits(req[p], pugs, pugMatch)
           /\ \A q \in Tasks : Locking(req[q], i) => pugs[i].status # "gathering" /\ ~pugs[i].attached
           /\ Locking(req[p], i) => \A q \in Tasks : q # p => ~Locking(req[q], i)
           /\ scenario.serial => SerialFits(req[p], pugs, pugMatch)
           /\ pugs = [pugs EXCEPT ![i] = pugs[i]] /\ pugMatch = [pugMatch EXCEPT ![i] = pugMatch[i]]
           /\ \A j \in PugIds : j # i => ~Sweeping(req[p], j)
<1>1. req[p] \in PugJobs /\ req[p] # NoRequest
  BY IdleFits DEF PugInv, TypeInv
<1>2. req[p].pug \in PugIds
  BY <1>1, JobHasPug
<1>3. Fits(req[p], pugs, pugMatch) /\ pugs[req[p].pug].status # "none" /\ pugs[req[p].pug] # NoPug
  <2>1. Fits(req[p], pugs, pugMatch)
    BY DEF PugInv, LockInv
  <2>2. pugs[req[p].pug].status # "none"
    BY <2>1 DEF Fits
  <2>3. NoPug.status = "none"
    BY DEF NoPug
  <2> QED
    BY <2>1, <2>2, <2>3
<1>4. \A q \in Tasks : Locking(req[q], req[p].pug)
         => pugs[req[p].pug].status # "gathering" /\ ~pugs[req[p].pug].attached
  BY DEF PugInv, LockInv, Fits, Locking
<1>5. Locking(req[p], req[p].pug) => \A q \in Tasks : q # p => ~Locking(req[q], req[p].pug)
  BY <1>2 DEF PugInv, LockInv, OneLocker
<1>6. scenario.serial => SerialFits(req[p], pugs, pugMatch)
  BY DEF PugInv, SerialInv
<1>7. /\ pugs = [pugs EXCEPT ![req[p].pug] = pugs[req[p].pug]]
      /\ pugMatch = [pugMatch EXCEPT ![req[p].pug] = pugMatch[req[p].pug]]
  BY <1>2 DEF PugInv, TypeInv
<1>8. \A j \in PugIds : j # req[p].pug => ~Sweeping(req[p], j)
  BY DEF Sweeping
<1> QED
  BY <1>1, <1>2, <1>3, <1>4, <1>5, <1>6, <1>7, <1>8, RowTypes

\* The lock is won by one caller.
LEMMA LockCasInv == ASSUME PugInv, NEW p \in Tasks, LockCas(p) PROVE PugInv'
<1> DEFINE i == req[p].pug
<1>1. req[p].pc = "pug lock"
  BY DEF LockCas, At
<1>2. /\ req[p] \in PugJobs /\ req[p] # NoRequest
      /\ i \in PugIds /\ pugs[i] \in PugRow /\ pugMatch[i] \in PugContainer
      /\ RowFits(pugs[i], pugMatch[i]) /\ pugs[i].status # "none"
      /\ pugs = [pugs EXCEPT ![i] = pugs[i]] /\ pugMatch = [pugMatch EXCEPT ![i] = pugMatch[i]]
      /\ \A q \in Tasks : Locking(req[q], i) => pugs[i].status # "gathering" /\ ~pugs[i].attached
  BY <1>1, AtLobby
<1>3. UNCHANGED <<pugRoster, pugCaptains, pugEntries, pugMatch>>
  BY DEF LockCas
<1>4. CASE is_open(i)
  <2> DEFINE r == [req[p] EXCEPT !.pc = "pug freeze"]
  <2> DEFINE row == [pugs[i] EXCEPT !.status = "map_selection"]
  <2> DEFINE box == pugMatch[i]
  <2>1. pugs' = [pugs EXCEPT ![i] = row] /\ Continue(p, r)
    BY <1>4, <1>2 DEF LockCas, TransitionPug, is_open, PugInv, TypeInv
  <2>2. req[p] \in LockJob
    BY <1>1, <1>2, KindOfJob
  <2>3. r \in PugJobs /\ r.pc = "pug freeze" /\ r.pug = i
    BY <2>2 DEF LockJob, PugJobs
  <2>4. Turned(p, r)
    BY <1>2, <2>1, Turning DEF PugInv
  <2>5. row \in PugRow /\ row.status = "map_selection" /\ row.attached = pugs[i].attached
    BY <1>2 DEF PugRow, PugStatus
  <2>6. ~pugs[i].attached /\ pugs[i].status = "gathering"
    BY <1>2, <1>4 DEF RowFits, is_open
  <2>7. pugMatch' = [pugMatch EXCEPT ![i] = box]
    BY <1>2, <1>3
  <2>8. RowFits(row, box)
    BY <1>2, <2>5, <2>6 DEF RowFits
  <2>9. pugs'[i] = row
    BY <1>2, <2>1 DEF PugInv, TypeInv
  <2>10. Fits(r, pugs', pugMatch') /\ SerialFits(r, pugs', pugMatch')
    BY <2>3, <2>5, <2>6, <2>9 DEF Fits, SerialFits, LockPcs, NeedsMatch
  <2>11. \A j : Locking(r, j) => Locking(req[p], j) \/ \A q \in Tasks : ~Locking(req[q], j)
    BY <1>2, <2>3, <2>6 DEF Locking
  <2>12. \A j \in PugIds : ~Sweeping(req[p], j)
    BY <1>1 DEF Sweeping
  <2>13. \A q \in Tasks : q # p /\ Locking(req[q], i) => row.status # "gathering" /\ ~row.attached
    BY <2>5, <2>6
  <2>14. box \in PugContainer /\ (Built(pugMatch[i]) => Built(box))
    BY <1>2
  <2> HIDE DEF r, row, box, i
  <2> QED
    BY <1>2, <1>3, <2>1, <2>3, <2>4, <2>5, <2>7, <2>8, <2>10, <2>11, <2>12, <2>13, <2>14, PugRowStep
<1>5. CASE ~is_open(i)
  <2>1. Finish(p) /\ UNCHANGED pugTables
    BY <1>3, <1>5 DEF LockCas, TransitionPug, is_open, pugTables
  <2>2. Turned(p, NoRequest) /\ \A j : ~Locking(NoRequest, j)
    BY <1>2, <2>1, Turning, IdleFits DEF PugInv, Locking, LockPcs
  <2>3. NoRequest \in PugJobs /\ Fits(NoRequest, pugs, pugMatch) /\ SerialFits(NoRequest, pugs, pugMatch)
    BY IdleFits
  <2> QED
    BY <1>1, <2>1, <2>2, <2>3, PlainStep
<1> QED
  BY <1>4, <1>5
\* What the next step of a request asks of the row and the container it works on.
FitsRow(r, row, box) ==
    /\ r.pc \in LockPcs => row.status # "gathering" /\ ~row.attached
    /\ NeedsMatch(r) => Built(box)
    /\ r.pc \in {"pug container", "pug match"} => SoundTeams(r.teams)

SerialFitsRow(r, row, box) ==
    /\ r.pc \in LockPcs => row.status = "map_selection"
    /\ /\ r.pc \in {"pug cancel server", "pug cancel match", "pug cancelled"}
       /\ r.then # "swept"
       /\ row.attached
       => box.veto # "active"
    /\ r.pc = "pug cancelled" /\ row.attached => Over(box)

\* The next step of a request that works on a lobby, seen from that lobby: either
\* a lobby that was called off is left as calm as it was, or this step makes it so.
LEMMA LobbyWrite ==
    ASSUME PugInv, NEW p \in Tasks, req[p].pc \notin {"idle", "pug create"},
           NEW i, i = req[p].pug,
           NEW r \in PugJobs, Turned(p, r), r = NoRequest \/ r.pug = i,
           UNCHANGED <<pugRoster, pugCaptains, pugEntries>>,
           NEW row \in PugRow, NEW box \in PugContainer,
           pugs' = [pugs EXCEPT ![i] = row], pugMatch' = [pugMatch EXCEPT ![i] = box],
           RowFits(row, box), row.status # "none",
           Built(pugMatch[i]) => Built(box),
           \A q \in Tasks : q # p /\ Locking(req[q], i) => row.status # "gathering" /\ ~row.attached,
           FitsRow(r, row, box),
           Locking(r, i) => Locking(req[p], i),
           scenario.serial /\ SerialFitsRow(req[p], pugs[i], pugMatch[i]) => SerialFitsRow(r, row, box),
           scenario.serial /\ row.status = "cancelled" /\ row.attached =>
               \/ /\ pugs[i].status = "cancelled" /\ pugs[i].attached /\ ~Sweeping(req[p], i)
                  /\ Over(pugMatch[i]) => Over(box)
                  /\ box.veto = "active" => pugMatch[i].veto = "active"
               \/ /\ Over(box)
                  /\ box.veto = "active" => Sweeping(r, i)
    PROVE  PugInv'
<1>1. /\ req[p] # NoRequest /\ i \in PugIds /\ pugs[i].status # "none"
      /\ scenario.serial => SerialFits(req[p], pugs, pugMatch)
      /\ \A j \in PugIds : j # i => ~Sweeping(req[p], j)
  BY AtLobby
<1>2. pugs'[i] = row /\ pugMatch'[i] = box
  BY <1>1 DEF PugInv, TypeInv
<1>3. Fits(r, pugs', pugMatch')
  BY <1>2, IdleFits DEF Fits, FitsRow
<1>4. scenario.serial => SerialFits(r, pugs', pugMatch')
  <2> SUFFICES ASSUME scenario.serial PROVE SerialFits(r, pugs', pugMatch')
    OBVIOUS
  <2>1. CASE r = NoRequest
    BY <2>1, IdleFits
  <2>2. CASE r.pug = i
    <3>1. SerialFitsRow(req[p], pugs[i], pugMatch[i])
      BY <1>1 DEF SerialFits, SerialFitsRow
    <3>2. SerialFitsRow(r, row, box)
      BY <3>1
    <3> QED
      BY <1>2, <2>2, <3>2 DEF SerialFits, SerialFitsRow
  <2> QED
    BY <2>1, <2>2
<1>5. \A j : Locking(r, j) => Locking(req[p], j) \/ \A q \in Tasks : ~Locking(req[q], j)
  BY IdleFits DEF Locking, LockPcs
<1>6. scenario.serial /\ row.status = "cancelled" /\ row.attached => Over(box)
  BY <1>1, CalmLobby
<1>7. scenario.serial /\ row.status = "cancelled" /\ row.attached /\ crashes' = 0 /\ box.veto = "active"
         => Sweeping(r, i)
  BY <1>1, CalmLobby
<1> QED
  BY <1>1, <1>3, <1>4, <1>5, <1>6, <1>7, PugRowStep
\* A request that ends asks nothing.
LEMMA Released ==
    ASSUME NEW row, NEW box
    PROVE  /\ NoRequest \in PugJobs /\ FitsRow(NoRequest, row, box) /\ SerialFitsRow(NoRequest, row, box)
           /\ \A j : ~Locking(NoRequest, j) /\ ~Sweeping(NoRequest, j)
  BY IdleFits DEF FitsRow, SerialFitsRow, Locking, LockPcs, NeedsMatch, Sweeping

\* The last step of a request, seen from the lobby it works on.
LEMMA LobbyEnds ==
    ASSUME PugInv, NEW p \in Tasks, req[p].pc \notin {"idle", "pug create"},
           NEW i, i = req[p].pug,
           Turned(p, NoRequest),
           UNCHANGED <<pugRoster, pugCaptains, pugEntries>>,
           NEW row \in PugRow, NEW box \in PugContainer,
           pugs' = [pugs EXCEPT ![i] = row], pugMatch' = [pugMatch EXCEPT ![i] = box],
           RowFits(row, box), row.status # "none",
           Built(pugMatch[i]) => Built(box),
           \A q \in Tasks : q # p /\ Locking(req[q], i) => row.status # "gathering" /\ ~row.attached,
           scenario.serial /\ row.status = "cancelled" /\ row.attached =>
               \/ /\ pugs[i].status = "cancelled" /\ pugs[i].attached /\ ~Sweeping(req[p], i)
                  /\ Over(pugMatch[i]) => Over(box)
                  /\ box.veto = "active" => pugMatch[i].veto = "active"
               \/ Over(box) /\ box.veto # "active"
    PROVE  PugInv'
<1> DEFINE r == NoRequest
<1>1. /\ r \in PugJobs /\ FitsRow(r, row, box) /\ SerialFitsRow(r, row, box)
      /\ ~Locking(r, i) /\ r = NoRequest
  BY Released
<1>2. Turned(p, r)
  OBVIOUS
<1> HIDE DEF r
<1>3. scenario.serial /\ SerialFitsRow(req[p], pugs[i], pugMatch[i]) => SerialFitsRow(r, row, box)
  BY <1>1
<1>4. Locking(r, i) => Locking(req[p], i)
  BY <1>1
<1>5. r = NoRequest \/ r.pug = i
  BY <1>1
<1>6. scenario.serial /\ row.status = "cancelled" /\ row.attached =>
         \/ /\ pugs[i].status = "cancelled" /\ pugs[i].attached /\ ~Sweeping(req[p], i)
            /\ Over(pugMatch[i]) => Over(box)
            /\ box.veto = "active" => pugMatch[i].veto = "active"
         \/ /\ Over(box)
            /\ box.veto = "active" => Sweeping(r, i)
  OBVIOUS
<1> QED
  BY <1>1, <1>2, <1>3, <1>4, <1>5, <1>6, LobbyWrite

\* A request that ends without writing.
LEMMA EndsQuietly ==
    ASSUME PugInv, NEW p \in Tasks, req[p] # NoRequest, Finish(p), UNCHANGED pugTables,
           req[p].pc # "pug cancel veto"
    PROVE  PugInv'
<1>1. Turned(p, NoRequest)
  BY Turning DEF PugInv
<1>2. \A j : ~Locking(NoRequest, j)
  BY Released
<1>3. NoRequest \in PugJobs /\ Fits(NoRequest, pugs, pugMatch) /\ SerialFits(NoRequest, pugs, pugMatch)
  BY IdleFits
<1> QED
  BY <1>1, <1>2, <1>3, PlainStep

\* The roster is frozen with two teams that have a player each, or the lock is
\* rolled back.
LEMMA FreezeRosterInv == ASSUME PugInv, NEW p \in Tasks, FreezeRoster(p) PROVE PugInv'
<1> DEFINE i == req[p].pug
<1>1. req[p].pc = "pug freeze" /\ UNCHANGED pugTables
  BY DEF FreezeRoster, At
<1>2. /\ req[p] # NoRequest /\ i \in PugIds /\ pugs[i].status # "none"
      /\ Fits(req[p], pugs, pugMatch)
      /\ scenario.serial => SerialFits(req[p], pugs, pugMatch)
  BY <1>1, AtLobby
<1>3. /\ pugs[i].status # "gathering" /\ ~pugs[i].attached
      /\ scenario.serial => pugs[i].status = "map_selection"
      /\ Locking(req[p], i)
  BY <1>1, <1>2 DEF Fits, SerialFits, LockPcs, Locking
<1>4. CASE FailLock(p)
  <2> DEFINE r == [pc |-> "pug rollback", pug |-> i]
  <2>1. Continue(p, r)
    BY <1>4 DEF FailLock
  <2>2. r \in PugJobs /\ r.pc = "pug rollback" /\ r.pug = i
    BY <1>2 DEF PugJobs, RowJob
  <2> HIDE DEF r
  <2>3. Fits(r, pugs, pugMatch) /\ (scenario.serial => SerialFits(r, pugs, pugMatch))
    BY <1>2, <1>3, <2>2 DEF Fits, SerialFits, LockPcs, NeedsMatch
  <2>4. \A j : Locking(r, j) => Locking(req[p], j)
    BY <1>3, <2>2 DEF Locking
  <2>5. Turned(p, r)
    BY <1>2, <2>1, Turning DEF PugInv
  <2> QED
    BY <1>1, <2>2, <2>3, <2>4, <2>5, PlainStep
<1>5. CASE ~FailLock(p)
  <2> DEFINE teams == <<Team(i, 1), Team(i, 2)>>
  <2> DEFINE r == [pc |-> "pug container", pug |-> i, teams |-> teams]
  <2>1. Continue(p, r) /\ Team(i, 1) # {} /\ Team(i, 2) # {}
    BY <1>5 DEF FreezeRoster, prepare_lock
  <2>2. /\ Team(i, 1) \in AdhocTeam /\ Team(i, 2) \in AdhocTeam
        /\ Team(i, 1) \cap Team(i, 2) = {}
    BY <1>2, RowTypes DEF Team, AdhocTeam
  <2>3. teams \in AdhocTeam \X AdhocTeam /\ SoundTeams(teams)
    BY <2>1, <2>2 DEF SoundTeams
  <2> HIDE DEF teams
  <2>4. r \in PugJobs /\ r.pc = "pug container" /\ r.pug = i /\ r.teams = teams
    BY <1>2, <2>3 DEF PugJobs, BuildJob
  <2> HIDE DEF r
  <2>5. Fits(r, pugs, pugMatch) /\ (scenario.serial => SerialFits(r, pugs, pugMatch))
    BY <1>2, <1>3, <2>3, <2>4 DEF Fits, SerialFits, LockPcs, NeedsMatch
  <2>6. \A j : Locking(r, j) => Locking(req[p], j)
    BY <1>3, <2>4 DEF Locking
  <2>7. Turned(p, r)
    BY <1>2, <2>1, Turning DEF PugInv
  <2> QED
    BY <1>1, <2>4, <2>5, <2>6, <2>7, PlainStep
<1> QED
  BY <1>4, <1>5

\* Anything that fails while the match is built rolls the lock back.
LEMMA FailLockInv ==
    ASSUME PugInv, NEW p \in Tasks, FailLock(p), UNCHANGED pugTables,
           req[p].pc \in {"pug container", "pug match", "pug veto", "pug pick_ban"}
    PROVE  PugInv'
<1> DEFINE i == req[p].pug
<1>1. /\ req[p] # NoRequest /\ i \in PugIds /\ pugs[i].status # "none"
      /\ Fits(req[p], pugs, pugMatch)
      /\ scenario.serial => SerialFits(req[p], pugs, pugMatch)
  BY AtLobby
<1> DEFINE r == [pc |-> "pug rollback", pug |-> i]
<1>2. Continue(p, r)
  BY DEF FailLock
<1>3. r \in PugJobs /\ r.pc = "pug rollback" /\ r.pug = i
  BY <1>1 DEF PugJobs, RowJob
<1> HIDE DEF r
<1>4. Fits(r, pugs, pugMatch) /\ (scenario.serial => SerialFits(r, pugs, pugMatch))
  BY <1>1, <1>3 DEF Fits, SerialFits, LockPcs, NeedsMatch
<1>5. \A j : Locking(r, j) => Locking(req[p], j)
  BY <1>3 DEF Locking, LockPcs
<1>6. Turned(p, r)
  BY <1>1, <1>2, Turning DEF PugInv
<1>7. req[p].pc # "pug cancel veto"
  OBVIOUS
<1> QED
  BY <1>3, <1>4, <1>5, <1>6, <1>7, PlainStep

\* The match is built one write after the other by whoever holds the lock.
LEMMA BuildInv ==
    ASSUME PugInv, NEW p \in Tasks,
           CreateContainer(p) \/ CreateMatch(p) \/ StartPugVeto(p) \/ MatchToPickBan(p)
    PROVE  PugInv'
<1> DEFINE i == req[p].pug
<1> DEFINE row == pugs[i]
<1>1. /\ req[p].pc \in {"pug container", "pug match", "pug veto", "pug pick_ban"}
      /\ UNCHANGED <<pugs, pugRoster, pugCaptains, pugEntries>>
  BY DEF CreateContainer, CreateMatch, StartPugVeto, MatchToPickBan, At
<1>2. /\ req[p] \in PugJobs /\ req[p] # NoRequest
      /\ i \in PugIds /\ pugs[i] \in PugRow /\ pugMatch[i] \in PugContainer
      /\ RowFits(pugs[i], pugMatch[i]) /\ pugs[i].status # "none"
      /\ Fits(req[p], pugs, pugMatch)
      /\ pugs = [pugs EXCEPT ![i] = row]
  BY <1>1, AtLobby
<1>3. Locking(req[p], i) /\ row.status # "gathering" /\ ~row.attached
  BY <1>1, <1>2 DEF Fits, LockPcs, Locking
<1>4. /\ NeedsMatch(req[p]) => Built(pugMatch[i])
      /\ req[p].pc \in {"pug container", "pug match"} => req[p] \in BuildJob /\ SoundTeams(req[p].teams)
      /\ req[p].pc \in {"pug veto", "pug pick_ban"} => req[p] \in RowJob
  BY <1>2, KindOfJob DEF Fits
<1>5. ASSUME NEW r \in PugJobs, r.pc \in {"pug match", "pug veto", "pug pick_ban", "pug attach"},
             r.pug = i, Continue(p, r),
             r.pc = "pug match" => SoundTeams(r.teams),
             r.pc \in {"pug veto", "pug pick_ban", "pug attach"} => Built(pugMatch[i]) \/ req[p].pc = "pug match",
             NEW box \in PugContainer, pugMatch' = [pugMatch EXCEPT ![i] = box],
             r.pc = "pug match" \/ Built(box),
             Built(pugMatch[i]) \/ Built(box) => Built(box) /\ SoundTeams(box.teams),
             box.veto # "none" => Built(box)
      PROVE  PugInv'
  <2>1. Turned(p, r)
    BY <1>2, <1>5, Turning DEF PugInv
  <2>2. RowFits(row, box)
    BY <1>2, <1>3, <1>5 DEF RowFits
  <2>3. FitsRow(r, row, box)
    BY <1>3, <1>5 DEF FitsRow, NeedsMatch
  <2>4. SerialFitsRow(req[p], pugs[i], pugMatch[i]) => SerialFitsRow(r, row, box)
    BY <1>1, <1>5 DEF SerialFitsRow, LockPcs
  <2>5. pugs' = [pugs EXCEPT ![i] = row]
    BY <1>1, <1>2
  <2>6. row \in PugRow /\ row.status # "none" /\ (Built(pugMatch[i]) => Built(box))
    BY <1>2, <1>5
  <2>7. req[p].pc \notin {"idle", "pug create"}
    BY <1>1
  <2>8. row.status # "gathering" /\ ~row.attached
    BY <1>3
  <2>9. Locking(req[p], i)
    BY <1>3
  <2> HIDE DEF row
  <2> QED
    BY <1>1, <1>5, <2>1, <2>2, <2>3, <2>4, <2>5, <2>6, <2>7, <2>8, <2>9, LobbyWrite
<1>6. CASE CreateContainer(p)
  <2>1. CASE pugMatch[i].match = "none"
    <3> DEFINE box == [pugMatch[i] EXCEPT !.match = "tournament"]
    <3> DEFINE r == [req[p] EXCEPT !.pc = "pug match"]
    <3>1. pugMatch' = [pugMatch EXCEPT ![i] = box] /\ Continue(p, r) /\ req[p].pc = "pug container"
      BY <1>2, <1>6, <2>1 DEF CreateContainer, At, PugInv, TypeInv
    <3>2. r \in PugJobs /\ r.pc = "pug match" /\ r.pug = i /\ SoundTeams(r.teams)
      BY <1>4, <3>1 DEF BuildJob, PugJobs
    <3>3. /\ box \in PugContainer /\ ~Built(box) /\ box.veto = "none"
          /\ ~Built(pugMatch[i]) /\ ~Over(pugMatch[i])
      BY <1>2, <2>1 DEF PugContainer, Built, Over, RowFits
    <3> HIDE DEF r, box
    <3> QED
      BY <1>5, <3>1, <3>2, <3>3
  <2>2. CASE pugMatch[i].match # "none"
    <3>1. FailLock(p) /\ UNCHANGED pugTables
      BY <1>1, <1>6, <2>2 DEF CreateContainer, pugTables
    <3> QED
      BY <1>1, <3>1, FailLockInv
  <2> QED
    BY <2>1, <2>2
<1>7. CASE CreateMatch(p)
  <2>1. CASE FailLock(p) /\ UNCHANGED pugMatch
    BY <1>1, <2>1, FailLockInv DEF pugTables
  <2>2. CASE ~(FailLock(p) /\ UNCHANGED pugMatch)
    <3> DEFINE box == [pugMatch[i] EXCEPT !.match = "scheduled", !.teams = req[p].teams]
    <3> DEFINE r == [pc |-> "pug veto", pug |-> i]
    <3>1. pugMatch' = [pugMatch EXCEPT ![i] = box] /\ Continue(p, r) /\ req[p].pc = "pug match"
      BY <1>2, <1>7, <2>2 DEF CreateMatch, At, PugInv, TypeInv
    <3>2. r \in PugJobs /\ r.pc = "pug veto" /\ r.pug = i
      BY <1>2 DEF PugJobs, RowJob
    <3>3. req[p].teams \in AdhocTeam \X AdhocTeam /\ SoundTeams(req[p].teams)
      BY <1>4, <3>1 DEF BuildJob
    <3>4. box \in PugContainer /\ box.match = "scheduled" /\ box.teams = req[p].teams
      BY <1>2, <3>3 DEF PugContainer
    <3>5. Built(box) /\ SoundTeams(box.teams)
      BY <3>3, <3>4 DEF Built
    <3> HIDE DEF r, box
    <3> QED
      BY <1>5, <3>1, <3>2, <3>4, <3>5
  <2> QED
    BY <2>1, <2>2
<1>8. CASE StartPugVeto(p)
  <2>1. CASE FailLock(p) /\ UNCHANGED pugMatch
    BY <1>1, <2>1, FailLockInv DEF pugTables
  <2>2. CASE ~(FailLock(p) /\ UNCHANGED pugMatch)
    <3> DEFINE box == [pugMatch[i] EXCEPT !.veto = "active"]
    <3> DEFINE r == [req[p] EXCEPT !.pc = "pug pick_ban"]
    <3>1. pugMatch' = [pugMatch EXCEPT ![i] = box] /\ Continue(p, r) /\ req[p].pc = "pug veto"
      BY <1>2, <1>8, <2>2 DEF StartPugVeto, At, PugInv, TypeInv
    <3>2. r \in PugJobs /\ r.pc = "pug pick_ban" /\ r.pug = i
      BY <1>4, <3>1 DEF PugJobs, RowJob
    <3>3. Built(pugMatch[i]) /\ SoundTeams(pugMatch[i].teams)
      BY <1>2, <1>4, <3>1 DEF NeedsMatch, RowFits
    <3>4. /\ box \in PugContainer /\ box.match = pugMatch[i].match /\ box.teams = pugMatch[i].teams
      BY <1>2 DEF PugContainer
    <3>5. Built(box) /\ SoundTeams(box.teams)
      BY <3>3, <3>4 DEF Built
    <3> HIDE DEF r, box
    <3> QED
      BY <1>5, <3>1, <3>2, <3>3, <3>4, <3>5
  <2> QED
    BY <2>1, <2>2
<1>9. CASE MatchToPickBan(p)
  <2>1. CASE FailLock(p) /\ UNCHANGED pugMatch
    BY <1>1, <2>1, FailLockInv DEF pugTables
  <2>2. CASE ~(FailLock(p) /\ UNCHANGED pugMatch)
    <3> DEFINE box == [pugMatch[i] EXCEPT !.match = "pick_ban"]
    <3> DEFINE r == [req[p] EXCEPT !.pc = "pug attach"]
    <3>1. pugMatch' = [pugMatch EXCEPT ![i] = box] /\ Continue(p, r) /\ req[p].pc = "pug pick_ban"
      BY <1>2, <1>9, <2>2 DEF MatchToPickBan, At, PugInv, TypeInv
    <3>2. r \in PugJobs /\ r.pc = "pug attach" /\ r.pug = i
      BY <1>4, <3>1 DEF PugJobs, RowJob
    <3>3. Built(pugMatch[i]) /\ SoundTeams(pugMatch[i].teams)
      BY <1>2, <1>4, <3>1 DEF NeedsMatch, RowFits
    <3>4. /\ box \in PugContainer /\ box.match = "pick_ban" /\ box.teams = pugMatch[i].teams
      BY <1>2 DEF PugContainer
    <3>5. Built(box) /\ SoundTeams(box.teams)
      BY <3>3, <3>4 DEF Built
    <3> HIDE DEF r, box
    <3> QED
      BY <1>5, <3>1, <3>2, <3>3, <3>4, <3>5
  <2> QED
    BY <2>1, <2>2
<1> QED
  BY <1>6, <1>7, <1>8, <1>9
\* The match is attached to the lobby that is still locked, or torn down again.
LEMMA SetMaterializedInv == ASSUME PugInv, NEW p \in Tasks, SetMaterialized(p) PROVE PugInv'
<1> DEFINE i == req[p].pug
<1>1. req[p].pc = "pug attach" /\ UNCHANGED <<pugRoster, pugCaptains, pugEntries, pugMatch>>
  BY DEF SetMaterialized, At
<1>2. /\ req[p] \in PugJobs /\ req[p] # NoRequest
      /\ i \in PugIds /\ pugs[i] \in PugRow /\ pugMatch[i] \in PugContainer
      /\ RowFits(pugs[i], pugMatch[i]) /\ pugs[i].status # "none"
      /\ Fits(req[p], pugs, pugMatch)
      /\ pugMatch = [pugMatch EXCEPT ![i] = pugMatch[i]]
      /\ Locking(req[p], i) => \A q \in Tasks : q # p => ~Locking(req[q], i)
  BY <1>1, AtLobby
<1>3. Built(pugMatch[i]) /\ Locking(req[p], i)
  BY <1>1, <1>2 DEF Fits, NeedsMatch, Locking, LockPcs
<1>4. CASE pugs[i].status = "map_selection" /\ ~pugs[i].attached
  <2> DEFINE row == [pugs[i] EXCEPT !.attached = TRUE]
  <2> DEFINE box == pugMatch[i]
  <2>1. pugs' = [pugs EXCEPT ![i] = row] /\ Finish(p)
    BY <1>2, <1>4 DEF SetMaterialized, PugInv, TypeInv
  <2>2. Turned(p, NoRequest)
    BY <1>2, <2>1, Turning DEF PugInv
  <2>3. row \in PugRow /\ row.status = "map_selection"
    BY <1>2, <1>4 DEF PugRow
  <2>4. RowFits(row, box)
    BY <1>2, <1>3, <2>3 DEF RowFits
  <2>5. pugMatch' = [pugMatch EXCEPT ![i] = box] /\ box \in PugContainer
    BY <1>1, <1>2
  <2>6. \A q \in Tasks : q # p => ~Locking(req[q], i)
    BY <1>2, <1>3
  <2> HIDE DEF row
  <2> QED
    BY <1>1, <2>1, <2>2, <2>3, <2>4, <2>5, <2>6, LobbyEnds
<1>5. CASE ~(pugs[i].status = "map_selection" /\ ~pugs[i].attached)
  <2> DEFINE r == [pc |-> "pug cancel veto", pug |-> i, then |-> "orphan"]
  <2>1. Continue(p, r) /\ UNCHANGED pugTables
    BY <1>1, <1>5 DEF SetMaterialized, pugTables
  <2>2. r \in PugJobs /\ \A j : ~Locking(r, j)
    BY <1>2 DEF PugJobs, CancelJob, Locking, LockPcs
  <2>3. Fits(r, pugs, pugMatch) /\ SerialFits(r, pugs, pugMatch)
    BY <1>2, <1>3 DEF Fits, SerialFits, NeedsMatch, LockPcs
  <2> HIDE DEF r
  <2>4. Turned(p, r)
    BY <1>2, <2>1, Turning DEF PugInv
  <2> QED
    BY <1>1, <2>1, <2>2, <2>3, <2>4, PlainStep
<1> QED
  BY <1>4, <1>5

\* A lock that failed gives the lobby back to the players.
LEMMA RollbackLockInv == ASSUME PugInv, NEW p \in Tasks, RollbackLock(p) PROVE PugInv'
<1> DEFINE i == req[p].pug
<1>1. req[p].pc = "pug rollback" /\ UNCHANGED <<pugRoster, pugCaptains, pugEntries, pugMatch>> /\ Finish(p)
  BY DEF RollbackLock, At
<1>2. /\ req[p] # NoRequest
      /\ i \in PugIds /\ pugs[i] \in PugRow /\ pugMatch[i] \in PugContainer
      /\ RowFits(pugs[i], pugMatch[i]) /\ pugs[i].status # "none"
      /\ Fits(req[p], pugs, pugMatch)
      /\ pugMatch = [pugMatch EXCEPT ![i] = pugMatch[i]]
      /\ Locking(req[p], i) => \A q \in Tasks : q # p => ~Locking(req[q], i)
  BY <1>1, AtLobby
<1>3. ~pugs[i].attached /\ Locking(req[p], i)
  BY <1>1, <1>2 DEF Fits, Locking, LockPcs
<1>4. CASE pugs[i].status = "map_selection"
  <2> DEFINE row == [pugs[i] EXCEPT !.status = "gathering"]
  <2> DEFINE box == pugMatch[i]
  <2>1. pugs' = [pugs EXCEPT ![i] = row]
    BY <1>2, <1>4 DEF RollbackLock, TransitionPug, PugInv, TypeInv
  <2>2. Turned(p, NoRequest)
    BY <1>1, <1>2, Turning DEF PugInv
  <2>3. row \in PugRow /\ row.status = "gathering" /\ ~row.attached
    BY <1>2, <1>3 DEF PugRow, PugStatus
  <2>4. RowFits(row, box)
    BY <1>2, <2>3 DEF RowFits
  <2>5. pugMatch' = [pugMatch EXCEPT ![i] = box] /\ box \in PugContainer
    BY <1>1, <1>2
  <2>6. \A q \in Tasks : q # p => ~Locking(req[q], i)
    BY <1>2, <1>3
  <2> HIDE DEF row
  <2> QED
    BY <1>1, <2>1, <2>2, <2>3, <2>4, <2>5, <2>6, LobbyEnds
<1>5. CASE pugs[i].status # "map_selection"
  <2>1. UNCHANGED pugTables
    BY <1>1, <1>5 DEF RollbackLock, TransitionPug, pugTables
  <2> QED
    BY <1>1, <1>2, <2>1, EndsQuietly
<1> QED
  BY <1>4, <1>5

\* The veto of a lobby that is called off is cancelled first ...
LEMMA CancelVetoInv == ASSUME PugInv, NEW p \in Tasks, CancelVeto(p) PROVE PugInv'
<1> DEFINE i == req[p].pug
<1> DEFINE row == pugs[i]
<1> DEFINE box == IF pugMatch[i].veto = "active" THEN [pugMatch[i] EXCEPT !.veto = "cancelled"] ELSE pugMatch[i]
<1>1. req[p].pc = "pug cancel veto" /\ UNCHANGED <<pugs, pugRoster, pugCaptains, pugEntries>>
  BY DEF CancelVeto, At
<1>2. /\ req[p] \in PugJobs /\ req[p] # NoRequest
      /\ i \in PugIds /\ pugs[i] \in PugRow /\ pugMatch[i] \in PugContainer
      /\ RowFits(pugs[i], pugMatch[i]) /\ pugs[i].status # "none"
      /\ Fits(req[p], pugs, pugMatch)
      /\ pugs = [pugs EXCEPT ![i] = pugs[i]] /\ pugMatch = [pugMatch EXCEPT ![i] = pugMatch[i]]
      /\ \A q \in Tasks : Locking(req[q], i) => pugs[i].status # "gathering" /\ ~pugs[i].attached
  BY <1>1, AtLobby
<1>3. req[p] \in CancelJob /\ Built(pugMatch[i])
  BY <1>1, <1>2, KindOfJob DEF Fits, NeedsMatch
<1>4. /\ pugMatch' = [pugMatch EXCEPT ![i] = box] /\ pugs' = [pugs EXCEPT ![i] = row]
  BY <1>1, <1>2 DEF CancelVeto, PugInv, TypeInv
<1>5. /\ box \in PugContainer /\ box.veto # "active"
      /\ box.match = pugMatch[i].match /\ box.teams = pugMatch[i].teams
  BY <1>2 DEF PugContainer
<1>6. /\ RowFits(row, box) /\ Built(box) /\ (Over(pugMatch[i]) => Over(box))
  BY <1>2, <1>3, <1>5 DEF RowFits, Built, Over
<1>7. scenario.serial /\ row.status = "cancelled" /\ row.attached => Over(box)
  <2> SUFFICES ASSUME scenario.serial, row.status = "cancelled", row.attached PROVE Over(box)
    OBVIOUS
  <2>1. TornDown(i)
    BY <1>2 DEF PugInv, SerialInv
  <2> QED
    BY <1>6, <2>1 DEF TornDown
<1>8. row \in PugRow /\ row.status # "none"
  BY <1>2
<1> HIDE DEF box
<1>9. CASE req[p].then = "swept"
  <2>1. Finish(p)
    BY <1>9 DEF CancelVeto
  <2>2. Turned(p, NoRequest)
    BY <1>2, <2>1, Turning DEF PugInv
  <2> QED
    BY <1>1, <1>2, <1>4, <1>5, <1>6, <1>7, <1>8, <2>2, LobbyEnds
<1>10. CASE req[p].then # "swept"
  <2> DEFINE r == [req[p] EXCEPT !.pc = IF req[p].then = "orphan" THEN "pug cancel match" ELSE "pug cancel server"]
  <2>1. Continue(p, r)
    BY <1>10 DEF CancelVeto
  <2>2. /\ r \in PugJobs /\ r.pc \in {"pug cancel match", "pug cancel server"} /\ r.pug = i
    BY <1>3 DEF CancelJob, PugJobs
  <2> HIDE DEF r
  <2>3. Turned(p, r)
    BY <1>2, <2>1, Turning DEF PugInv
  <2>4. ~Locking(r, i) /\ FitsRow(r, row, box) /\ SerialFitsRow(r, row, box)
    BY <1>5, <1>6, <2>2 DEF Locking, LockPcs, FitsRow, SerialFitsRow, NeedsMatch
  <2>5. scenario.serial /\ SerialFitsRow(req[p], pugs[i], pugMatch[i]) => SerialFitsRow(r, row, box)
    BY <2>4
  <2>6. Locking(r, i) => Locking(req[p], i)
    BY <2>4
  <2>7. scenario.serial /\ row.status = "cancelled" /\ row.attached
           => Over(box) /\ (box.veto = "active" => Sweeping(r, i))
    BY <1>5, <1>7
  <2>8. Built(pugMatch[i]) => Built(box)
    BY <1>6
  <2>9. req[p].pc \notin {"idle", "pug create"}
    BY <1>1
  <2>10. \A q \in Tasks : q # p /\ Locking(req[q], i) => row.status # "gathering" /\ ~row.attached
    BY <1>2
  <2> QED
    BY <1>1, <1>4, <1>5, <1>6, <1>8, <2>2, <2>3, <2>4, <2>5, <2>6, <2>7, <2>8, <2>9, <2>10, LobbyWrite
<1> QED
  BY <1>9, <1>10

\* ... then its server is given back ...
LEMMA CancelServerInv == ASSUME PugInv, NEW p \in Tasks, CancelServer(p) PROVE PugInv'
<1> DEFINE i == req[p].pug
<1> DEFINE row == pugs[i]
<1> DEFINE box == [pugMatch[i] EXCEPT !.server = FALSE]
<1> DEFINE r == [req[p] EXCEPT !.pc = "pug cancel match"]
<1>1. /\ req[p].pc = "pug cancel server" /\ UNCHANGED <<pugs, pugRoster, pugCaptains, pugEntries>>
      /\ Continue(p, r)
  BY DEF CancelServer, At
<1>2. /\ req[p] \in PugJobs /\ req[p] # NoRequest
      /\ i \in PugIds /\ pugs[i] \in PugRow /\ pugMatch[i] \in PugContainer
      /\ RowFits(pugs[i], pugMatch[i]) /\ pugs[i].status # "none"
      /\ Fits(req[p], pugs, pugMatch)
      /\ pugs = [pugs EXCEPT ![i] = pugs[i]]
      /\ \A q \in Tasks : Locking(req[q], i) => pugs[i].status # "gathering" /\ ~pugs[i].attached
  BY <1>1, AtLobby
<1>3. req[p] \in CancelJob /\ Built(pugMatch[i])
  BY <1>1, <1>2, KindOfJob DEF Fits, NeedsMatch
<1>4. /\ pugMatch' = [pugMatch EXCEPT ![i] = box] /\ pugs' = [pugs EXCEPT ![i] = row]
  BY <1>1, <1>2 DEF CancelServer, PugInv, TypeInv
<1>5. /\ box \in PugContainer /\ box.veto = pugMatch[i].veto
      /\ box.match = pugMatch[i].match /\ box.teams = pugMatch[i].teams
  BY <1>2 DEF PugContainer
<1>6. /\ RowFits(row, box) /\ Built(box) /\ (Over(pugMatch[i]) => Over(box))
  BY <1>2, <1>3, <1>5 DEF RowFits, Built, Over
<1>7. row \in PugRow /\ row.status # "none" /\ ~Sweeping(req[p], i)
  BY <1>1, <1>2 DEF Sweeping
<1>8. /\ r \in PugJobs /\ r.pc = "pug cancel match" /\ r.pug = i /\ r.then = req[p].then
  BY <1>3 DEF CancelJob, PugJobs
<1> HIDE DEF box, r
<1>9. Turned(p, r)
  BY <1>1, <1>2, Turning DEF PugInv
<1>10. ~Locking(r, i) /\ FitsRow(r, row, box)
  BY <1>6, <1>8 DEF Locking, LockPcs, FitsRow, NeedsMatch
<1>11. SerialFitsRow(req[p], row, pugMatch[i]) => SerialFitsRow(r, row, box)
  BY <1>1, <1>5, <1>8 DEF SerialFitsRow, LockPcs
<1> QED
  BY <1>1, <1>2, <1>4, <1>5, <1>6, <1>7, <1>8, <1>9, <1>10, <1>11, LobbyWrite

\* ... then its match is cancelled, unless it is over ...
LEMMA CancelMatchInv == ASSUME PugInv, NEW p \in Tasks, CancelMatch(p) PROVE PugInv'
<1> DEFINE i == req[p].pug
<1> DEFINE row == pugs[i]
<1> DEFINE box == IF MatchOver(i) THEN pugMatch[i] ELSE [pugMatch[i] EXCEPT !.match = "cancelled"]
<1>1. req[p].pc = "pug cancel match" /\ UNCHANGED <<pugs, pugRoster, pugCaptains, pugEntries>>
  BY DEF CancelMatch, At
<1>2. /\ req[p] \in PugJobs /\ req[p] # NoRequest
      /\ i \in PugIds /\ pugs[i] \in PugRow /\ pugMatch[i] \in PugContainer
      /\ RowFits(pugs[i], pugMatch[i]) /\ pugs[i].status # "none"
      /\ Fits(req[p], pugs, pugMatch)
      /\ pugs = [pugs EXCEPT ![i] = pugs[i]] /\ pugMatch = [pugMatch EXCEPT ![i] = pugMatch[i]]
      /\ \A q \in Tasks : Locking(req[q], i) => pugs[i].status # "gathering" /\ ~pugs[i].attached
  BY <1>1, AtLobby
<1>3. req[p] \in CancelJob /\ Built(pugMatch[i])
  BY <1>1, <1>2, KindOfJob DEF Fits, NeedsMatch
<1>4. /\ pugMatch' = [pugMatch EXCEPT ![i] = box] /\ pugs' = [pugs EXCEPT ![i] = row]
  BY <1>1, <1>2 DEF CancelMatch, PugInv, TypeInv
<1>5. /\ box \in PugContainer /\ box.veto = pugMatch[i].veto /\ box.teams = pugMatch[i].teams
      /\ box.match \in {"completed", "cancelled"}
  BY <1>2 DEF PugContainer, MatchOver
<1>6. /\ RowFits(row, box) /\ Built(box) /\ Over(box)
  BY <1>2, <1>3, <1>5 DEF RowFits, Built, Over
<1>7. row \in PugRow /\ row.status # "none" /\ ~Sweeping(req[p], i)
  BY <1>1, <1>2 DEF Sweeping
<1> HIDE DEF box
<1>8. CASE req[p].then = "orphan"
  <2>1. Finish(p)
    BY <1>8 DEF CancelMatch
  <2>2. Turned(p, NoRequest)
    BY <1>2, <2>1, Turning DEF PugInv
  <2> QED
    BY <1>1, <1>2, <1>4, <1>5, <1>6, <1>7, <2>2, LobbyEnds
<1>9. CASE req[p].then # "orphan"
  <2> DEFINE r == [req[p] EXCEPT !.pc = "pug cancelled"]
  <2>1. Continue(p, r)
    BY <1>9 DEF CancelMatch
  <2>2. /\ r \in PugJobs /\ r.pc = "pug cancelled" /\ r.pug = i /\ r.then = req[p].then
    BY <1>3 DEF CancelJob, PugJobs
  <2> HIDE DEF r
  <2>3. Turned(p, r)
    BY <1>2, <2>1, Turning DEF PugInv
  <2>4. ~Locking(r, i) /\ FitsRow(r, row, box)
    BY <1>6, <2>2 DEF Locking, LockPcs, FitsRow, NeedsMatch
  <2>5. SerialFitsRow(req[p], row, pugMatch[i]) => SerialFitsRow(r, row, box)
    BY <1>1, <1>5, <1>6, <2>2 DEF SerialFitsRow, LockPcs
  <2> QED
    BY <1>1, <1>2, <1>4, <1>5, <1>6, <1>7, <2>2, <2>3, <2>4, <2>5, LobbyWrite
<1> QED
  BY <1>8, <1>9

\* ... and the lobby is called off; after a sweep its veto comes last.
LEMMA SetCancelledInv == ASSUME PugInv, NEW p \in Tasks, SetCancelled(p) PROVE PugInv'
<1> DEFINE i == req[p].pug
<1> DEFINE row == [pugs[i] EXCEPT !.status = "cancelled"]
<1> DEFINE box == pugMatch[i]
<1>1. req[p].pc = "pug cancelled" /\ UNCHANGED <<pugRoster, pugCaptains, pugEntries, pugMatch>>
  BY DEF SetCancelled, At
<1>2. /\ req[p] \in PugJobs /\ req[p] # NoRequest
      /\ i \in PugIds /\ pugs[i] \in PugRow /\ pugMatch[i] \in PugContainer
      /\ RowFits(pugs[i], pugMatch[i]) /\ pugs[i].status # "none"
      /\ Fits(req[p], pugs, pugMatch)
      /\ scenario.serial => SerialFits(req[p], pugs, pugMatch)
      /\ pugMatch = [pugMatch EXCEPT ![i] = pugMatch[i]]
      /\ \A q \in Tasks : Locking(req[q], i) => pugs[i].status # "gathering" /\ ~pugs[i].attached
  BY <1>1, AtLobby
<1>3. req[p] \in CancelJob /\ (req[p].then = "swept" => Built(pugMatch[i]))
  BY <1>1, <1>2, KindOfJob DEF Fits, NeedsMatch
<1>4. /\ pugMatch' = [pugMatch EXCEPT ![i] = box] /\ pugs' = [pugs EXCEPT ![i] = row]
  BY <1>1, <1>2 DEF SetCancelled, SetPugStatus, PugInv, TypeInv
<1>5. row \in PugRow /\ row.status = "cancelled" /\ row.attached = pugs[i].attached
  BY <1>2 DEF PugRow, PugStatus
<1>6. RowFits(row, box)
  BY <1>2, <1>5 DEF RowFits
<1>7. scenario.serial /\ row.attached => Over(box) /\ (req[p].then # "swept" => box.veto # "active")
  BY <1>1, <1>2, <1>5 DEF SerialFits
<1>8. box \in PugContainer
  BY <1>2
<1>9. \A q \in Tasks : Locking(req[q], i) => row.status # "gathering" /\ ~row.attached
  BY <1>2, <1>5
<1> HIDE DEF row
<1>10. CASE req[p].then # "swept"
  <2>1. Finish(p)
    BY <1>10 DEF SetCancelled
  <2>2. Turned(p, NoRequest)
    BY <1>2, <2>1, Turning DEF PugInv
  <2> QED
    BY <1>1, <1>4, <1>5, <1>6, <1>7, <1>8, <1>9, <1>10, <2>2, LobbyEnds
<1>11. CASE req[p].then = "swept"
  <2> DEFINE r == [req[p] EXCEPT !.pc = "pug cancel veto"]
  <2>1. Continue(p, r)
    BY <1>11 DEF SetCancelled
  <2>2. /\ r \in PugJobs /\ r.pc = "pug cancel veto" /\ r.pug = i /\ r.then = "swept"
    BY <1>3, <1>11 DEF CancelJob, PugJobs
  <2> HIDE DEF r
  <2>3. Turned(p, r)
    BY <1>2, <2>1, Turning DEF PugInv
  <2>4. /\ ~Locking(r, i) /\ FitsRow(r, row, box) /\ SerialFitsRow(r, row, box) /\ Sweeping(r, i)
    BY <1>3, <1>11, <2>2 DEF Locking, LockPcs, FitsRow, SerialFitsRow, NeedsMatch, Sweeping
  <2>5. scenario.serial /\ SerialFitsRow(req[p], pugs[i], pugMatch[i]) => SerialFitsRow(r, row, box)
    BY <2>4
  <2>6. Locking(r, i) => Locking(req[p], i)
    BY <2>4
  <2>7. scenario.serial /\ row.status = "cancelled" /\ row.attached
           => Over(box) /\ (box.veto = "active" => Sweeping(r, i))
    BY <1>7, <2>4
  <2>8. Built(pugMatch[i]) => Built(box)
    OBVIOUS
  <2>9. req[p].pc \notin {"idle", "pug create"}
    BY <1>1
  <2>10. \A q \in Tasks : q # p /\ Locking(req[q], i) => row.status # "gathering" /\ ~row.attached
    BY <1>9
  <2>11. row.status # "none"
    BY <1>5
  <2> HIDE DEF box
  <2> QED
    BY <1>1, <1>4, <1>5, <1>6, <1>8, <2>2, <2>3, <2>4, <2>5, <2>6, <2>7, <2>8, <2>9, <2>10, <2>11, LobbyWrite
<1> QED
  BY <1>10, <1>11
-----------------------------------------------------------------------------
(* The match of the lobby, and the hooks                                    *)

\* The match moves on and a hook is called: the lobby is one that was locked.
LEMMA MatchMoves ==
    ASSUME PugInv, NEW p \in Tasks, req[p] = NoRequest,
           NEW i \in PugIds, NEW r \in PugJobs, Turned(p, r), r.pug = i,
           r.pc \in {"pug veto hook", "pug live hook", "pug end hook"}, ~NeedsMatch(r),
           UNCHANGED <<pugs, pugRoster, pugCaptains, pugEntries>>,
           NEW box \in PugContainer, pugMatch' = [pugMatch EXCEPT ![i] = box],
           Built(pugMatch[i]), Built(box), box.teams = pugMatch[i].teams,
           ~Over(pugMatch[i])
    PROVE  PugInv'
<1> DEFINE row == pugs[i]
<1>1. /\ row \in PugRow /\ RowFits(row, pugMatch[i]) /\ row.status # "none"
      /\ pugs' = [pugs EXCEPT ![i] = row] /\ pugs'[i] = row /\ pugMatch'[i] = box
  BY RowTypes DEF RowFits, PugInv, TypeInv
<1>2. RowFits(row, box)
  BY <1>1 DEF RowFits
<1>3. \A q \in Tasks : Locking(req[q], i) => row.status # "gathering" /\ ~row.attached
  BY DEF PugInv, LockInv, Fits, Locking
<1>4. Fits(r, pugs', pugMatch') /\ SerialFits(r, pugs', pugMatch') /\ \A j : ~Locking(r, j)
  BY <1>1 DEF Fits, SerialFits, LockPcs, Locking
<1>5. \A j \in PugIds : ~Sweeping(req[p], j)
  BY Released
<1>6. scenario.serial => ~(row.status = "cancelled" /\ row.attached)
  BY <1>5, CalmLobby
<1> HIDE DEF row
<1>7. pugs[i].status # "none"
  BY <1>1 DEF row
<1>8. \A j : Locking(r, j) => Locking(req[p], j) \/ \A q \in Tasks : ~Locking(req[q], j)
  BY <1>4
<1> QED
  BY <1>1, <1>2, <1>3, <1>4, <1>5, <1>6, <1>7, <1>8, PugRowStep

\* The veto ends, the match starts, the series ends.
LEMMA MatchStepInv == ASSUME PugInv, NEW p \in Tasks, PugMatchStep(p) PROVE PugInv'
<1>1. UNCHANGED <<pugs, pugRoster, pugCaptains, pugEntries>>
  BY DEF PugMatchStep, VetoFinishes, MatchGoesLive, SeriesEnds
<1>2. CASE VetoFinishes(p)
  <2>1. PICK i \in PugIds :
           /\ pugMatch[i].veto = "active" /\ pugMatch[i].match = "pick_ban"
           /\ pugMatch' = [pugMatch EXCEPT ![i].veto = "completed"]
           /\ Elsewhere(p, [pc |-> "pug veto hook", pug |-> i])
    BY <1>2 DEF VetoFinishes
  <2> DEFINE box == [pugMatch[i] EXCEPT !.veto = "completed"]
  <2> DEFINE r == [pc |-> "pug veto hook", pug |-> i]
  <2>2. r \in PugJobs /\ r.pug = i /\ r.pc = "pug veto hook" /\ ~NeedsMatch(r)
    BY DEF PugJobs, RowJob, NeedsMatch
  <2>3. /\ box \in PugContainer /\ box.match = "pick_ban" /\ box.teams = pugMatch[i].teams
        /\ pugMatch' = [pugMatch EXCEPT ![i] = box]
    BY <2>1, RowTypes DEF PugContainer, PugInv, TypeInv
  <2>4. Built(pugMatch[i]) /\ Built(box) /\ ~Over(pugMatch[i])
    BY <2>1, <2>3 DEF Built, Over
  <2>5. Elsewhere(p, r)
    BY <2>1
  <2> HIDE DEF r, box
  <2>6. Turned(p, r) /\ req[p] = NoRequest
    BY <2>5, Turning DEF PugInv
  <2> QED
    BY <1>1, <2>2, <2>3, <2>4, <2>6, MatchMoves
<1>3. CASE MatchGoesLive(p)
  <2>1. PICK i \in PugIds :
           /\ pugMatch[i].match = "pick_ban"
           /\ pugMatch' = [pugMatch EXCEPT ![i].match = "live"]
           /\ Elsewhere(p, [pc |-> "pug live hook", pug |-> i])
    BY <1>3 DEF MatchGoesLive
  <2> DEFINE box == [pugMatch[i] EXCEPT !.match = "live"]
  <2> DEFINE r == [pc |-> "pug live hook", pug |-> i]
  <2>2. r \in PugJobs /\ r.pug = i /\ r.pc = "pug live hook" /\ ~NeedsMatch(r)
    BY DEF PugJobs, RowJob, NeedsMatch
  <2>3. /\ box \in PugContainer /\ box.match = "live" /\ box.teams = pugMatch[i].teams
        /\ pugMatch' = [pugMatch EXCEPT ![i] = box]
    BY <2>1, RowTypes DEF PugContainer, PugInv, TypeInv
  <2>4. Built(pugMatch[i]) /\ Built(box) /\ ~Over(pugMatch[i])
    BY <2>1, <2>3 DEF Built, Over
  <2>5. Elsewhere(p, r)
    BY <2>1
  <2> HIDE DEF r, box
  <2>6. Turned(p, r) /\ req[p] = NoRequest
    BY <2>5, Turning DEF PugInv
  <2> QED
    BY <1>1, <2>2, <2>3, <2>4, <2>6, MatchMoves
<1>4. CASE SeriesEnds(p)
  <2>1. PICK i \in PugIds, winner \in {1, 2} :
           /\ pugMatch[i].match = "live"
           /\ pugMatch' = [pugMatch EXCEPT ![i].match = "completed", ![i].server = FALSE, ![i].winner = winner]
           /\ Elsewhere(p, [pc |-> "pug end hook", pug |-> i, winner |-> winner, then |-> "done"])
    BY <1>4 DEF SeriesEnds
  <2>0. winner \in 0 .. 2
    OBVIOUS
  <2> DEFINE box == [pugMatch[i] EXCEPT !.match = "completed", !.server = FALSE, !.winner = winner]
  <2> DEFINE r == [pc |-> "pug end hook", pug |-> i, winner |-> winner, then |-> "done"]
  <2>2. r \in PugJobs /\ r.pug = i /\ r.pc = "pug end hook" /\ ~NeedsMatch(r)
    <3>1. r \in EndJob
      BY <2>0 DEF EndJob
    <3> QED
      BY <3>1 DEF PugJobs, NeedsMatch
  <2>3. /\ box \in PugContainer /\ box.match = "completed" /\ box.teams = pugMatch[i].teams
        /\ pugMatch' = [pugMatch EXCEPT ![i] = box]
    <3>1. pugMatch[i] \in PugContainer /\ pugMatch \in [PugIds -> PugContainer]
      BY RowTypes DEF PugInv, TypeInv
    <3>2. box \in PugContainer /\ box.match = "completed" /\ box.teams = pugMatch[i].teams
      BY <2>0, <3>1 DEF PugContainer
    <3> QED
      BY <2>1, <3>1, <3>2
  <2>4. Built(pugMatch[i]) /\ Built(box) /\ ~Over(pugMatch[i])
    BY <2>1, <2>3 DEF Built, Over
  <2>5. Elsewhere(p, r)
    BY <2>1
  <2> HIDE DEF r, box
  <2>6. Turned(p, r) /\ req[p] = NoRequest
    BY <2>5, Turning DEF PugInv
  <2> QED
    BY <1>1, <2>2, <2>3, <2>4, <2>6, MatchMoves
<1> QED
  BY <1>2, <1>3, <1>4 DEF PugMatchStep

\* The match ends behind the lobby's back: nobody's request changes.
LEMMA MatchEndsInv == ASSUME PugInv, NEW i \in PugIds, MatchEndsElsewhere(i) PROVE PugInv'
<1>1. /\ UNCHANGED <<scenario, req, crashes, pugs, pugRoster, pugCaptains, pugEntries>>
      /\ pugMatch[i].match \in {"pick_ban", "live"}
      /\ scenario.serial => Quiescent
  BY DEF MatchEndsElsewhere, requestVars
<1>2. PICK status \in {"completed", "cancelled"}, winner \in 0 .. 2 :
         pugMatch' = [pugMatch EXCEPT ![i].match = status, ![i].winner = winner]
  BY DEF MatchEndsElsewhere
<1> DEFINE box == [pugMatch[i] EXCEPT !.match = status, !.winner = winner]
<1>3. /\ pugMatch[i] \in PugContainer /\ RowFits(pugs[i], pugMatch[i])
      /\ pugMatch \in [PugIds -> PugContainer]
  BY RowTypes DEF PugInv, TypeInv
<1>4. /\ box \in PugContainer /\ box.match = status /\ box.veto = pugMatch[i].veto
      /\ box.teams = pugMatch[i].teams /\ pugMatch' = [pugMatch EXCEPT ![i] = box]
  BY <1>2, <1>3 DEF PugContainer
<1>5. Built(pugMatch[i]) /\ ~Over(pugMatch[i]) /\ Built(box)
  BY <1>1, <1>4 DEF Built, Over
<1> HIDE DEF box
<1>6. RowFits(pugs[i], box)
  BY <1>3, <1>4, <1>5 DEF RowFits
<1>7. TypeInv'
  BY <1>1, <1>3, <1>4 DEF PugInv, TypeInv
<1>8. SeatsInv'
  BY <1>1 DEF PugInv, SeatsInv
<1>9. LockInv'
  <2>1. \A j \in PugIds : RowFits(pugs'[j], pugMatch'[j])
    BY <1>1, <1>3, <1>4, <1>6 DEF PugInv, LockInv
  <2>2. ASSUME NEW q \in Tasks PROVE Fits(req'[q], pugs', pugMatch')
    <3>1. req[q] \in PugJobs /\ Fits(req[q], pugs, pugMatch)
      BY DEF PugInv, TypeInv, LockInv
    <3>2. CASE req[q].pc \in {"idle", "pug create"}
      BY <1>1, <3>2 DEF Fits, LockPcs, NeedsMatch
    <3>3. CASE req[q].pc \notin {"idle", "pug create"}
      <4>1. req[q].pug \in PugIds
        BY <3>1, <3>3, JobHasPug
      <4>2. Built(pugMatch[req[q].pug]) => Built(pugMatch'[req[q].pug])
        BY <1>3, <1>4, <1>5, <4>1
      <4> QED
        BY <1>1, <3>1, <4>2 DEF Fits
    <3> QED
      BY <3>2, <3>3
  <2>3. OneLocker'
    BY <1>1 DEF PugInv, LockInv, OneLocker
  <2> QED
    BY <2>1, <2>2, <2>3 DEF LockInv
<1>10. SerialInv'
  <2> SUFFICES ASSUME scenario.serial
               PROVE  (Alone /\ (\A q \in Tasks : SerialFits(req[q], pugs, pugMatch)) /\ \A j \in PugIds : TornDown(j))'
    BY <1>1 DEF SerialInv
  <2>1. \A q \in Tasks : req'[q] = NoRequest
    BY <1>1 DEF Quiescent
  <2>2. Alone' /\ \A q \in Tasks : SerialFits(req'[q], pugs', pugMatch')
    BY <2>1, IdleFits DEF Alone
  <2>3. ASSUME NEW j \in PugIds PROVE TornDown(j)'
    <3>1. TornDown(j)
      BY DEF PugInv, SerialInv
    <3>2. CASE j = i
      BY <1>1, <1>5, <3>1, <3>2 DEF TornDown
    <3>3. CASE j # i
      <4>1. pugMatch'[j] = pugMatch[j]
        BY <1>3, <1>4, <3>3
      <4> QED
        BY <1>1, <3>1, <4>1 DEF TornDown
    <3> QED
      BY <3>2, <3>3
  <2> QED
    BY <2>2, <2>3
<1> QED
  BY <1>7, <1>8, <1>9, <1>10 DEF PugInv
\* A server is asked for when the veto is complete, and the lobby waits for it.
LEMMA OnVetoCompletedInv == ASSUME PugInv, NEW p \in Tasks, OnVetoCompleted(p) PROVE PugInv'
<1> DEFINE i == req[p].pug
<1> DEFINE row == IF pugs[i].attached /\ pugs[i].status = "map_selection"
                  THEN [pugs[i] EXCEPT !.status = "awaiting_server"] ELSE pugs[i]
<1> DEFINE box == [pugMatch[i] EXCEPT !.server = ~MatchOver(i)]
<1>1. req[p].pc = "pug veto hook" /\ UNCHANGED <<pugRoster, pugCaptains, pugEntries>> /\ Finish(p)
  BY DEF OnVetoCompleted, At
<1>2. /\ req[p] # NoRequest
      /\ i \in PugIds /\ pugs[i] \in PugRow /\ pugMatch[i] \in PugContainer
      /\ RowFits(pugs[i], pugMatch[i]) /\ pugs[i].status # "none"
      /\ pugs = [pugs EXCEPT ![i] = pugs[i]]
      /\ \A q \in Tasks : Locking(req[q], i) => pugs[i].status # "gathering" /\ ~pugs[i].attached
  BY <1>1, AtLobby
<1>3. pugs' = [pugs EXCEPT ![i] = row]
  BY <1>2 DEF OnVetoCompleted, TransitionPug, PugInv, TypeInv
<1>4. pugMatch' = [pugMatch EXCEPT ![i] = box]
  BY <1>2 DEF OnVetoCompleted, PugInv, TypeInv
<1>5. /\ row \in PugRow /\ row.status # "none" /\ row.attached = pugs[i].attached
      /\ row.status = pugs[i].status \/ row.status = "awaiting_server"
  BY <1>2 DEF PugRow, PugStatus
<1>6. MatchOver(i) \in BOOLEAN
  BY DEF MatchOver
<1>7. /\ box \in PugContainer /\ box.match = pugMatch[i].match /\ box.veto = pugMatch[i].veto
      /\ box.teams = pugMatch[i].teams
  BY <1>2, <1>6 DEF PugContainer
<1> HIDE DEF row, box
<1>8. RowFits(row, box)
  <2>1. Built(box) <=> Built(pugMatch[i])
    BY <1>7 DEF Built
  <2> QED
    BY <1>2, <1>5, <1>7, <2>1 DEF RowFits
<1>9. (Built(pugMatch[i]) => Built(box)) /\ (Over(pugMatch[i]) => Over(box))
  BY <1>7 DEF Built, Over
<1>10. Turned(p, NoRequest) /\ ~Sweeping(req[p], i)
  BY <1>1, <1>2, Turning DEF PugInv, Sweeping
<1>11. \A q \in Tasks : q # p /\ Locking(req[q], i) => row.status # "gathering" /\ ~row.attached
  BY <1>2, <1>5
<1> QED
  BY <1>1, <1>3, <1>4, <1>5, <1>7, <1>8, <1>9, <1>10, <1>11, LobbyEnds

\* The match goes live: the hook reads the lobby ...
LEMMA OnMatchLiveInv == ASSUME PugInv, NEW p \in Tasks, OnMatchLive(p) PROVE PugInv'
<1> DEFINE i == req[p].pug
<1>1. req[p].pc = "pug live hook" /\ UNCHANGED pugTables
  BY DEF OnMatchLive, At
<1>2. req[p] \in PugJobs /\ req[p] # NoRequest /\ pugs[i].status # "none"
  BY <1>1, AtLobby
<1>3. CASE Finish(p)
  BY <1>1, <1>2, <1>3, EndsQuietly
<1>4. CASE ~Finish(p)
  <2> DEFINE r == [req[p] EXCEPT !.pc = "pug live"]
  <2>1. Continue(p, r)
    BY <1>4 DEF OnMatchLive
  <2>2. req[p] \in RowJob
    BY <1>1, <1>2, KindOfJob
  <2>3. r \in PugJobs /\ r.pc = "pug live" /\ r.pug = i
    BY <2>2 DEF RowJob, PugJobs
  <2> HIDE DEF r
  <2>4. Harmless(r)
    BY <2>3 DEF Harmless
  <2>5. Fits(r, pugs, pugMatch) /\ SerialFits(r, pugs, pugMatch) /\ \A j : ~Locking(r, j)
    BY <1>2, <2>3, <2>4, HarmlessFits
  <2>6. Turned(p, r)
    BY <1>2, <2>1, Turning DEF PugInv
  <2> QED
    BY <1>1, <2>3, <2>5, <2>6, PlainStep
<1> QED
  BY <1>3, <1>4

\* A step that ends a request by writing a status that is neither open nor
\* called off.
LEMMA StatusEnds ==
    ASSUME PugInv, NEW p \in Tasks, req[p].pc \notin {"idle", "pug create"}, Finish(p),
           UNCHANGED <<pugRoster, pugCaptains, pugEntries, pugMatch>>,
           NEW row \in PugRow, pugs' = [pugs EXCEPT ![req[p].pug] = row],
           row.status \notin {"none", "gathering", "cancelled"},
           row.attached = pugs[req[p].pug].attached
    PROVE  PugInv'
<1> DEFINE i == req[p].pug
<1> DEFINE box == pugMatch[i]
<1>1. /\ req[p] # NoRequest /\ i \in PugIds /\ box \in PugContainer
      /\ RowFits(pugs[i], pugMatch[i])
      /\ pugMatch = [pugMatch EXCEPT ![i] = pugMatch[i]]
      /\ \A q \in Tasks : Locking(req[q], i) => ~pugs[i].attached
  BY AtLobby
<1>2. RowFits(row, box)
  BY <1>1 DEF RowFits
<1>3. Turned(p, NoRequest)
  BY <1>1, Turning DEF PugInv
<1>4. pugMatch' = [pugMatch EXCEPT ![i] = box] /\ (Built(pugMatch[i]) => Built(box))
  BY <1>1
<1>5. \A q \in Tasks : q # p /\ Locking(req[q], i) => row.status # "gathering" /\ ~row.attached
  BY <1>1
<1>6. row.status # "none" /\ row.status # "cancelled"
  OBVIOUS
<1> HIDE DEF box
<1> QED
  BY <1>1, <1>2, <1>3, <1>4, <1>5, <1>6, LobbyEnds

\* ... and the lobby goes live.
LEMMA SetLiveInv == ASSUME PugInv, NEW p \in Tasks, SetLive(p) PROVE PugInv'
<1> DEFINE i == req[p].pug
<1> DEFINE row == [pugs[i] EXCEPT !.status = "live"]
<1>1. /\ req[p].pc \notin {"idle", "pug create"} /\ Finish(p)
      /\ UNCHANGED <<pugRoster, pugCaptains, pugEntries, pugMatch>>
  BY DEF SetLive, At
<1>2. i \in PugIds /\ pugs[i] \in PugRow
  BY <1>1, AtLobby
<1>3. pugs' = [pugs EXCEPT ![i] = row]
  BY <1>2 DEF SetLive, SetPugStatus, PugInv, TypeInv
<1>4. row \in PugRow /\ row.status = "live" /\ row.attached = pugs[i].attached
  BY <1>2 DEF PugRow, PugStatus
<1> HIDE DEF row
<1> QED
  BY <1>1, <1>3, <1>4, StatusEnds

\* A lobby that was never locked expires.
LEMMA SetExpiredInv == ASSUME PugInv, NEW p \in Tasks, SetExpired(p) PROVE PugInv'
<1> DEFINE i == req[p].pug
<1>1. /\ req[p].pc = "pug expire" /\ Finish(p)
      /\ UNCHANGED <<pugRoster, pugCaptains, pugEntries, pugMatch>>
  BY DEF SetExpired, At
<1>2. i \in PugIds /\ pugs[i] \in PugRow /\ req[p] # NoRequest
  BY <1>1, AtLobby
<1>3. CASE pugs[i].status = "gathering"
  <2> DEFINE row == [pugs[i] EXCEPT !.status = "expired"]
  <2>1. pugs' = [pugs EXCEPT ![i] = row]
    BY <1>2, <1>3 DEF SetExpired, TransitionPug, PugInv, TypeInv
  <2>2. row \in PugRow /\ row.status = "expired" /\ row.attached = pugs[i].attached
    BY <1>2 DEF PugRow, PugStatus
  <2> HIDE DEF row
  <2> QED
    BY <1>1, <2>1, <2>2, StatusEnds
<1>4. CASE pugs[i].status # "gathering"
  <2>1. UNCHANGED pugTables
    BY <1>1, <1>4 DEF SetExpired, TransitionPug, pugTables
  <2> QED
    BY <1>1, <1>2, <2>1, EndsQuietly
<1> QED
  BY <1>3, <1>4

\* The series ends and the lobby is completed, unless it was called off; a
\* reconciliation goes on to the veto.
LEMMA OnSeriesEndInv == ASSUME PugInv, NEW p \in Tasks, OnSeriesEnd(p) PROVE PugInv'
<1> DEFINE i == req[p].pug
<1> DEFINE row == IF pugs[i].attached /\ pugs[i].status \notin {"cancelled", "expired"}
                  THEN [pugs[i] EXCEPT !.status = "completed", !.winner = req[p].winner] ELSE pugs[i]
<1> DEFINE box == pugMatch[i]
<1>1. req[p].pc = "pug end hook" /\ UNCHANGED <<pugRoster, pugCaptains, pugEntries, pugMatch>>
  BY DEF OnSeriesEnd, At
<1>2. /\ req[p] \in PugJobs /\ req[p] # NoRequest
      /\ i \in PugIds /\ pugs[i] \in PugRow /\ pugMatch[i] \in PugContainer
      /\ RowFits(pugs[i], pugMatch[i]) /\ pugs[i].status # "none"
      /\ Fits(req[p], pugs, pugMatch)
      /\ pugs = [pugs EXCEPT ![i] = pugs[i]] /\ pugMatch = [pugMatch EXCEPT ![i] = pugMatch[i]]
      /\ \A q \in Tasks : Locking(req[q], i) => pugs[i].status # "gathering" /\ ~pugs[i].attached
  BY <1>1, AtLobby
<1>3. req[p] \in EndJob /\ (req[p].then = "swept" => Built(pugMatch[i]))
  BY <1>1, <1>2, KindOfJob DEF Fits, NeedsMatch
<1>4. pugs' = [pugs EXCEPT ![i] = row]
  BY <1>2 DEF OnSeriesEnd, SetResult, PugInv, TypeInv
<1>5. pugMatch' = [pugMatch EXCEPT ![i] = box] /\ box \in PugContainer
  BY <1>1, <1>2
<1>6. /\ row \in PugRow /\ row.attached = pugs[i].attached
      /\ row.status = pugs[i].status \/ row.status = "completed"
  BY <1>2, <1>3 DEF PugRow, PugStatus, EndJob
<1> HIDE DEF row
<1>7. RowFits(row, box) /\ row.status # "none"
  BY <1>2, <1>6 DEF RowFits
<1>8. \A q \in Tasks : q # p /\ Locking(req[q], i) => row.status # "gathering" /\ ~row.attached
  BY <1>2, <1>6
<1>9. ~Sweeping(req[p], i)
  BY <1>1 DEF Sweeping
<1>10. scenario.serial /\ row.status = "cancelled" /\ row.attached =>
           /\ pugs[i].status = "cancelled" /\ pugs[i].attached /\ ~Sweeping(req[p], i)
           /\ Over(pugMatch[i]) => Over(box)
           /\ box.veto = "active" => pugMatch[i].veto = "active"
  BY <1>6, <1>9
<1>11. /\ req[p].pc \notin {"idle", "pug create"}
       /\ Built(pugMatch[i]) => Built(box)
  BY <1>1
<1>12. CASE req[p].then = "swept"
  <2> DEFINE r == [pc |-> "pug cancel veto", pug |-> i, then |-> "swept"]
  <2>1. Continue(p, r)
    BY <1>12 DEF OnSeriesEnd
  <2>2. /\ r \in PugJobs /\ r.pc = "pug cancel veto" /\ r.pug = i
    BY <1>2 DEF CancelJob, PugJobs
  <2> HIDE DEF r
  <2>3. Turned(p, r)
    BY <1>2, <2>1, Turning DEF PugInv
  <2>4. Built(box)
    BY <1>3, <1>12
  <2> HIDE DEF box
  <2>5. ~Locking(r, i) /\ FitsRow(r, row, box) /\ SerialFitsRow(r, row, box)
    BY <2>2, <2>4 DEF Locking, LockPcs, FitsRow, SerialFitsRow, NeedsMatch
  <2>6. scenario.serial /\ SerialFitsRow(req[p], pugs[i], pugMatch[i]) => SerialFitsRow(r, row, box)
    BY <2>5
  <2>7. Locking(r, i) => Locking(req[p], i)
    BY <2>5
  <2> QED
    BY <1>1, <1>4, <1>5, <1>6, <1>7, <1>8, <1>10, <1>11, <2>2, <2>3, <2>5, <2>6, <2>7, LobbyWrite
<1>13. CASE req[p].then # "swept"
  <2>1. Finish(p)
    BY <1>13 DEF OnSeriesEnd
  <2>2. Turned(p, NoRequest)
    BY <1>2, <2>1, Turning DEF PugInv
  <2> HIDE DEF box
  <2> QED
    BY <1>1, <1>4, <1>5, <1>6, <1>7, <1>8, <1>10, <1>11, <2>2, LobbyEnds
<1> QED
  BY <1>12, <1>13
-----------------------------------------------------------------------------
(* A lobby is opened, and filled again for a rematch                        *)

\* The row and the creator's seat come together.
LEMMA InsertPugInv == ASSUME PugInv, NEW p \in Tasks, InsertPug(p) PROVE PugInv'
<1>1. /\ req[p].pc = "pug create" /\ UNCHANGED <<pugEntries, pugMatch>>
      /\ req[p] \in PugJobs /\ req[p] # NoRequest
  BY IdleFits DEF InsertPug, At, PugInv, TypeInv
<1>2. PICK i \in PugIds :
         /\ pugs[i] = NoPug
         /\ pugs' = [pugs EXCEPT ![i] = Gathering]
         /\ pugRoster' = [pugRoster EXCEPT ![i] = [x \in {PugCreator} |-> 1]]
         /\ pugCaptains' = [pugCaptains EXCEPT ![i] = {PugCreator}]
         /\ IF req[p].then = 0 THEN Finish(p)
            ELSE Continue(p, [pc |-> "pug copy", pug |-> i, from |-> req[p].then, players |-> req[p].players,
                              left |-> DOMAIN req[p].players \ {PugCreator}])
  BY DEF InsertPug
<1> DEFINE row == Gathering
<1> DEFINE box == pugMatch[i]
<1> DEFINE seats == [x \in {PugCreator} |-> 1]
<1>3. pugs[i].status = "none"
  <2>1. NoPug.status = "none"
    BY DEF NoPug
  <2> QED
    BY <1>2, <2>1
<1>4. /\ row \in PugRow /\ row.status = "gathering" /\ ~row.attached
      /\ pugs' = [pugs EXCEPT ![i] = row]
  <2>1. row \in PugRow
    BY DEF Gathering, PugRow, PugStatus
  <2>2. row.status = "gathering" /\ ~row.attached
    BY DEF Gathering
  <2> QED
    BY <1>2, <2>1, <2>2
<1>5. box \in PugContainer /\ RowFits(pugs[i], box) /\ pugMatch' = [pugMatch EXCEPT ![i] = box]
  BY <1>1, RowTypes DEF PugInv, TypeInv
<1>6. ~Built(box) /\ RowFits(row, box)
  BY <1>3, <1>4, <1>5 DEF RowFits
<1>7. /\ seats \in PugRosters /\ DOMAIN seats = {PugCreator}
      /\ pugRoster' = [pugRoster EXCEPT ![i] = seats]
  <2>1. seats \in [{PugCreator} -> 0 .. 2] /\ {PugCreator} \in SUBSET PugPlayers
    BY PugsAssumption DEF PugsAssumption
  <2> QED
    BY <1>2, <2>1 DEF PugRosters
<1>8. PICK r \in PugJobs :
         Turned(p, r) /\ (r = NoRequest \/ (Harmless(r) /\ r.pug = i /\ r.pc # "pug create"))
  <2>1. CASE req[p].then = 0
    <3>1. Turned(p, NoRequest)
      BY <1>1, <1>2, <2>1, Turning DEF PugInv
    <3> QED
      BY <3>1, Released
  <2>2. CASE req[p].then # 0
    <3> DEFINE r == [pc |-> "pug copy", pug |-> i, from |-> req[p].then, players |-> req[p].players,
                     left |-> DOMAIN req[p].players \ {PugCreator}]
    <3>1. req[p] \in RematchJob
      BY <1>1, <2>2, KindOfJob DEF CreateJob
    <3>2. req[p].then \in PugIds /\ req[p].players \in CreatorRosters
      BY <3>1 DEF RematchJob
    <3>3. DOMAIN req[p].players \subseteq PugPlayers
      BY <3>2 DEF CreatorRosters, PugRosters
    <3>4. r \in CopyJob
      BY <3>2, <3>3 DEF CopyJob
    <3>5. r \in PugJobs /\ Harmless(r) /\ r.pug = i /\ r.pc # "pug create"
      BY <3>4 DEF PugJobs, Harmless
    <3>6. Continue(p, r)
      BY <1>2, <2>2
    <3> HIDE DEF r
    <3>7. Turned(p, r)
      BY <1>1, <3>6, Turning DEF PugInv
    <3> QED
      BY <3>5, <3>7
  <2> QED
    BY <2>1, <2>2
<1> HIDE DEF row, seats
<1>9. pugs' \in [PugIds -> PugRow] /\ pugs'[i] = row
  BY <1>4 DEF PugInv, TypeInv
<1>10. Fits(r, pugs', pugMatch') /\ SerialFits(r, pugs', pugMatch') /\ \A j : ~Locking(r, j)
  BY <1>4, <1>8, <1>9, IdleFits, Released, HarmlessFits
<1>11. ASSUME NEW q \in Tasks PROVE ~Locking(req[q], i)
  BY <1>3 DEF PugInv, LockInv, Fits, Locking, LockPcs
<1>12. TypeInv'
  <2>1. /\ pugRoster \in [PugIds -> PugRosters] /\ pugCaptains \in [PugIds -> SUBSET PugPlayers]
        /\ pugEntries \in [PugIds -> SUBSET PugPlayers] /\ pugMatch \in [PugIds -> PugContainer]
        /\ req \in [Tasks -> PugJobs] /\ scenario \in Scenarios
    BY DEF PugInv, TypeInv
  <2>2. pugRoster' \in [PugIds -> PugRosters] /\ pugCaptains' \in [PugIds -> SUBSET PugPlayers]
    BY <1>2, <1>7, <2>1, PugsAssumption DEF PugsAssumption
  <2> QED
    BY <1>1, <1>8, <1>9, <2>1, <2>2 DEF TypeInv, Turned
<1>13. SeatsInv'
  <2>1. /\ \A j \in PugIds : j # i => /\ pugs'[j] = pugs[j] /\ pugRoster'[j] = pugRoster[j]
                                     /\ pugCaptains'[j] = pugCaptains[j]
        /\ pugRoster'[i] = seats /\ pugCaptains'[i] = {PugCreator}
    BY <1>2, <1>4, <1>7 DEF PugInv, TypeInv
  <2> QED
    BY <1>7, <2>1 DEF PugInv, SeatsInv
<1>14. TypeInv /\ LockInv /\ SerialInv
  BY DEF PugInv
<1>15. \A j \in PugIds : ~Sweeping(req[p], j)
  BY <1>1 DEF Sweeping
<1>16. row.status # "none" /\ row.status # "cancelled"
  BY <1>4
<1> HIDE DEF box
<1>17. Built(pugMatch[i]) => Built(box)
  BY DEF box
<1>18. LockInv'
  BY <1>4, <1>5, <1>6, <1>8, <1>10, <1>11, <1>14, <1>16, <1>17, LobbyStep
<1>19. SerialInv'
  BY <1>4, <1>5, <1>8, <1>10, <1>14, <1>15, <1>16, SerialStep
<1> QED
  BY <1>12, <1>13, <1>18, <1>19 DEF PugInv

\* The old players are put back one by one, onto the team they were in.
LEMMA CopyInv ==
    ASSUME PugInv, NEW p \in Tasks, CopyPlayer(p) \/ CopyCreator(p) \/ RematchCreated(p)
    PROVE  PugInv'
<1> DEFINE i == req[p].pug
<1>1. /\ req[p].pc \in {"pug copy", "pug copy creator", "pug rematched"}
      /\ UNCHANGED <<pugs, pugEntries, pugMatch>>
  BY DEF CopyPlayer, CopyCreator, RematchCreated, At, pugTables
<1>2. /\ req[p] \in PugJobs /\ req[p] # NoRequest /\ i \in PugIds /\ pugs[i].status # "none"
      /\ pugRoster[i] \in PugRosters
  BY <1>1, AtLobby, RowTypes
<1>3. /\ pugRoster \in [PugIds -> PugRosters]
      /\ pugCaptains \in [PugIds -> SUBSET PugPlayers] /\ pugEntries \in [PugIds -> SUBSET PugPlayers]
      /\ \A j \in PugIds : pugCaptains[j] \subseteq DOMAIN pugRoster[j]
  BY DEF PugInv, TypeInv, SeatsInv
<1>4. ASSUME NEW r \in PugJobs, Continue(p, r), r.pug = i, Harmless(r), r.pc # "pug create",
             pugRoster' \in [PugIds -> PugRosters],
             pugCaptains' \in [PugIds -> SUBSET PugPlayers],
             \A j \in PugIds : pugCaptains'[j] \subseteq DOMAIN pugRoster'[j],
             \A j \in PugIds : DOMAIN pugRoster[j] \subseteq DOMAIN pugRoster'[j]
      PROVE  PugInv'
  <2>1. Turned(p, r)
    BY <1>2, <1>4, Turning DEF PugInv
  <2>2. Fits(r, pugs, pugMatch) /\ SerialFits(r, pugs, pugMatch) /\ \A j : ~Locking(r, j)
    BY <1>2, <1>4, HarmlessFits
  <2>3. \A j \in PugIds : PugCreator \in DOMAIN pugRoster[j] => PugCreator \in DOMAIN pugRoster'[j]
    BY <1>4
  <2>4. pugEntries' \in [PugIds -> SUBSET PugPlayers] /\ req[p].pc # "pug cancel veto"
    BY <1>1, <1>3
  <2> QED
    BY <1>1, <1>4, <2>1, <2>2, <2>3, <2>4, SeatStep
<1>5. CASE CopyPlayer(p)
  <2>1. req[p].pc = "pug copy"
    BY <1>5 DEF CopyPlayer, At
  <2>2. req[p] \in CopyJob
    BY <1>2, <2>1, KindOfJob
  <2>3. /\ req[p].players \in CreatorRosters /\ req[p].left \subseteq DOMAIN req[p].players
        /\ req[p].left \subseteq PugPlayers /\ req[p].from \in PugIds
    BY <2>2 DEF CopyJob
  <2>4. CASE req[p].left = {}
    <3> DEFINE r == [req[p] EXCEPT !.pc = "pug copy creator"]
    <3>1. Continue(p, r) /\ UNCHANGED <<pugRoster, pugCaptains>>
      BY <1>5, <2>4 DEF CopyPlayer
    <3>2. r \in CopyJob /\ r.pc = "pug copy creator" /\ r.pug = i
      BY <2>2 DEF CopyJob
    <3> HIDE DEF r
    <3>3. r \in PugJobs /\ Harmless(r)
      BY <3>2 DEF PugJobs, Harmless
    <3> QED
      BY <1>3, <1>4, <3>1, <3>2, <3>3
  <2>5. CASE req[p].left # {}
    <3>1. PICK x \in req[p].left :
             /\ pugRoster' = [pugRoster EXCEPT ![i] = Moved(Seated(@, x), x, req[p].players[x])]
             /\ pugCaptains' = [pugCaptains EXCEPT ![i] = @ \cup ({x} \cap pugCaptains[req[p].from])]
             /\ Continue(p, [req[p] EXCEPT !.left = @ \ {x}])
      BY <1>5, <2>5 DEF CopyPlayer
    <3> DEFINE new == Moved(Seated(pugRoster[i], x), x, req[p].players[x])
    <3> DEFINE r == [req[p] EXCEPT !.left = @ \ {x}]
    <3>2. req[p].players[x] \in 0 .. 2 /\ x \in PugPlayers
      BY <2>3 DEF CreatorRosters, PugRosters
    <3>3. new \in PugRosters /\ DOMAIN new = DOMAIN pugRoster[i] \cup {x}
      BY <1>2, <3>2, SeatedKeeps, MovedKeeps
    <3>4. pugRoster' = [pugRoster EXCEPT ![i] = new]
      BY <1>2, <1>3, <3>1
    <3>5. r \in CopyJob /\ r.pc = "pug copy" /\ r.pug = i
      BY <2>1, <2>2, <2>3 DEF CopyJob
    <3>6. Continue(p, r)
      BY <3>1
    <3> HIDE DEF new, r
    <3>7. r \in PugJobs /\ Harmless(r)
      BY <3>5 DEF PugJobs, Harmless
    <3>8. pugRoster' \in [PugIds -> PugRosters] /\ pugCaptains' \in [PugIds -> SUBSET PugPlayers]
      BY <1>3, <3>1, <3>2, <3>3, <3>4
    <3>9. \A j \in PugIds : /\ DOMAIN pugRoster[j] \subseteq DOMAIN pugRoster'[j]
                            /\ pugCaptains'[j] \subseteq DOMAIN pugRoster'[j]
      BY <1>3, <3>1, <3>3, <3>4
    <3> QED
      BY <1>4, <3>5, <3>6, <3>7, <3>8, <3>9
  <2> QED
    BY <2>4, <2>5
<1>6. CASE CopyCreator(p)
  <2>1. /\ req[p].pc = "pug copy creator" /\ UNCHANGED pugCaptains
        /\ set_player_team(i, PugCreator, req[p].players[PugCreator])
    BY <1>6 DEF CopyCreator, At
  <2>2. req[p] \in CopyJob
    BY <1>2, <2>1, KindOfJob
  <2>3. req[p].players \in CreatorRosters
    BY <2>2 DEF CopyJob
  <2>4. req[p].players[PugCreator] \in 0 .. 2
    BY <2>3 DEF CreatorRosters, PugRosters
  <2> DEFINE new == Moved(pugRoster[i], PugCreator, req[p].players[PugCreator])
  <2> DEFINE r == [pc |-> "pug rematched", pug |-> i, players |-> req[p].players]
  <2>5. new \in PugRosters /\ DOMAIN new = DOMAIN pugRoster[i]
    BY <1>2, <2>4, MovedKeeps
  <2>6. pugRoster' = [pugRoster EXCEPT ![i] = new]
    BY <1>2, <1>3, <2>1 DEF set_player_team
  <2>7. r \in RematchedJob /\ r.pc = "pug rematched" /\ r.pug = i
    BY <1>2, <2>3 DEF RematchedJob
  <2>8. Continue(p, r)
    BY <1>6 DEF CopyCreator
  <2> HIDE DEF new, r
  <2>9. r \in PugJobs /\ Harmless(r)
    BY <2>7 DEF PugJobs, Harmless
  <2>10. pugRoster' \in [PugIds -> PugRosters]
    BY <1>3, <2>5, <2>6
  <2>11. \A j \in PugIds : DOMAIN pugRoster'[j] = DOMAIN pugRoster[j]
    BY <1>3, <2>5, <2>6
  <2> QED
    BY <1>3, <1>4, <2>1, <2>7, <2>8, <2>9, <2>10, <2>11
<1>7. CASE RematchCreated(p)
  BY <1>1, <1>2, <1>7, EndsQuietly DEF RematchCreated
<1> QED
  BY <1>5, <1>6, <1>7
-----------------------------------------------------------------------------
(* The theorem                                                              *)

\* A task dies and leaves what it wrote: from then on a veto may be left over.
LEMMA PugDieInv == ASSUME PugInv, NEW p \in Tasks, PugDie(p) PROVE PugInv'
<1>1. /\ UNCHANGED <<pugs, pugRoster, pugCaptains, pugEntries, pugMatch>>
      /\ Turned(p, NoRequest) /\ crashes' # 0
  <2>1. Die(p) /\ UNCHANGED <<pugs, pugRoster, pugCaptains, pugEntries, pugMatch>>
    BY DEF PugDie, pugTables
  <2>2. Turned(p, NoRequest)
    BY <2>1, Turning DEF PugInv
  <2>3. crashes \in Nat /\ crashes' = crashes + 1
    BY <2>1 DEF Die, PugInv, TypeInv
  <2> QED
    BY <2>1, <2>2, <2>3
<1>2. TypeInv'
  BY <1>1, Released DEF PugInv, TypeInv, Turned
<1>3. SeatsInv'
  BY <1>1 DEF PugInv, SeatsInv
<1>4. LockInv'
  BY <1>1, Released, IdleFits, QuietLocks DEF PugInv
<1>5. SerialInv'
  <2>1. req' = [req EXCEPT ![p] = NoRequest] /\ req \in [Tasks -> PugJobs] /\ scenario' = scenario
    BY <1>1 DEF Turned, PugInv, TypeInv
  <2>2. SerialInv
    BY DEF PugInv
  <2> SUFFICES ASSUME scenario.serial
               PROVE  (Alone /\ (\A q \in Tasks : SerialFits(req[q], pugs, pugMatch)) /\ \A j \in PugIds : TornDown(j))'
    BY <2>1 DEF SerialInv
  <2>3. Alone'
    BY <2>1, <2>2 DEF SerialInv, Alone
  <2>4. \A q \in Tasks : SerialFits(req'[q], pugs', pugMatch')
    BY <1>1, <2>1, <2>2, IdleFits DEF SerialInv
  <2>5. \A j \in PugIds : TornDown(j)'
    BY <1>1, <2>2 DEF SerialInv, TornDown
  <2> QED
    BY <2>3, <2>4, <2>5
<1> QED
  BY <1>2, <1>3, <1>4, <1>5 DEF PugInv

\* The scenario's lobby is open and has no match yet.
LEMMA PugInitInv == ASSUME RequestsInit, PugInit PROVE PugInv
<1>1. /\ scenario \in Scenarios /\ crashes = 0 /\ \A p \in Tasks : req[p] = NoRequest
      /\ req \in [Tasks -> PugJobs]
  BY Released DEF RequestsInit
<1>2. /\ NoPug \in PugRow /\ NoPug.status = "none" /\ ~NoPug.attached
  <2>1. NoPug \in PugRow
    BY DEF NoPug, PugRow, PugStatus
  <2> QED
    BY <2>1 DEF NoPug
<1>3. /\ Gathering \in PugRow /\ Gathering.status = "gathering" /\ ~Gathering.attached
  <2>1. Gathering \in PugRow
    BY DEF Gathering, PugRow, PugStatus
  <2> QED
    BY <2>1 DEF Gathering
<1>4. /\ NoContainer \in PugContainer /\ NoContainer.match = "none" /\ NoContainer.veto = "none"
  <2>1. <<{}, {}>> \in AdhocTeam \X AdhocTeam
    BY DEF AdhocTeam
  <2>2. NoContainer \in PugContainer
    BY <2>1 DEF NoContainer, PugContainer
  <2> QED
    BY <2>2 DEF NoContainer
<1>5. <<>> \in PugRosters
  <2>1. <<>> \in [{} -> 0 .. 2]
    OBVIOUS
  <2> QED
    BY <2>1 DEF PugRosters
<1>6. scenario.of = "pug" =>
         scenario.lobby \in PugRosters /\ PugCreator \in DOMAIN scenario.lobby /\ PugCreator \in PugPlayers
  BY <1>1, PugsAssumption DEF PugsAssumption
<1>7. \A i \in PugIds : pugs[i] = NoPug \/ (scenario.of = "pug" /\ pugs[i] = Gathering /\ i = 1)
  BY DEF PugInit
<1>8. \A i \in PugIds : pugs[i] = Gathering => pugRoster[i] = scenario.lobby
  BY <1>2, <1>3 DEF PugInit
<1>9. /\ pugs \in [PugIds -> PugRow] /\ pugMatch = [i \in PugIds |-> NoContainer]
      /\ pugMatch \in [PugIds -> PugContainer] /\ pugEntries \in [PugIds -> SUBSET PugPlayers]
  BY <1>2, <1>3, <1>4 DEF PugInit
<1>10. /\ pugRoster \in [PugIds -> PugRosters] /\ pugCaptains \in [PugIds -> SUBSET PugPlayers]
  BY <1>5, <1>6 DEF PugInit
<1>11. \A i \in PugIds : pugCaptains[i] \subseteq DOMAIN pugRoster[i]
  BY <1>6 DEF PugInit
<1>12. TypeInv
  BY <1>1, <1>9, <1>10 DEF TypeInv
<1>13. SeatsInv
  BY <1>2, <1>6, <1>7, <1>8, <1>11 DEF SeatsInv
<1>14. LockInv
  <2>1. \A i \in PugIds : RowFits(pugs[i], pugMatch[i])
    BY <1>2, <1>3, <1>4, <1>7, <1>9 DEF RowFits, Built
  <2>2. OneLocker
    BY <1>1, Released DEF OneLocker
  <2> QED
    BY <1>1, <2>1, <2>2, IdleFits DEF LockInv
<1>15. SerialInv
  <2>1. \A i \in PugIds : ~pugs[i].attached
    BY <1>2, <1>3, <1>7
  <2> QED
    BY <1>1, <2>1, IdleFits DEF SerialInv, Alone, TornDown
<1> QED
  BY <1>12, <1>13, <1>14, <1>15 DEF PugInv

\* Every step keeps the invariant.
LEMMA PugNextInv == ASSUME PugInv, [PugNext]_pugVars PROVE PugInv'
<1>1. CASE UNCHANGED pugVars
  <2>1. UNCHANGED <<scenario, req, crashes, pugs, pugRoster, pugCaptains, pugEntries, pugMatch>>
    BY <1>1 DEF pugVars, requestVars, pugTables
  <2>2. TypeInv' /\ SeatsInv'
    BY <2>1 DEF PugInv, TypeInv, SeatsInv
  <2>3. LockInv'
    BY <2>1 DEF PugInv, LockInv, OneLocker
  <2>4. SerialInv'
    BY <2>1 DEF PugInv, SerialInv, Alone, TornDown
  <2> QED
    BY <2>2, <2>3, <2>4 DEF PugInv
<1>2. CASE PugNext
  <2>1. ASSUME NEW p \in Tasks, PugRequest(p) PROVE PugInv'
    BY <2>1, LobbyRequestsInv, CancelPugInv, RematchPugInv DEF PugRequest
  <2>2. ASSUME NEW p \in Tasks, PugStep(p) PROVE PugInv'
    BY <2>2, InsertPugInv, SeatWritesInv, LockCasInv, FreezeRosterInv, BuildInv, SetMaterializedInv,
       RollbackLockInv, CancelVetoInv, CancelServerInv, CancelMatchInv, SetCancelledInv,
       OnVetoCompletedInv, OnMatchLiveInv, SetLiveInv, OnSeriesEndInv, SetExpiredInv, CopyInv
       DEF PugStep
  <2> QED
    BY <1>2, <2>1, <2>2, MatchStepInv, PugDieInv, SweepPugsInv, MatchEndsInv DEF PugNext
<1> QED
  BY <1>1, <1>2

\* What the invariant says of the lobbies.
LEMMA PugInvSound == ASSUME PugInv PROVE PugIsSound
<1>1. PugTypeOK
  BY RowTypes DEF PugTypeOK, RowFits, Built
<1>2. LockedForGood
  BY RowTypes DEF LockedForGood, RowFits
<1>3. TeamsAreSound
  BY RowTypes DEF TeamsAreSound, RowFits, Built, SoundTeams
<1>4. CancelledPugIsTornDown
  <2> SUFFICES ASSUME NEW i \in PugIds, scenario.serial, Quiescent, pugs[i].status = "cancelled",
                      pugs[i].attached
               PROVE  MatchOver(i) /\ (crashes = 0 => pugMatch[i].veto # "active")
    BY DEF CancelledPugIsTornDown
  <2>1. TornDown(i)
    BY DEF PugInv, SerialInv
  <2>2. \A q \in Tasks : ~Sweeping(req[q], i)
    BY Released DEF Quiescent
  <2> QED
    BY <2>1, <2>2 DEF TornDown, Over, MatchOver
<1> QED
  BY <1>1, <1>2, <1>3, <1>4 DEF PugIsSound

\* A lobby that is locked stays locked, plays with the two teams it froze, and
\* leaves no match behind when it is called off: lock_pug, its rollback, the
\* hooks of the match, cancel_pug and the sweeper, however their writes
\* interleave and wherever a task dies.
THEOREM PugStaysSound == PugSpec => []PugIsSound
<1>1. RequestsInit /\ PugInit => PugInv
  BY PugInitInv
<1>2. PugInv /\ [PugNext]_pugVars => PugInv'
  BY PugNextInv
<1>3. PugInv => PugIsSound
  BY PugInvSound
<1> QED
  BY <1>1, <1>2, <1>3, PTL DEF PugSpec

=============================================================================
