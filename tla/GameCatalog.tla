---------------------------- MODULE GameCatalog ----------------------------
(***************************************************************************)
(* A game's administration - its map catalog, default map pool, rank tiers *)
(* and team sizes - and the map pools of its tournaments, up to the maps a *)
(* veto offers and the maps a submitted result may name.                   *)
(***************************************************************************)
EXTENDS Requests, Sequences, FiniteSets, SequencesExt, FiniteSetsExt

CONSTANTS
    GmMaps,         \* map ids
    GmPluginMaps,   \* the plugin's own list, a sequence
    GmCups,         \* tournaments of the game
    GmTierLists,    \* rank tiers an admin may put: sequences of [min, max]
    GmRatings,      \* ratings
    MaxGmPools      \* bound: pool rows

VARIABLES
    gm_game,        \* [maps, pool, tiers, size, status]: the games row
    gm_cups,        \* tournaments created so far
    gm_pools        \* sequence of [cup, maps], or NoPool for a deleted row

gmTables == <<gm_game, gm_cups, gm_pools>>
gmVars == <<requestVars, gmTables>>

NoPool == [cup |-> "none", maps |-> {}]
GmSizes == [min : 1 .. 2, default : 1 .. 2, max : 1 .. 2]

ASSUME GameCatalogAssumption ==
    /\ Range(GmPluginMaps) \subseteq GmMaps
    /\ \A ts \in GmTierLists : \A i \in DOMAIN ts :
         ts[i].min \in GmRatings /\ ts[i].max \subseteq GmRatings
    /\ MaxGmPools \in Nat

GmAllowed(op) == scenario.of = "games" /\ op \in scenario.ops

\* Both JSON columns start as the migration leaves them, empty.
GmInit ==
    /\ gm_game = [maps |-> << >>, pool |-> {}, tiers |-> << >>,
                  size |-> [min |-> 1, default |-> 1, max |-> 2], status |-> "active"]
    /\ gm_cups = {}
    /\ gm_pools = << >>

-----------------------------------------------------------------------------
(* The game row. *)

\* The stored list, or the plugin's as long as nothing is stored.
load_available_maps == IF gm_game.maps # << >> THEN gm_game.maps ELSE GmPluginMaps
extract_map_pool == gm_game.pool
game_catalog_map_ids ==
    IF load_available_maps = << >> THEN extract_map_pool ELSE Range(load_available_maps)

\* An UPDATE of the columns given, by slug; the rest is kept (COALESCE).
GmUpdate(p, update) ==
    /\ Request(p, [pc |-> "update game", set |-> update])
    /\ UNCHANGED gmTables

update_game_row(p) ==
    /\ At(p, "update game")
    /\ Finish(p)
    /\ LET set == req[p].set
           row == [f \in DOMAIN gm_game |-> IF f \in DOMAIN set THEN set[f] ELSE gm_game[f]]
           size == [f \in DOMAIN gm_game.size |->
                       IF "sizes" \in DOMAIN set /\ f \in DOMAIN set.sizes
                       THEN set.sizes[f] ELSE gm_game.size[f]] IN
       \* The constraint games_check_team_size refuses what crosses.
       gm_game' = IF size.min <= size.default /\ size.default <= size.max
                  THEN [row EXCEPT !.size = size] ELSE gm_game
    /\ UNCHANGED <<gm_cups, gm_pools>>

\* The whole list is written back, as read and changed.
AddMap(p, m) ==
    /\ GmAllowed("catalog")
    /\ m \notin Range(load_available_maps)
    /\ GmUpdate(p, [maps |-> Append(load_available_maps, m)])

UpdateMap(p, m) ==
    /\ GmAllowed("catalog")
    /\ m \in Range(load_available_maps)
    /\ GmUpdate(p, [maps |-> load_available_maps])

RemoveMap(p, m) ==
    /\ GmAllowed("catalog")
    /\ m \in Range(load_available_maps)
    /\ GmUpdate(p, [maps |-> SelectSeq(load_available_maps, LAMBDA x : x # m)])

\* The trait's default; no plugin of the repository says otherwise.
supports_custom_map_pool == TRUE

SetMapPool(p, ids) ==
    /\ GmAllowed("pool")
    /\ supports_custom_map_pool
    /\ ids # {} /\ ids \subseteq Range(load_available_maps)
    /\ GmUpdate(p, [pool |-> ids])

Bound(tier) == CHOOSE r \in tier.max : TRUE

\* One pass over the list; a tier without a maximum is not compared with the
\* next one.
ValidTiers(tiers) ==
    \A i \in DOMAIN tiers :
        /\ i > 1 /\ tiers[i - 1].max # {} => tiers[i].min > Bound(tiers[i - 1])
        /\ tiers[i].max # {} => Bound(tiers[i]) >= tiers[i].min

SetRankTiers(p, tiers) ==
    /\ GmAllowed("tiers")
    /\ ValidTiers(tiers)
    /\ GmUpdate(p, [tiers |-> tiers])

\* The sizes asked for, merged with the ones read, must not cross; only the
\* ones asked for are written.
UpdateTeamSize(p, fields, sizes) ==
    LET new == [f \in DOMAIN gm_game.size |->
                    IF f \in fields THEN sizes[f] ELSE gm_game.size[f]] IN
    /\ GmAllowed("size")
    /\ new.min <= new.default /\ new.default <= new.max
    /\ GmUpdate(p, [sizes |-> [f \in fields |-> sizes[f]]])

EnableGame(p) == GmAllowed("status") /\ GmUpdate(p, [status |-> "active"])
DisableGame(p) == GmAllowed("status") /\ GmUpdate(p, [status |-> "maintenance"])

-----------------------------------------------------------------------------
(* The pools of tournaments. *)

RowsOf(c) == {i \in DOMAIN gm_pools : gm_pools[i].cup = c}

\* find_by_tournament returns a row, any one if there are several; no stage
\* has a pool of its own, so it is also the effective one.
get_effective(c) == {gm_pools[i].maps : i \in RowsOf(c)}

CreateTournament(p, c, ids) ==
    /\ GmAllowed("create")
    /\ c \notin gm_cups
    /\ ids # {} /\ ids \subseteq game_catalog_map_ids
    /\ Request(p, [pc |-> "insert cup", cup |-> c, maps |-> ids])
    /\ UNCHANGED gmTables

\* The slug is unique.
InsertTournament(p) ==
    /\ At(p, "insert cup")
    /\ gm_cups' = gm_cups \cup {req[p].cup}
    /\ IF req[p].cup \in gm_cups THEN Finish(p)
       ELSE Continue(p, [req[p] EXCEPT !.pc = "find pool"])
    /\ UNCHANGED <<gm_game, gm_pools>>

SetTournamentMapPool(p, c, ids) ==
    /\ GmAllowed("cup pool")
    /\ c \in gm_cups
    /\ ids # {} /\ ids \subseteq Range(load_available_maps)
    /\ Request(p, [pc |-> "find pool", cup |-> c, maps |-> ids])
    /\ UNCHANGED gmTables

\* upsert looks for the row first ...
FindPool(p) ==
    /\ At(p, "find pool")
    /\ \/ RowsOf(req[p].cup) = {} /\ Continue(p, [req[p] EXCEPT !.pc = "insert pool"])
       \/ \E i \in RowsOf(req[p].cup) :
            Continue(p, [req[p] EXCEPT !.pc = "update pool"] @@ [row |-> i])
    /\ UNCHANGED gmTables

\* ... and then inserts; the unique (tournament_id, stage_id) does not apply,
\* stage_id being NULL ...
InsertPool(p) ==
    /\ At(p, "insert pool")
    /\ Len(gm_pools) < MaxGmPools
    /\ gm_pools' = Append(gm_pools, [cup |-> req[p].cup, maps |-> req[p].maps])
    /\ Finish(p)
    /\ UNCHANGED <<gm_game, gm_cups>>

\* ... or updates the row it saw, which may be gone.
UpdatePool(p) ==
    /\ At(p, "update pool")
    /\ gm_pools' = IF gm_pools[req[p].row] = NoPool THEN gm_pools
                   ELSE [gm_pools EXCEPT ![req[p].row].maps = req[p].maps]
    /\ Finish(p)
    /\ UNCHANGED <<gm_game, gm_cups>>

DeleteTournamentMapPool(p, c) ==
    /\ GmAllowed("cup pool")
    /\ \E i \in RowsOf(c) : Request(p, [pc |-> "delete pool", row |-> i])
    /\ UNCHANGED gmTables

DeletePool(p) ==
    /\ At(p, "delete pool")
    /\ gm_pools' = [gm_pools EXCEPT ![req[p].row] = NoPool]
    /\ Finish(p)
    /\ UNCHANGED <<gm_game, gm_cups>>

\* What a new veto session is given: the pool of the request, when it has one, as it
\* is, else the tournament's or the game's.
VetoPools(c, asked) ==
    IF asked # {} THEN asked
    ELSE IF RowsOf(c) # {} THEN get_effective(c) ELSE {extract_map_pool}

\* What a submitted result may name: the same, and "last resort: the game's
\* full map catalog".
valid_map_ids(c) ==
    LET default == IF extract_map_pool # {} THEN extract_map_pool
                   ELSE Range(load_available_maps) IN
    {IF m # {} THEN m ELSE default : m \in IF RowsOf(c) # {} THEN get_effective(c) ELSE {{}}}

GmStep(p) ==
    \/ update_game_row(p) \/ InsertTournament(p) \/ FindPool(p)
    \/ InsertPool(p) \/ UpdatePool(p) \/ DeletePool(p)

GmArrives(p) ==
    \/ \E m \in GmMaps : AddMap(p, m) \/ UpdateMap(p, m) \/ RemoveMap(p, m)
    \/ \E tiers \in GmTierLists : SetRankTiers(p, tiers)
    \/ \E fields \in (SUBSET {"min", "default", "max"}) \ {{}}, sizes \in GmSizes :
         UpdateTeamSize(p, fields, sizes)
    \/ EnableGame(p) \/ DisableGame(p)
    \/ \E ids \in SUBSET GmMaps :
         \/ SetMapPool(p, ids)
         \/ \E c \in GmCups : CreateTournament(p, c, ids) \/ SetTournamentMapPool(p, c, ids)
    \/ \E c \in GmCups : DeleteTournamentMapPool(p, c)

GmNext == \E p \in Users : GmArrives(p) \/ GmStep(p) \/ (Die(p) /\ UNCHANGED gmTables)

-----------------------------------------------------------------------------
(* Properties *)

GmSerial == scenario.of = "games" /\ scenario.serial

\* The columns of games that the services read or write, and of tournament_map_pools.
GameRow ==
    [maps : Seq(GmMaps), pool : SUBSET GmMaps, tiers : {<< >>} \cup GmTierLists, size : GmSizes,
     status : {"active", "maintenance"}]
TournamentMapPoolRow == [cup : GmCups \cup {"none"}, maps : SUBSET GmMaps]

\* Types; a map id is in the catalog once - a whole list is written each time,
\* so also under concurrent edits - and the sizes are in order.
GmTypeOK ==
    /\ gm_game \in GameRow
    /\ \A i, j \in DOMAIN gm_game.maps : gm_game.maps[i] = gm_game.maps[j] => i = j
    /\ gm_game.size.min <= gm_game.size.default /\ gm_game.size.default <= gm_game.size.max
    /\ gm_cups \subseteq GmCups
    /\ Range(gm_pools) \subseteq TournamentMapPoolRow

\* A rating belongs to one tier at most, if only the last tier of the list
\* is open-ended (the check resets on an open-ended one).
TiersDisjoint ==
    LET tiers == gm_game.tiers
        within(r, i) == tiers[i].min <= r /\ (tiers[i].max # {} => r <= Bound(tiers[i])) IN
    (\A i \in DOMAIN tiers : i < Len(tiers) => tiers[i].max # {}) =>
        \A r \in GmRatings : \A i, j \in DOMAIN tiers : within(r, i) /\ within(r, j) => i = j

\* Every tournament can have its maps validated: result submission "fails
\* closed", so no tournament may be left without a map it accepts, also when
\* its pool is deleted or its creation stopped before the pool was written.
MapsResolvable ==
    \A c \in gm_cups : \A ids \in valid_map_ids(c) : ids # {}

\* A veto opened now, by a request that gives no pool of its own, offers only maps
\* that a result submitted now may name, whatever has happened to the catalog since
\* the pool was set.
VetoMapsAccepted ==
    GmSerial => \A c \in gm_cups : \A pool \in VetoPools(c, {}), ids \in valid_map_ids(c) :
        pool \subseteq ids

\* Every tournament has maps, a veto offers what a result may name, and a
\* rating has one tier.
CatalogIsSound == GmTypeOK /\ TiersDisjoint /\ MapsResolvable /\ VetoMapsAccepted

=============================================================================
