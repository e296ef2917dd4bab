------------------------------ MODULE Cs2Match ------------------------------
(***************************************************************************)
(* What the Counter-Strike plugin adds to a match day: the maps and veto   *)
(* formats it advertises, and the MatchZy config a game server loads, made *)
(* of the finished veto, the tournament's settings and the map catalog.    *)
(* Everything here is a function of its arguments; the veto they are       *)
(* applied to is the one of VetoSession.                                   *)
(* Source: portal-plugins/src/games/cs2/{mod,matchzy,console}.rs,          *)
(* portal-core/src/types/veto.rs, portal-api/src/game_server_flow.rs,      *)
(* portal-domain/src/services/game_server/setup.rs                         *)
(***************************************************************************)
EXTENDS VetoSession, Integers, TLC

-----------------------------------------------------------------------------
(* Maps and formats.                                                        *)

available_maps == {"de_dust2", "de_mirage", "de_inferno", "de_nuke", "de_ancient",
                   "de_anubis", "de_vertigo"}
default_map_pool == <<"de_dust2", "de_mirage", "de_inferno", "de_nuke", "de_ancient",
                      "de_anubis", "de_vertigo">>

PickBan(one, two, three) ==
    <<Step(1, one), Step(2, one), Step(1, two), Step(2, two), Step(1, three), Step(2, three),
      Step(0, "decider")>>

\* The sequences GET /v1/games shows, written out a second time beside those
\* of VetoFormatConfig.
map_pick_ban_formats ==
    [random   |-> << >>,
     bo1_veto |-> PickBan("ban", "ban", "ban"),
     bo3_veto |-> PickBan("ban", "pick", "ban"),
     bo5_veto |-> PickBan("ban", "pick", "pick"),
     bo7_veto |-> PickBan("pick", "pick", "pick")]

\* Games of a match format, at most.
MatchFormat == [Bo1 |-> 1, Bo3 |-> 3, Bo5 |-> 5, Bo7 |-> 7]
veto_formats == {"bo1_standard", "bo3_standard", "bo5_standard", "bo7_standard"}
default_veto_format ==
    [Bo1 |-> "bo1_standard", Bo3 |-> "bo3_standard", Bo5 |-> "bo5_standard",
     Bo7 |-> "bo7_standard"]

\* The table the veto service and the handlers look formats up in.
builtin ==
    [bo1_veto |-> bo1, bo1_standard |-> bo1, bo3_veto |-> bo3, bo3_standard |-> bo3,
     bo5_veto |-> bo5, bo5_standard |-> bo5, bo7_veto |-> bo7, bo7_standard |-> bo7,
     wheel_bo1 |-> wheel(1), wheel_bo3 |-> wheel(3), wheel_bo5 |-> wheel(5)]

\* Only the plugin's own formats have a smallest pool to test.
validate_map_pool_for_veto(maps, format) ==
    /\ maps \subseteq available_maps
    /\ format \in veto_formats => Cardinality(maps) >= 7

-----------------------------------------------------------------------------
(* The map list: names as MatchZy reads them.                               *)

\* A name is a word, a run of digits, or has characters neither the config
\* nor the console takes; an external id may be digits, a workshop link that
\* holds them, or neither.
CmWords == {"de_dust2", "de_cache_v2"}
CmDigits == {"3070"}
CmBad == {"de dust", ""}
CmNames == CmWords \cup CmDigits \cup CmBad
CmLinks == {"filedetails/?id=3070"}
CmExternals == CmDigits \cup CmLinks \cup {"filedetails", ""}

\* A catalog map: engine name and external id are optional.
CmMap == [id : CmNames, engine_name : {{}} \cup {{n} : n \in CmNames},
          external_id : {{}} \cup {{e} : e \in CmExternals}]

workshop_numeric_id(external) ==
    IF external \in CmDigits THEN {external} ELSE IF external \in CmLinks THEN {"3070"} ELSE {}

EngineName(map) == IF map.engine_name = {} THEN map.id ELSE CHOOSE n \in map.engine_name : TRUE

\* The token of a map, none when the config cannot be built.
matchzy_map_token(map) ==
    IF map.external_id # {}
    THEN UNION {workshop_numeric_id(e) : e \in map.external_id}
    ELSE {EngineName(map)} \ CmBad

\* MatchZy loads digits from the workshop and anything else by name.
Loads(token) == IF token \in CmDigits THEN <<"host_workshop_map", token>>
                                      ELSE <<"changelevel", token>>

\* The console's own translation of the same catalog map.
map_change_command(map) ==
    IF map.external_id # {}
    THEN {<<"host_workshop_map", w>> : w \in UNION {workshop_numeric_id(e) : e \in map.external_id}}
    ELSE {<<"changelevel", n>> : n \in {EngineName(map)} \ CmBad}

-----------------------------------------------------------------------------
(* The sides.                                                               *)

\* One token per selected map; a map nobody chose a side of, or whose side is
\* none of the game's, is a knife round.
derive_map_sides(selected, rows, team1) ==
    [i \in DOMAIN selected |->
        LET chosen == {r \in rows : r.map = selected[i] /\ r.side # None /\ r.selector # None}
        IN  IF chosen = {} THEN "knife"
            ELSE LET row == CHOOSE r \in chosen : TRUE
                 IN  CASE row.selector = team1 /\ row.side = "ct" -> "team1_ct"
                       [] row.selector = team1 /\ row.side = "t"  -> "team1_t"
                       [] row.selector # team1 /\ row.side = "ct" -> "team2_ct"
                       [] row.selector # team1 /\ row.side = "t"  -> "team2_t"
                       [] OTHER -> "knife"]

\* Who starts as counter-terrorists, if the token settles it.
StartsCT(token) ==
    IF token \in {"team1_ct", "team2_t"} THEN {"p1"}
    ELSE IF token \in {"team2_ct", "team1_t"} THEN {"p2"} ELSE {}

-----------------------------------------------------------------------------
(* The settings and the config.                                             *)

\* A number of the settings: absent, or one that need not make sense.
CmNumber == {{}} \cup {{n} : n \in {-1, 0, 2, 5, 16, 17}}
GameServerSettings == [players_per_team : CmNumber, min_players_to_ready : CmNumber]

\* The override if it is a team size at all, else the game's size, else 5.
PlayersPerTeam(settings, game_size) ==
    LET sizes == {n \in settings.players_per_team : n \in 1 .. 16}
    IN  CHOOSE n \in IF sizes # {} THEN sizes ELSE IF game_size # {} THEN game_size ELSE {5} : TRUE

\* Clamped to 1 .. players_per_team; a negative one counts as absent.
MinPlayersToReady(settings, size) ==
    LET asked == {n \in settings.min_players_to_ready : n >= 0}
    IN  IF asked = {} THEN size
        ELSE LET n == CHOOSE n \in asked : TRUE
             IN  IF n < 1 THEN 1 ELSE IF n > size THEN size ELSE n

\* Cvars by key: those of the portal, those of GOTV, and one of the game.
PortalOwned == {"sv_password", "rcon_password", "tv_password", "matchzy_remote_log_url",
                "matchzy_remote_backup_url", "matchzy_demo_upload_url"}
is_portal_owned_cvar(key) == key \in PortalOwned
CmKeys == PortalOwned \cup {"tv_delay", "tv_enable", "hostname", "mp_match_restart_delay",
                            "matchzy_kick_when_no_match_loaded"}

\* What the portal sets by itself: passwords, the event and backup webhooks,
\* match-only service, a delayed GOTV, and time to download workshop maps.
PortalCvars(gotv, workshop) ==
    [sv_password |-> "portal", hostname |-> "portal", matchzy_remote_log_url |-> "portal",
     matchzy_remote_backup_url |-> "portal", matchzy_kick_when_no_match_loaded |-> "true"]
    @@ (IF gotv THEN [tv_enable |-> "1", tv_delay |-> "105", tv_password |-> "portal"] ELSE << >>)
    @@ (IF workshop THEN [mp_match_restart_delay |-> "45"] ELSE << >>)

CmDelays == [d60 |-> 60, d120 |-> 120]

\* The tournament's cvars win, except the portal's own and a shorter delay.
Overrides(extra) ==
    [key \in {k \in DOMAIN extra :
                /\ ~is_portal_owned_cvar(k)
                /\ k = "tv_delay" => CmDelays[extra[k]] >= 105} |-> extra[key]]

Cvars(gotv, workshop, extra) == Overrides(extra) @@ PortalCvars(gotv, workshop)

\* What validate_input asks for before the config is sent.
validate_input(maplist, map_sides, players) ==
    /\ maplist # << >>
    /\ Len(map_sides) = Len(maplist)
    /\ \A team \in 1 .. 2 : players[team] # {}

\* A server is told the maps of the veto, the sides of each, and a team size.
build_matchzy_config(maplist, map_sides, settings, game_size) ==
    LET size == PlayersPerTeam(settings, game_size)
    IN  [num_maps |-> Len(maplist), maplist |-> maplist, map_sides |-> map_sides,
         skip_veto |-> TRUE, clinch_series |-> TRUE, players_per_team |-> size,
         min_players_to_ready |-> MinPlayersToReady(settings, size)]

-----------------------------------------------------------------------------
(* The game rows, one per map: created once, attributed on every build.     *)

ensure_match_games(games, maplist, rows) ==
    [n \in DOMAIN games \cup DOMAIN maplist |->
        LET row   == IF n \in DOMAIN games THEN games[n]
                     ELSE [map |-> maplist[n], picked_by |-> None, side_by |-> None]
            picks == IF n \notin DOMAIN maplist THEN {}
                     ELSE {r \in rows : r.map = maplist[n] /\ r.type # "ban"}
        IN  IF picks = {} THEN row
            ELSE LET pick == CHOOSE r \in picks : TRUE
                 IN  [row EXCEPT !.picked_by = IF pick.by = None THEN @ ELSE pick.by,
                                 !.side_by = IF pick.selector = None THEN @ ELSE pick.selector]]

-----------------------------------------------------------------------------
(* Properties.                                                              *)

\* The formats of a game are written down three times: what the catalogue
\* shows, what a match format defaults to and what the veto service looks
\* up.  They are the same sequences, play the games the match format says,
\* let the two teams act in turn, and the default pool is large enough.
FormatsAgree ==
    /\ \A f \in DOMAIN map_pick_ban_formats \ {"random"} : builtin[f] = map_pick_ban_formats[f]
    /\ veto_formats \subseteq DOMAIN builtin
    /\ \A m \in DOMAIN MatchFormat :
           /\ maps_selected(builtin[default_veto_format[m]]) = MatchFormat[m]
           /\ validate_map_pool_for_veto({default_map_pool[i] : i \in DOMAIN default_map_pool},
                                         default_veto_format[m])
    /\ \A f \in DOMAIN builtin : Len(builtin[f]) <= Len(default_map_pool)

\* Whether a match or an admin at the console loads a map of the catalog, the
\* server runs the same command, and where one refuses the other does.  (A
\* map whose name is a run of digits and that is not from the workshop is the
\* exception: the config's token reads as a workshop id.)
ConfigAndConsoleAgree ==
    \A map \in CmMap :
        map.external_id # {} \/ EngineName(map) \notin CmDigits =>
            {Loads(t) : t \in matchzy_map_token(map)} = map_change_command(map)

\* Whatever the tournament's settings and the game row hold, a team can be
\* filled and can get ready, and the cvars of the portal stay the portal's.
SettingsStayInBounds ==
    /\ \A s \in GameServerSettings, size \in {{}, {1}, {5}} :
           LET config == build_matchzy_config(<<1>>, <<"knife">>, s, size)
           IN  /\ config.players_per_team \in 1 .. 16
               /\ config.min_players_to_ready \in 1 .. config.players_per_team
    /\ \A gotv, workshop \in BOOLEAN, keys \in SUBSET CmKeys, delay \in DOMAIN CmDelays :
           LET extra == [k \in keys |-> IF k = "tv_delay" THEN delay ELSE "tournament"]
               cvars == Cvars(gotv, workshop, extra)
           IN  /\ \A k \in DOMAIN cvars \cap PortalOwned : cvars[k] = "portal"
               /\ gotv => cvars.tv_delay # "d60"
               /\ \A k \in keys : k \notin PortalOwned \cup {"tv_delay"} => cvars[k] = "tournament"

\* A side is chosen by the picker's opponent, or drawn: then it counts as the
\* picker's, and a wheel's as participant 1's or the first to act.
SideSelector(row) ==
    IF row.side = None THEN None
    ELSE IF veto.mode = "picker_choice" THEN OtherSide(row.by)
    ELSE IF row.by # None THEN row.by
    ELSE IF veto.first # None THEN veto.first ELSE "p1"

CmRows ==
    {[map |-> vetoActions[n].map, type |-> vetoActions[n].type, by |-> vetoActions[n].by,
      side |-> vetoActions[n].side, selector |-> SideSelector(vetoActions[n])] :
        n \in {i \in ActionNumbers : vetoActions[i] # NoAction}}

\* When a veto has ended, the config made of it passes the validation, lists
\* each map with its side, and every team starts on the side that was chosen
\* for it, by the picker's opponent or by lot; the game rows say who picked
\* which map, and a second build (a retried load) leaves them as they are.
ServerPlaysTheVeto ==
    veto # NoSession /\ veto.status = "completed" /\ Quiescent =>
        LET sides == derive_map_sides(veto.selected, CmRows, "p1")
            games == ensure_match_games(<< >>, veto.selected, CmRows)
        IN  /\ validate_input(veto.selected, sides, <<{"a"}, {"b"}>>)
            /\ \A i \in DOMAIN sides, r \in CmRows :
                   r.map = veto.selected[i] =>
                       /\ games[i].map = r.map /\ games[i].picked_by = r.by
                       /\ IF r.side = None THEN sides[i] = "knife"
                          ELSE StartsCT(sides[i]) =
                                   {IF r.side = "ct" THEN r.selector ELSE OtherSide(r.selector)}
            /\ ensure_match_games(games, veto.selected, CmRows) = games

\* The server is told what the plugin, the settings and the veto say.
ConfigIsSound ==
    FormatsAgree /\ ConfigAndConsoleAgree /\ SettingsStayInBounds /\ ServerPlaysTheVeto

=============================================================================
