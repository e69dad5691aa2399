-------------------------------- MODULE Gui --------------------------------
(***************************************************************************)
(* The game as a graphical client sees it: the server's _broadcastGUI, the *)
(* _emit and _send functions and _handleGUICommand put lines into a GUI    *)
(* client's stream as the world of World.tla changes, and the client works *)
(* them off into its mirror of the game (GuiProtocol.tla).                 *)
(*                                                                         *)
(* A step is one thing the server does to the world together with all it   *)
(* says about it, in the order in which it says it, or the client's        *)
(* handling of one line.  Buffers and sockets keep lines in order          *)
(* (Link.tla), so the stream is one sequence here.  The lines that go to   *)
(* AI clients are in Server.tla and Bot.tla.                               *)
(***************************************************************************)
EXTENDS World, SequencesExt

CONSTANTS
  Frequency,        \* the time units sst may ask for; all positive
  FirstFrequency,   \* the time unit the server is started with
  MaxWire,          \* a bound of the model: lines under way while the server acts
  MaxEggs,          \* a bound of the model: eggs ever laid
  MaxStones         \* a bound of the model: no respawn beyond this many of a kind

ASSUME GuiAssumption ==
  FirstFrequency \in Frequency /\ Frequency \subseteq Nat \ {0} /\ MaxEggs \in Nat

VARIABLES
  connected,        \* the client has said GRAPHIC and been greeted
  wire,             \* the lines on their way to it
  view,             \* its GameState
  freq,             \* _cfg.freq
  performing,       \* the tile each player has started the ritual it is in on
  strays,           \* history: tiles of rituals that were never ended where they began
  quit,             \* history: players that hung up under the client's eyes
  said,             \* history: what each player said since the client knows of it
  unseen            \* history: what has changed without the client being told

streamVars  == <<connected, wire, view>>
historyVars == <<strays, quit, said, unseen>>
guiVars     == <<worldVars, streamVars, freq, performing, historyVars>>

INSTANCE GuiProtocol

NoTile == <<>>

(* The facts about a player that lines are about, and the time unit. *)
At(p)        == <<p, "at">>
Facing(p)    == <<p, "facing">>
Inventory(p) == <<p, "inventory">>
TimeUnit     == <<"server", "freq">>

-----------------------------------------------------------------------------
(* _broadcastGUI, and what that leaves the client ignorant of. *)
broadcastGUI(lines) == wire' = IF connected THEN wire \o lines ELSE wire

Informs(facts) == unseen' = unseen \ facts
Conceals(facts) == unseen' = IF connected THEN unseen \cup facts ELSE unseen

Orientation(d) ==
  CASE d = "UP" -> 1 [] d = "RIGHT" -> 2 [] d = "DOWN" -> 3 [] d = "LEFT" -> 4

(* One line for each member of S, in any order: clients sit in an unordered_map, *)
(* teams in the order of the command line.                                       *)
Lines(S, line(_)) == {[k \in DOMAIN s |-> line(s[k])] : s \in SetToSeqs(S)}

(* What the lines about a tile and about a player say, from the tile and the *)
(* player as they are.                                                       *)
tileQuantities(t) == bct(t, stones[t])
playerQuantities(p) == pin(p, pos[p], inv[p])
playerInfo(p) == pnw(p, pos[p], Orientation(dir[p]), lvl[p], team[p])

mapTiles ==
  [k \in 1 .. Width * Height |-> tileQuantities(<<(k - 1) % Width, (k - 1) \div Width>>)]

sendTeams   == Lines(Teams, tna)
sendPlayers == Lines({p \in Players : InPlay(p)}, playerInfo)
sendEggs    == LET all == SetToSeq(eggs) IN
  [k \in DOMAIN all |-> enw(all[k].id, Nobody, all[k].tile)]

-----------------------------------------------------------------------------
GuiInit ==
  /\ WorldInit
  /\ connected = FALSE
  /\ wire = <<>>
  /\ view = NewGameState
  /\ freq = FirstFrequency
  /\ performing = [p \in Players |-> NoTile]
  /\ strays = {} /\ quit = {} /\ unseen = {}
  /\ said = [p \in Players |-> 0]

(* sendInitialState in which the tiles come before the size of the map. *)
sendTilesFirst ==
  \E teams \in sendTeams, players \in sendPlayers :
    wire' = mapTiles \o <<msz(Width, Height), sgt(freq)>> \o teams
              \o players \o sendEggs

(* _sendInitialState: the GUI is told how things are; inventories are not said. *)
sendInitialState ==
  \E teams \in sendTeams, players \in sendPlayers :
    wire' = <<msz(Width, Height), sgt(freq)>> \o teams \o mapTiles
              \o players \o sendEggs

Connect ==
  /\ ~connected
  /\ connected' = TRUE
  /\ sendInitialState
  /\ unseen' = {Inventory(p) : p \in {q \in Players : InPlay(q) /\ inv[q] # NoStones}}
  /\ said' = [p \in Players |-> 0]
  /\ UNCHANGED <<worldVars, view, freq, performing, strays, quit>>

(* The client handles one line. *)
Deliver ==
  /\ wire # <<>>
  /\ view' = handleLine(view, Head(wire))
  /\ wire' = Tail(wire)
  /\ UNCHANGED <<worldVars, connected, freq, performing, historyVars>>

-----------------------------------------------------------------------------
(* The server's side: a player whose ritual is under way does nothing else. *)
Free(p) == performing[p] = NoTile

Quiet == UNCHANGED <<connected, view, freq, performing, strays, quit, said>>

(* _assignClientToTeam: the egg is gone, and a player is there. *)
Joins(p) ==
  /\ Hatch(p)
  /\ \E e \in eggs \ eggs' :
       broadcastGUI(<<ebo(e.id), playerInfo(p)'>>)
  /\ Informs({}) /\ Quiet

(* _emitAfterCommand, for forward, left and right... *)
Moves(p) ==
  /\ Free(p) /\ (Step(p) \/ Turn(p))
  /\ broadcastGUI(<<ppo(p, pos'[p], Orientation(dir'[p]))>>)
  /\ Informs({At(p), Facing(p)}) /\ Quiet

(* ...for take and set... *)
emitStones(p, line) ==
  /\ broadcastGUI(<<line, tileQuantities(pos[p])', playerQuantities(p)'>>)
  /\ Informs({At(p), Inventory(p)}) /\ Quiet

Takes(p) ==
  /\ Free(p) /\ InPlay(p)
  /\ \E r \in Resource : take(p, r) /\ emitStones(p, pgt(p, r))

Drops(p) ==
  /\ Free(p) /\ InPlay(p)
  /\ \E r \in Resource : set(p, r) /\ emitStones(p, pdr(p, r))

(* ...and for fork: the last egg of the tile is the new one. *)
Lays(p) ==
  /\ Free(p) /\ nextEgg < MaxEggs /\ Fork(p)
  /\ broadcastGUI(<<pfk(p), enw(nextEgg, p, pos[p])>>)
  /\ Informs({}) /\ Quiet

(* _broadcastSound. *)
Speaks(p) ==
  /\ Free(p) /\ InPlay(p)
  /\ broadcastGUI(<<pbc(p)>>)
  /\ said' = IF connected THEN [said EXCEPT ![p] = @ + 1] ELSE said
  /\ Informs({})
  /\ UNCHANGED <<worldVars, connected, view, freq, performing, strays, quit>>

(* ejectFanout that announces the players only. *)
ejectPlayers(p) == \E pushed \in Lines(TileMates(p), pex) : broadcastGUI(pushed)

(* _ejectFanout: who is pushed, not where to; and the eggs that are lost. *)
ejectFanout(p) ==
  LET lost == SetToSeq({e.id : e \in eggs \ eggs'}) IN
  \E pushed \in Lines(TileMates(p), pex) :
    broadcastGUI(pushed \o [k \in DOMAIN lost |-> edi(lost[k])])

Pushes(p) ==
  /\ Free(p) /\ Eject(p)
  /\ ejectFanout(p)
  /\ Conceals({At(q) : q \in TileMates(p)} \cup {Facing(q) : q \in TileMates(p)})
  /\ Quiet

(* _startIncantation. *)
StartsRitual(p) ==
  /\ Free(p) /\ ~frozen[p] /\ Start(p)
  /\ performing' = [performing EXCEPT ![p] = pos[p]]
  /\ broadcastGUI(<<pic(pos[p], lvl[p], Peers(p))>>)
  /\ UNCHANGED <<connected, view, freq, historyVars>>

(* A tile whose ritual ends elsewhere, or not at all. *)
Stray(S) == {performing[p] : p \in S} \ {NoTile}

(* finishLines that announces the new level of the performer only. *)
finishLinesAlone(p) ==
  IF canElevate(p)
    THEN {<<plv(p, lvl'[p]), pie(pos[p], TRUE), tileQuantities(pos[p])'>>}
    ELSE {<<pie(pos[p], FALSE)>>}

(* _finishIncantation: the end is announced where the player now is. *)
finishLines(p) ==
  IF canElevate(p)
    THEN {risen \o <<pie(pos[p], TRUE), tileQuantities(pos[p])'>> :
            risen \in Lines(Peers(p), LAMBDA q : plv(q, lvl'[q]))}
    ELSE {<<pie(pos[p], FALSE)>>}

EndsRitual(p) ==
  /\ ~Free(p) /\ Finish(p)
  /\ performing' = [performing EXCEPT ![p] = NoTile]
  /\ strays' = (strays \cup Stray({p})) \ {pos[p]}
  /\ \E lines \in finishLines(p) : broadcastGUI(lines)
  /\ UNCHANGED <<connected, view, freq, quit, said, unseen>>

(* The rituals of players that are gone are not ended. *)
Abandon(S) ==
  /\ performing' = [p \in Players |-> IF p \in S THEN NoTile ELSE performing[p]]
  /\ strays' = strays \cup Stray(S)

(* _tickWorld and _handleDeaths. *)
Lives ==
  /\ Age
  /\ LET dead == {p \in Players : life[p] > 0 /\ life'[p] = 0} IN
       /\ Abandon(dead)
       /\ \E lines \in Lines(dead, pdi) : broadcastGUI(lines)
  /\ UNCHANGED <<connected, view, freq, quit, said, unseen>>

(* _tickWorld: when resources have come, all tiles are sent. *)
Regrows ==
  /\ AtMost(MaxStones) /\ Respawn
  /\ broadcastGUI(mapTiles')
  /\ Informs({}) /\ Quiet

(* _disconnectClient: the GUIs are not told. *)
HangsUp(p) ==
  /\ Leave(p)
  /\ Abandon({p})
  /\ quit' = IF connected THEN quit \cup {p} ELSE quit
  /\ UNCHANGED <<streamVars, freq, said, unseen>>

-----------------------------------------------------------------------------
(* _handleGUICommand: the answers to what this client may ask. *)
Reply(lines) ==
  /\ connected
  /\ wire' = wire \o lines
  /\ UNCHANGED <<worldVars, connected, view, freq, performing, strays, quit, said>>

(* sgt, tna, bct of a tile on the map or off it, mct. *)
AskWorld ==
  /\ \/ \E lines \in sendTeams \cup {mapTiles, <<sbp>>} : Reply(lines) /\ Informs({})
     \/ \E t \in Tile : Reply(<<tileQuantities(t)>>) /\ Informs({})
     \/ Reply(<<sgt(freq)>>) /\ Informs({TimeUnit})

(* _clientByPlayerId: the players with a client are those on the map. *)
clientByPlayerId(p) == InPlay(p)

(* ppo, plv and pin, of a player with a client; of any other nothing is said. *)
handleGUIPlayerQuery(p) ==
  /\ clientByPlayerId(p)
  /\ \/ Reply(<<ppo(p, pos[p], Orientation(dir[p]))>>) /\ Informs({At(p), Facing(p)})
     \/ Reply(<<plv(p, lvl[p])>>) /\ Informs({})
     \/ Reply(<<playerQuantities(p)>>) /\ Informs({At(p), Inventory(p)})

(* sst, from this client or from another: only who asks is told. *)
guiSetTimeUnit ==
  \E f \in Frequency :
    /\ freq' = f
    /\ \/ connected /\ wire' = wire \o <<sst(f)>> /\ Informs({TimeUnit})
       \/ wire' = wire /\ Conceals({TimeUnit})
    /\ UNCHANGED <<worldVars, connected, view, performing, strays, quit, said>>

(* What the server does to the game, and for this client or another one. *)
GameStep ==
  \/ \E p \in Players :
       \/ Joins(p) \/ Moves(p) \/ Takes(p) \/ Drops(p) \/ Lays(p) \/ Pushes(p) \/ Speaks(p)
       \/ StartsRitual(p) \/ EndsRitual(p) \/ HangsUp(p)
  \/ Lives \/ Regrows

GUICommand == AskWorld \/ guiSetTimeUnit \/ \E p \in Players : handleGUIPlayerQuery(p)

GuiNext ==
  \/ Len(wire) < MaxWire /\ (GameStep \/ GUICommand)
  \/ Connect
  \/ Deliver

GuiSpec == GuiInit /\ [][GuiNext]_guiVars

-----------------------------------------------------------------------------
(* What a mirror has become once the client has handled lines. *)
After(mirrored, lines) ==
  LET handled[n \in 0 .. Len(lines)] ==
        IF n = 0 THEN mirrored ELSE handleLine(handled[n - 1], lines[n])
  IN  handled[Len(lines)]

(* The mirror once the client has handled all that is on its way. *)
Final == After(view, wire)

(***************************************************************************)
(* The caught-up mirror shows every player on the map, with its team and   *)
(* its level, has counted all it has said, and is wrong about where it is, *)
(* where it looks, what it holds and how fast time runs only in what the   *)
(* server never told it: the place an ejected player was pushed to, what   *)
(* players held when the client connected, and a frequency another client  *)
(* has set.                                                                *)
(***************************************************************************)
PlayersShown ==
  connected =>
    LET seen == Final IN
    /\ TimeUnit \notin unseen => seen.timeUnit = freq
    /\ \A p \in Players : InPlay(p) =>
         /\ p \in DOMAIN seen.players
         /\ LET shown == seen.players[p] IN
              /\ shown.team = team[p] /\ shown.level = lvl[p]
              /\ shown.broadcastVersion = said[p]
              /\ At(p) \notin unseen => shown.at = pos[p]
              /\ Facing(p) \notin unseen => shown.orientation = Orientation(dir[p])
              /\ Inventory(p) \notin unseen => shown.inventory = inv[p]

(***************************************************************************)
(* The caught-up mirror shows nobody but the players on the map and those  *)
(* that hung up while the client was connected, which are never taken off  *)
(* it: _disconnectClient says nothing to the GUIs, only a death does.      *)
(***************************************************************************)
NobodyElseShown ==
  connected => DOMAIN Final.players \subseteq {p \in Players : InPlay(p)} \cup quit

(***************************************************************************)
(* A ritual shown on a tile is under way, unless the one who performed it  *)
(* was pushed off the tile, died or hung up: its end is announced where    *)
(* the performer is when it ends, and not at all when it is gone.          *)
(***************************************************************************)
RitualsShown ==
  \A i \in Final.incantations :
    i.at \in strays \/ \E p \in Players : performing[p] = i.at

(***************************************************************************)
(* The handlers ignore lines about players and tiles they do not know.  No *)
(* such line ever comes: the greeting and the events keep to an order in   *)
(* which whatever a line is about has been announced before.               *)
(***************************************************************************)
NothingIgnored ==
  wire # <<>> =>
    LET l == Head(wire) IN
    /\ l.cmd \in {"ppo", "plv", "pin", "pdi"} => l.player \in DOMAIN view.players
    /\ l.cmd = "bct" => l.at \in DOMAIN view.tiles
    /\ l.cmd \in {"ebo", "edi"} => l.egg \in DOMAIN view.eggs
    /\ l.cmd \in {"pnw", "enw"} => l.at \in DOMAIN view.tiles

-----------------------------------------------------------------------------
(***************************************************************************)
(* The mirror is a replica of the game.  Of a player that hung up the      *)
(* client keeps the last level for ever; it is the truth about the players *)
(* the client can see.                                                     *)
(***************************************************************************)
Unknown == <<"none">>

Item ==
  ({"stones"} \X Tile) \cup ({"egg"} \X (0 .. MaxEggs - 1)) \cup ({"level"} \X Players)

Value ==
  ({"stones"} \X [Resource -> Nat]) \cup ({"at"} \X Tile)
    \cup ({"level"} \X (1 .. MaxLevel)) \cup {Unknown}

EggAt(i) == LET e == CHOOSE e \in eggs : e.id = i IN e.tile

gameTruth ==
  [i \in Item |->
     CASE i[1] = "stones" -> <<"stones", stones[i[2]]>>
       [] i[1] = "egg"    -> IF \E e \in eggs : e.id = i[2]
                               THEN <<"at", EggAt(i[2])>> ELSE Unknown
       [] i[1] = "level"  -> IF InPlay(i[2]) \/ i[2] \in quit
                               THEN <<"level", lvl[i[2]]>> ELSE Unknown]

shownIn(seen, i) ==
  CASE i[1] = "stones" -> <<"stones", IF i[2] \in DOMAIN seen.tiles
                                        THEN seen.tiles[i[2]] ELSE NoStones>>
    [] i[1] = "egg"    -> IF i[2] \in DOMAIN seen.eggs
                            THEN <<"at", seen.eggs[i[2]].at>> ELSE Unknown
    [] i[1] = "level"  -> IF i[2] \in DOMAIN seen.players
                            THEN <<"level", seen.players[i[2]].level>> ELSE Unknown

mirror == [i \in Item |-> shownIn(view, i)]

(* What a line says, as an update of the replica. *)
Meaning(l) ==
  [i \in Item |->
     CASE l.cmd = "msz" /\ i[1] = "stones"                     -> {<<"stones", NoStones>>}
       [] l.cmd = "bct" /\ i = <<"stones", l.at>>              -> {<<"stones", l.stones>>}
       [] l.cmd = "enw" /\ i = <<"egg", l.egg>>                -> {<<"at", l.at>>}
       [] l.cmd \in {"ebo", "edi"} /\ i = <<"egg", l.egg>>     -> {Unknown}
       [] l.cmd \in {"pnw", "plv"} /\ i = <<"level", l.player>> -> {<<"level", l.level>>}
       [] l.cmd = "pdi" /\ i = <<"level", l.player>>           -> {Unknown}
       [] OTHER                                                -> {}]

meanings == [k \in DOMAIN wire |-> Meaning(wire[k])]

R == INSTANCE Replica WITH truth <- gameTruth, live <- connected,
       log <- meanings, copy <- mirror

(***************************************************************************)
(* The event stream keeps a replica: every change of a tile, an egg or a   *)
(* level is announced in the step in which it happens, the greeting leaves *)
(* none out, and the handlers take in exactly what the lines say.          *)
(***************************************************************************)
KeepsReplica == R!Spec
=============================================================================
