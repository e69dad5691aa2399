---------------------------- MODULE GuiProtocol ----------------------------
(***************************************************************************)
(* The language the server speaks to its graphical clients, and what such  *)
(* a client makes of it: the lines of protocol::Protocol and the handlers  *)
(* of gui::GUIProtocolHandler, which keep a mirror of the game, the        *)
(* GameState, up to date.                                                  *)
(*                                                                         *)
(* A line is a record; cmd is its first word.  What only ends up as text   *)
(* on the screen (the log, lastAction, lastServerMessage, what broadcasts  *)
(* say) is left out, so the handlers of the commands that change nothing   *)
(* else leave the state as it is.  An id that is no number, and a line     *)
(* that ends too early, do not come from this server.                      *)
(***************************************************************************)
EXTENDS Integers, Sequences, Functions

CONSTANT Resource

(* What GameState is before the first line. *)
NoStones == [r \in Resource |-> 0]
NewGameState ==
  [width |-> 0, height |-> 0, timeUnit |-> 0, totalDeaths |-> 0,
   teams |-> {}, tiles |-> <<>>, players |-> <<>>, eggs |-> <<>>,
   incantations |-> {}, winningTeam |-> ""]

(* The player an egg of the first greeting is said to be laid by. *)
Nobody == "-1"

-----------------------------------------------------------------------------
(* The lines. *)
msz(w, h)       == [cmd |-> "msz", width |-> w, height |-> h]
bct(t, q)       == [cmd |-> "bct", at |-> t, stones |-> q]
tna(name)       == [cmd |-> "tna", team |-> name]
sgt(f)          == [cmd |-> "sgt", freq |-> f]
sst(f)          == [cmd |-> "sst", freq |-> f]
pnw(n, t, o, l, name) ==
  [cmd |-> "pnw", player |-> n, at |-> t, orientation |-> o, level |-> l, team |-> name]
ppo(n, t, o)    == [cmd |-> "ppo", player |-> n, at |-> t, orientation |-> o]
plv(n, l)       == [cmd |-> "plv", player |-> n, level |-> l]
pin(n, t, q)    == [cmd |-> "pin", player |-> n, at |-> t, stones |-> q]
pex(n)          == [cmd |-> "pex", player |-> n]
pbc(n)          == [cmd |-> "pbc", player |-> n]
pic(t, l, S)    == [cmd |-> "pic", at |-> t, level |-> l, players |-> S]
pie(t, success) == [cmd |-> "pie", at |-> t, success |-> success]
pfk(n)          == [cmd |-> "pfk", player |-> n]
pdr(n, r)       == [cmd |-> "pdr", player |-> n, resource |-> r]
pgt(n, r)       == [cmd |-> "pgt", player |-> n, resource |-> r]
pdi(n)          == [cmd |-> "pdi", player |-> n]
enw(e, n, t)    == [cmd |-> "enw", egg |-> e, player |-> n, at |-> t]
ebo(e)          == [cmd |-> "ebo", egg |-> e]
edi(e)          == [cmd |-> "edi", egg |-> e]
seg(name)       == [cmd |-> "seg", team |-> name]
sbp             == [cmd |-> "sbp"]

-----------------------------------------------------------------------------
(* The handlers: the GameState that follows s when line l is handled. *)

(* The size also clears every tile. *)
handleMsz(s, l) ==
  [s EXCEPT !.width = l.width, !.height = l.height,
            !.tiles = [t \in (0 .. l.width - 1) \X (0 .. l.height - 1) |-> NoStones]]

(* A tile outside the map as the GUI knows it is ignored. *)
handleBct(s, l) ==
  IF l.at \in DOMAIN s.tiles THEN [s EXCEPT !.tiles[l.at] = l.stones] ELSE s

handleTna(s, l) == [s EXCEPT !.teams = @ \cup {l.team}]

(* What a map holds once f[x] has been set, whether or not it had an x. *)
Put(f, x, v) == [y \in DOMAIN f \cup {x} |-> IF y = x THEN v ELSE f[y]]

Show(s, n, player) == [s EXCEPT !.players = Put(@, n, player)]

(* A new player, or everything there is to know anew about one of that id. *)
handlePnw(s, l) ==
  Show(s, l.player,
       [at |-> l.at, orientation |-> l.orientation, level |-> l.level,
        team |-> l.team, inventory |-> NoStones, broadcastVersion |-> 0])

(* What is said of a player the GUI does not know is ignored. *)
handlePpo(s, l) ==
  IF l.player \notin DOMAIN s.players THEN s
  ELSE Show(s, l.player, [s.players[l.player] EXCEPT !.at = l.at,
                                                     !.orientation = l.orientation])

handlePlv(s, l) ==
  IF l.player \notin DOMAIN s.players THEN s
  ELSE Show(s, l.player, [s.players[l.player] EXCEPT !.level = l.level])

handlePin(s, l) ==
  IF l.player \notin DOMAIN s.players THEN s
  ELSE Show(s, l.player, [s.players[l.player] EXCEPT !.at = l.at,
                                                     !.inventory = l.stones])

(* The screen shows a player speaking when the count has changed. *)
handlePbc(s, l) ==
  IF l.player \notin DOMAIN s.players THEN s
  ELSE Show(s, l.player, [s.players[l.player] EXCEPT !.broadcastVersion = @ + 1])

handlePic(s, l) ==
  [s EXCEPT !.incantations =
     @ \cup {[at |-> l.at, level |-> l.level, players |-> l.players]}]

(* handlePie, in which the comparison is the wrong way round. *)
handlePieElsewhere(s, l) == [s EXCEPT !.incantations = {i \in @ : i.at = l.at}]

(* The end of one ritual takes all those shown on the tile away. *)
handlePie(s, l) == [s EXCEPT !.incantations = {i \in @ : i.at # l.at}]

(* handlePdi, in which the player stays on the screen. *)
countDeath(s, l) == [s EXCEPT !.totalDeaths = @ + 1]

handlePdi(s, l) ==
  [s EXCEPT !.players = Restrict(@, DOMAIN @ \ {l.player}), !.totalDeaths = @ + 1]

handleEnw(s, l) ==
  [s EXCEPT !.eggs = Put(@, l.egg, [player |-> l.player, at |-> l.at])]

handleEbo(s, l) == [s EXCEPT !.eggs = Restrict(@, DOMAIN @ \ {l.egg})]
handleEdi(s, l) == [s EXCEPT !.eggs = Restrict(@, DOMAIN @ \ {l.egg})]

handleSgt(s, l) == [s EXCEPT !.timeUnit = l.freq]
handleSst(s, l) == [s EXCEPT !.timeUnit = l.freq]

handleSeg(s, l) == [s EXCEPT !.winningTeam = l.team]

handleLine(s, l) ==
  CASE l.cmd = "msz" -> handleMsz(s, l)
    [] l.cmd = "bct" -> handleBct(s, l)
    [] l.cmd = "tna" -> handleTna(s, l)
    [] l.cmd = "pnw" -> handlePnw(s, l)
    [] l.cmd = "ppo" -> handlePpo(s, l)
    [] l.cmd = "plv" -> handlePlv(s, l)
    [] l.cmd = "pin" -> handlePin(s, l)
    [] l.cmd = "pbc" -> handlePbc(s, l)
    [] l.cmd = "pic" -> handlePic(s, l)
    [] l.cmd = "pie" -> handlePie(s, l)
    [] l.cmd = "pdi" -> handlePdi(s, l)
    [] l.cmd = "enw" -> handleEnw(s, l)
    [] l.cmd = "ebo" -> handleEbo(s, l)
    [] l.cmd = "edi" -> handleEdi(s, l)
    [] l.cmd = "sgt" -> handleSgt(s, l)
    [] l.cmd = "sst" -> handleSst(s, l)
    [] l.cmd = "seg" -> handleSeg(s, l)
    [] OTHER         -> s
=============================================================================
