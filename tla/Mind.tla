-------------------------------- MODULE Mind --------------------------------
(***************************************************************************)
(* What a bot (bonus/ai) believes and decides, against where its player    *)
(* really is.  The server tells a client neither its place nor its         *)
(* direction: the bot counts its own steps and turns on a map of its own,  *)
(* on which it starts at (0, 0) facing 0, and writes down there what it    *)
(* sees.  Every turn the tree of its role decides on one command from      *)
(* that; Bot.tla has the queue and the lines in between.                   *)
(*                                                                         *)
(* The role is left open: the learnt policy (rl_policy) may choose any in  *)
(* any state.  So are the calls it has heard (TeamKnowledge), how many     *)
(* players stand with it, and which of the two polls is due.  Its level    *)
(* stays as it is: a level decides the size of the view and the stones     *)
(* that are wanted, which are constants here.  A stone is wanted once, and *)
(* lies at most once on a tile; on a map larger than the view no tile is   *)
(* seen twice at a time.                                                   *)
(***************************************************************************)
EXTENDS Torus, FiniteSets

CONSTANTS
  Level,            \* the bot's level
  Wanted,           \* the stones an elevation from this level needs
  Poll,             \* every so many turns the bot polls
  MaxMeddling       \* a bound of the model: things others do

ASSUME MindAssumption ==
  /\ Level \in Nat \ {0} /\ Poll \in Nat \ {0} /\ MaxMeddling \in Nat
  /\ Width > 2 * Level /\ Height > 2 * Level
  /\ "food" \notin Wanted

Object == Wanted \cup {"food"}

VARIABLES
  at, facing,       \* the player's tile and direction
  ground,           \* what lies on each tile
  carried,          \* how many of each object the player carries
  command,          \* the command in flight
  answer,           \* its answer, on its way to the bot: <<>> or of length one
  bot,              \* the bot's own state
  hatched,          \* the direction in which the player started, at <<0, 0>>
  alone,            \* whether it is a hungry bot that nobody interferes with
  meddling          \* things others have done

vars == <<at, facing, ground, carried, command, answer, bot, hatched, alone, meddling>>

(* A command; Nothing is a turn that sends none. *)
Command(verb, object) == [verb |-> verb, object |-> object]
Nothing == Command("none", "none")

-----------------------------------------------------------------------------
(***************************************************************************)
(* The mental map.  A place on it is a pair, a direction a number.         *)
(***************************************************************************)
FORWARD_VECTORS == <<<<0, -1>>, <<1, 0>>, <<0, 1>>, <<-1, 0>>>>
RIGHT_VECTORS   == <<<<1, 0>>, <<0, 1>>, <<-1, 0>>, <<0, -1>>>>

ForwardVector(b) == FORWARD_VECTORS[b.dir + 1]
RightVector(b)   == RIGHT_VECTORS[b.dir + 1]

(* The place that is so far ahead and to the right, right mistaken for left. *)
offsetMirrored(b, forward, lateral) ==
  <<(b.pos[1] + forward * ForwardVector(b)[1] - lateral * RightVector(b)[1]) % Width,
    (b.pos[2] + forward * ForwardVector(b)[2] - lateral * RightVector(b)[2]) % Height>>

absolute_offset(b, forward, lateral) ==
  <<(b.pos[1] + forward * ForwardVector(b)[1] + lateral * RightVector(b)[1]) % Width,
    (b.pos[2] + forward * ForwardVector(b)[2] + lateral * RightVector(b)[2]) % Height>>

axis_delta(current, target, size) ==
  LET delta == (target - current) % size
  IN  IF delta > size \div 2 THEN delta - size ELSE delta

Delta(b, p) == <<axis_delta(b.pos[1], p[1], Width), axis_delta(b.pos[2], p[2], Height)>>

Dot(u, v) == u[1] * v[1] + u[2] * v[2]

heading_to(b, p) == <<Dot(Delta(b, p), ForwardVector(b)), Dot(Delta(b, p), RightVector(b))>>

Abs(n) == IF n < 0 THEN -n ELSE n

Distance(b, p) == Abs(Delta(b, p)[1]) + Abs(Delta(b, p)[2])

Nearest(b, places) == {p \in places : \A q \in places : Distance(b, p) <= Distance(b, q)}

(* nearest_known that does not leave out the bot's own place. *)
nearestAnywhere(b, object) == Nearest(b, {p \in Tile : object \in b.known[p]})

(* Of several that are as near, the one noted first; any, here. *)
nearest_known(b, object) == Nearest(b, {p \in Tile \ {b.pos} : object \in b.known[p]})

-----------------------------------------------------------------------------
(***************************************************************************)
(* Decisions.  A node of a tree is the set of its outcomes: what is sent,  *)
(* with the bot as the node leaves it.  The node that comes after a        *)
(* condition that does not hold has none, and a selector goes on to the    *)
(* next.  The only other failure is _step_towards, in the last node of its *)
(* trees: it is an outcome that sends nothing.                             *)
(***************************************************************************)
send(b, verb, object) == {[bot |-> b, command |-> Command(verb, object)]}
say(b, verb) == send(b, verb, "none")

selector(first, second) == IF first # {} THEN first ELSE second
sequence(condition, node) == IF condition THEN node ELSE {}

Blind(b) == [b EXCEPT !.look = <<>>]
Looked(b) == b.look # <<>>
LiesHere(b, object) == Looked(b) /\ object \in b.look[1].seen[<<0, 0>>]

sendNothing(b) == send(b, "none", "none")

(* _step_towards that does not remember to go forward after it has turned. *)
stepAndForget(b, forward, lateral) ==
  IF forward = 0 /\ lateral = 0 THEN sendNothing(b)
  ELSE IF Abs(lateral) < forward THEN say(b, "Forward")
  ELSE say(b, IF lateral < 0 THEN "Left" ELSE "Right")

step_towards(b, forward, lateral) ==
  IF forward = 0 /\ lateral = 0 THEN sendNothing(b)
  ELSE IF Abs(lateral) < forward THEN say(b, "Forward")
  ELSE say([b EXCEPT !.nav_force_forward = TRUE], IF lateral < 0 THEN "Left" ELSE "Right")

forceForward(b) == say([b EXCEPT !.nav_force_forward = FALSE], "Forward")

(* The nearest row, then the nearest column, then from the left. *)
nearest_tile(cells) ==
  CHOOSE c \in cells : \A d \in cells :
    \/ c[1] < d[1]
    \/ c[1] = d[1] /\ Abs(c[2]) < Abs(d[2])
    \/ c[1] = d[1] /\ Abs(c[2]) = Abs(d[2]) /\ c[2] <= d[2]

navigate_towards(b, object) ==
  IF b.nav_force_forward THEN forceForward(b)
  ELSE IF ~Looked(b) THEN say(b, "Look")
  ELSE LET cells == {c \in View(Level) : object \in b.look[1].seen[c]}
           c     == nearest_tile(cells)
       IN  IF cells = {} THEN say(Blind(b), "Forward") ELSE step_towards(Blind(b), c[1], c[2])

navigate_towards_position(b, p) ==
  IF b.nav_force_forward THEN forceForward(b)
  ELSE step_towards(b, heading_to(b, p)[1], heading_to(b, p)[2])

seek_resource(b, object) ==
  LET inSight == Looked(b) /\ \E c \in View(Level) : object \in b.look[1].seen[c]
      forget  == [b EXCEPT !.seek_position = <<>>]
      targets == IF b.seek_position # <<>> THEN {b.seek_position} ELSE nearest_known(b, object)
  IN  IF b.seek_position = b.pos THEN say(Blind(forget), "Look")
      ELSE IF inSight THEN navigate_towards(forget, object)
      ELSE IF targets = {} THEN navigate_towards(b, object)
      ELSE UNION {navigate_towards_position([Blind(b) EXCEPT !.seek_position = p], p) : p \in targets}

(* decision/roles/survivor.py *)
survivor(b) ==
  selector(sequence(LiesHere(b, "food"), send(b, "Take", "food")),
           seek_resource(b, "food"))

(* decision/roles/forker.py *)
forker(b) == say(b, "Fork")

(***************************************************************************)
(* decision/roles/leader.py.  Whether enough players stand here, and       *)
(* whether its patience is at an end, is left open.                        *)
(***************************************************************************)
leader(b) ==
  sequence(Looked(b), say(b, "Incantation")) \cup say(b, "Look") \cup say(b, "Broadcast")

(***************************************************************************)
(* decision/roles/collector.py.  A call is the direction it came from, and *)
(* whether it is a rally; -1 is no call.                                   *)
(***************************************************************************)
Call == [heading : -1 .. 8, rally : BOOLEAN]

Missing(b) == {o \in Wanted : b.inventory[o] < 1}
missing_resource(b) == CHOOSE o \in Missing(b) : TRUE

Deposits(b) == {o \in Wanted : b.inventory[o] > 0 /\ ~LiesHere(b, o)}

deposit_here_or_look(b) ==
  IF Looked(b) /\ Deposits(b) # {}
    THEN send(b, "Set", CHOOSE o \in Deposits(b) : TRUE)
    ELSE say(b, "Look")

step_towards_sound(b, heading) ==
  say(Blind(b), CASE heading \in {1, 2, 8} -> "Forward"
                  [] heading \in {3, 4, 5} -> "Right"
                  [] OTHER                 -> "Left")

approach(b, heading) ==
  IF heading \in {-1, 0} THEN deposit_here_or_look(b) ELSE step_towards_sound(b, heading)

(* _beaconing: the place where the stones are laid down, or none. *)
beaconAt(b, heading) ==
  IF heading # -1 THEN <<>>
  ELSE IF b.deposit_position = b.pos \/ Missing(b) = {} THEN b.pos
  ELSE <<>>

collector(b, call) ==
  LET beacon == [b EXCEPT !.deposit_position = beaconAt(b, call.heading)]
      target == missing_resource(b)
  IN  selector(sequence(call.heading = 0, deposit_here_or_look(b)),
      selector(sequence(call.heading # -1 /\ call.rally, approach(b, call.heading)),
      selector(sequence(beacon.deposit_position # <<>>, deposit_here_or_look(beacon)),
      selector(sequence(Missing(b) = {}, approach(beacon, call.heading)),
      selector(sequence(LiesHere(b, target), send(beacon, "Take", target)),
               seek_resource(beacon, target))))))

Tree(b) ==
  IF alone THEN survivor(b)
  ELSE UNION ({survivor(b), forker(b), leader(b)} \cup {collector(b, call) : call \in Call})

(* _tick *)
nextTurn(b) == [b EXCEPT !.tick_count = (@ + 1) % Poll]

tick(b) ==
  IF b.tick_count = 0 THEN say(b, "Inventory") \cup say(b, "Connect_nbr") ELSE Tree(b)

-----------------------------------------------------------------------------
(***************************************************************************)
(* The callbacks of decision/actions.py: what an answer changes.  A view   *)
(* and the map share their lists (record_vision), so that what is taken    *)
(* from the one is gone from the other, at the place where it was seen.    *)
(***************************************************************************)
turned(b, by) == [b EXCEPT !.dir = (@ + by) % 4]

record_vision(b, seen) ==
  [b EXCEPT !.look = <<[at |-> b.pos, seen |-> seen]>>,
            !.known = [p \in Tile |->
              LET cells == {c \in View(Level) : absolute_offset(b, c[1], c[2]) = p}
              IN  IF cells = {} THEN @[p] ELSE seen[CHOOSE c \in cells : TRUE]]]

(* The objects under the bot become S, as far as it has them in view. *)
setHere(b, S) ==
  IF ~Looked(b) THEN b
  ELSE [b EXCEPT !.look[1].seen[<<0, 0>>] = S, !.known[b.look[1].at] = S]

Here(b) == IF Looked(b) THEN b.look[1].seen[<<0, 0>>] ELSE {}

onComplete(b, cmd, ans) ==
  CASE cmd.verb = "Forward"     -> [b EXCEPT !.pos = absolute_offset(b, 1, 0)]
    [] cmd.verb = "Right"       -> turned(b, 1)
    [] cmd.verb = "Left"        -> turned(b, -1)
    [] cmd.verb = "Look"        -> record_vision(b, ans)
    [] cmd.verb = "Inventory"   -> [b EXCEPT !.inventory = ans]
    [] cmd.verb = "Take" /\ ans -> setHere([b EXCEPT !.inventory[cmd.object] = @ + 1],
                                           Here(b) \ {cmd.object})
    [] cmd.verb = "Set" /\ ans  -> setHere([b EXCEPT !.inventory[cmd.object] = @ - 1],
                                           Here(b) \cup {cmd.object})
    [] cmd.verb = "Incantation" -> [Blind(b) EXCEPT !.deposit_position = <<>>]
    [] OTHER                    -> b

(* The bot reads the answer, and takes its next turn at once. *)
Read ==
  /\ answer # <<>>
  /\ answer' = <<>>
  /\ \E b \in {nextTurn(onComplete(bot, command, answer[1]))} :
       \E o \in tick(b) : bot' = o.bot /\ command' = o.command
  /\ UNCHANGED <<at, facing, ground, carried, hatched, alone, meddling>>

(***************************************************************************)
(* The server completes the command in flight, and answers.                *)
(***************************************************************************)
Answers(ans) == answer' = <<ans>>

ServeStep ==
  /\ command.verb = "Forward"
  /\ at' = Move(at, facing)
  /\ Answers(TRUE)
  /\ UNCHANGED <<facing, ground, carried>>

ServeTurn ==
  /\ \/ command.verb = "Left" /\ facing' = TurnLeft(facing)
     \/ command.verb = "Right" /\ facing' = TurnRight(facing)
  /\ Answers(TRUE)
  /\ UNCHANGED <<at, ground, carried>>

ServeLook ==
  /\ command.verb = "Look"
  /\ Answers([c \in View(Level) |-> ground[LookTile(at, facing, c[1], c[2])]])
  /\ UNCHANGED <<at, facing, ground, carried>>

ServeInventory ==
  /\ command.verb = "Inventory"
  /\ Answers(carried)
  /\ UNCHANGED <<at, facing, ground, carried>>

ServeTake ==
  LET o == command.object
      can == o \in ground[at]
  IN  /\ command.verb = "Take"
      /\ ground' = [ground EXCEPT ![at] = @ \ {o}]
      /\ carried' = [carried EXCEPT ![o] = IF can THEN @ + 1 ELSE @]
      /\ Answers(can)
      /\ UNCHANGED <<at, facing>>

ServeSet ==
  LET o == command.object
  IN  /\ command.verb = "Set"
      /\ carried[o] > 0
      /\ ground' = [ground EXCEPT ![at] = @ \cup {o}]
      /\ carried' = [carried EXCEPT ![o] = @ - 1]
      /\ Answers(TRUE)
      /\ UNCHANGED <<at, facing>>

(* The stones are used up when the elevation succeeds. *)
ServeIncantation ==
  /\ command.verb = "Incantation"
  /\ ground' \in {ground} \cup (IF Wanted \subseteq ground[at]
                                  THEN {[ground EXCEPT ![at] = @ \ Wanted]} ELSE {})
  /\ Answers(TRUE)
  /\ UNCHANGED <<at, facing, carried>>

ServeOther ==
  /\ command.verb \in {"Connect_nbr", "Fork", "Broadcast"}
  /\ Answers(TRUE)
  /\ UNCHANGED <<at, facing, ground, carried>>

Serve ==
  /\ answer = <<>>
  /\ \/ ServeStep \/ ServeTurn \/ ServeLook \/ ServeInventory
     \/ ServeTake \/ ServeSet \/ ServeIncantation \/ ServeOther
  /\ UNCHANGED <<command, bot, hatched, alone, meddling>>

(***************************************************************************)
(* Others take what lies about, or lay something down; and a ritual of     *)
(* another player ends on this one, which makes the bot forget its view.   *)
(***************************************************************************)
Meddle ==
  /\ ~alone /\ meddling < MaxMeddling
  /\ meddling' = meddling + 1
  /\ \/ /\ \E t \in Tile, o \in Object :
             ground' = [ground EXCEPT ![t] = IF o \in @ THEN @ \ {o} ELSE @ \cup {o}]
        /\ UNCHANGED bot
     \/ /\ bot' = [Blind(bot) EXCEPT !.deposit_position = <<>>]
        /\ UNCHANGED ground
  /\ UNCHANGED <<at, facing, carried, command, answer, hatched, alone>>

-----------------------------------------------------------------------------
(***************************************************************************)
(* A bot right after the handshake has an empty map, and takes a turn.     *)
(* Its map is folded like the world only if it counts along the same       *)
(* axes: on a map that is not square, if it hatched facing up or down.     *)
(***************************************************************************)
Newborn ==
  [pos |-> <<0, 0>>, dir |-> 0, known |-> [p \in Tile |-> {}], look |-> <<>>,
   seek_position |-> <<>>, deposit_position |-> <<>>, nav_force_forward |-> FALSE,
   inventory |-> [o \in Object |-> 0], tick_count |-> 0]

Folded == IF Width = Height THEN Direction ELSE {"UP", "DOWN"}

Start(things) ==
  /\ at = <<0, 0>> /\ hatched \in Folded /\ facing = hatched
  /\ ground \in things
  /\ carried = [o \in Object |-> 0]
  /\ answer = <<>>
  /\ alone \in BOOLEAN /\ meddling = 0
  /\ \E o \in tick(nextTurn(Newborn)) : bot = o.bot /\ command = o.command

Next == Read \/ Serve \/ Meddle

MindSpec == Start([Tile -> SUBSET Object]) /\ [][Next]_vars

(***************************************************************************)
(* The place of the world that a place of the mental map stands for, and   *)
(* the direction that one of its numbers stands for.                       *)
(***************************************************************************)
TrueTile(p) ==
  <<(p[1] * Side(hatched)[1] - p[2] * Forward(hatched)[1]) % Width,
    (p[1] * Side(hatched)[2] - p[2] * Forward(hatched)[2]) % Height>>

TrueDirection(n) ==
  CASE n = 0 -> hatched [] n = 1 -> TurnRight(hatched)
    [] n = 2 -> TurnRight(TurnRight(hatched)) [] n = 3 -> TurnLeft(hatched)

(***************************************************************************)
(* Every turn of the bot sends a command.  It takes a turn only when it    *)
(* has an answer, so a tree that fails would end it without ending it: in  *)
(* whatever state one role leaves the bot, the next role finds something   *)
(* to do (_tick, navigation._step_towards, all the trees).                 *)
(***************************************************************************)
EveryTurnSends == command # Nothing

(***************************************************************************)
(* The bot knows where it is and which way it looks once it has read what  *)
(* the server has answered, however it was turned about; and as long as    *)
(* nobody else touches anything, what its map shows is there, also after   *)
(* it has taken from a tile it saw from afar (MentalMap).                  *)
(***************************************************************************)
MapIsTrue ==
  answer = <<>> =>
    /\ TrueTile(bot.pos) = at /\ TrueDirection(bot.dir) = facing
    /\ alone => \A p \in Tile : bot.known[p] \subseteq ground[TrueTile(p)]

(***************************************************************************)
(* A hungry bot takes all the food it has seen, wherever it was on the map *)
(* when it saw it, if nobody else does: it walks round the map without     *)
(* passing the tile by or turning on the spot (navigation.seek_resource).  *)
(***************************************************************************)
SeenFoodIsTaken ==
  \A p \in Tile :
    (alone /\ "food" \in bot.known[p]) ~> "food" \notin ground[TrueTile(p)]
=============================================================================
