----------------------------- MODULE MindProofs -----------------------------
(***************************************************************************)
(* On every map, at every level and whatever others do, the bot's          *)
(* decisions never come to nothing, and its map is true.                   *)
(***************************************************************************)
EXTENDS Mind, TorusProofs

Sight == [View(Level) -> SUBSET Object]
Look  == [at : Tile, seen : Sight]
Place == Tile \cup {<<>>}

BotState ==
  [pos : Tile, dir : 0 .. 3, known : [Tile -> SUBSET Object],
   look : {<<>>} \cup {<<l>> : l \in Look},
   seek_position : Place, deposit_position : Place, nav_force_forward : BOOLEAN,
   inventory : [Object -> Int], tick_count : Nat]

(* The commands there are. *)
PlainVerb ==
  {"Forward", "Left", "Right", "Look", "Inventory", "Connect_nbr", "Fork",
   "Broadcast", "Incantation"}

Request ==
  [verb : PlainVerb, object : {"none"}] \cup [verb : {"Take", "Set"}, object : Object]

Outcome == [bot : BotState, command : Request]

(* A node that comes to a decision, and sends a command with it. *)
Decides(node) == node # {} /\ node \subseteq Outcome

MayAnswer(cmd, ans) ==
  /\ cmd.verb = "Look" => ans \in Sight
  /\ cmd.verb = "Inventory" => ans \in [Object -> Nat]
  /\ cmd.verb \in {"Take", "Set"} => ans \in BOOLEAN

(***************************************************************************)
(* Types.  That the command is one of those there are is the stronger part *)
(* of it: Nothing is none.                                                 *)
(***************************************************************************)
MindTypeOK ==
  /\ at \in Tile /\ facing \in Direction
  /\ ground \in [Tile -> SUBSET Object]
  /\ carried \in [Object -> Nat]
  /\ command \in Request
  /\ answer # <<>> => \E ans : answer = <<ans>> /\ MayAnswer(command, ans)
  /\ bot \in BotState

-----------------------------------------------------------------------------
(* Arithmetic. *)
LEMMA DeltaZero ==
  ASSUME NEW n \in Nat \ {0}, NEW a \in 0 .. n - 1, NEW b \in 0 .. n - 1
  PROVE  /\ axis_delta(a, b, n) \in Int
         /\ axis_delta(a, b, n) = 0 => a = b
<1>1. (b - a) % n \in 0 .. n - 1
  BY RemainderRange
<1>2. axis_delta(a, b, n) = 0 => (b - a) % n = 0
  BY <1>1 DEF axis_delta
<1> QED  BY <1>1, <1>2, SameResidue DEF axis_delta

-----------------------------------------------------------------------------
(* The nodes. *)
LEMMA SayDecides ==
  ASSUME NEW b \in BotState, NEW verb \in PlainVerb
  PROVE  Decides(say(b, verb))
BY DEF Decides, say, send, Outcome, Request, Command

LEMMA SendDecidesOn ==
  ASSUME NEW b \in BotState, NEW verb \in {"Take", "Set"}, NEW o \in Object
  PROVE  Decides(send(b, verb, o))
BY DEF Decides, send, Outcome, Request, Command

(* What lies under the bot is all that keeps the nearest tile from being its own. *)
LEMMA NearestTileIsThere ==
  ASSUME NEW cells, cells \subseteq View(Level), cells # {}
  PROVE  nearest_tile(cells) \in cells
<1>1. \A c \in cells : c[1] \in Nat /\ c[2] \in Int /\ Abs(c[2]) \in Nat
  BY MindAssumption DEF View, Abs
<1>2. PICK row \in {c[1] : c \in cells} : \A r \in {c[1] : c \in cells} : row <= r
  <2>1. {c[1] : c \in cells} \subseteq Nat /\ {c[1] : c \in cells} # {}
    BY <1>1
  <2> QED  BY <2>1, SmallestOf
<1> DEFINE InRow == {c \in cells : c[1] = row}
<1>3. InRow # {}
  BY <1>2
<1>4. PICK off \in {Abs(c[2]) : c \in InRow} : \A r \in {Abs(c[2]) : c \in InRow} : off <= r
  <2>1. {Abs(c[2]) : c \in InRow} \subseteq Nat /\ {Abs(c[2]) : c \in InRow} # {}
    BY <1>1, <1>3
  <2> QED  BY <2>1, SmallestOf
<1>5. \A c \in cells : c[1] = row => off <= Abs(c[2])
  BY <1>4
<1>6. \A c \in cells : row <= c[1]
  BY <1>2
<1>7. PICK c \in cells : c[1] = row /\ Abs(c[2]) = off
  BY <1>4
<1>8. PICK c0 \in cells :
        /\ c0[1] = row /\ Abs(c0[2]) = off
        /\ \A d \in cells : d[1] = row /\ Abs(d[2]) = off => c0[2] <= d[2]
  <2>1. CASE \E d \in cells : d[1] = row /\ Abs(d[2]) = off /\ d[2] < c[2]
    <3>1. PICK d \in cells : d[1] = row /\ Abs(d[2]) = off /\ d[2] < c[2]
      BY <2>1
    <3>2. \A e \in cells : e[1] = row /\ Abs(e[2]) = off => d[2] <= e[2]
      BY <1>1, <1>7, <3>1 DEF Abs
    <3> QED  BY <3>1, <3>2
  <2>2. CASE \A d \in cells : d[1] = row /\ Abs(d[2]) = off => c[2] <= d[2]
    BY <1>7, <2>2
  <2> QED  BY <1>1, <2>1, <2>2
<1>9. \A d \in cells :
        \/ c0[1] < d[1]
        \/ c0[1] = d[1] /\ Abs(c0[2]) < Abs(d[2])
        \/ c0[1] = d[1] /\ Abs(c0[2]) = Abs(d[2]) /\ c0[2] <= d[2]
  <2> SUFFICES ASSUME NEW d \in cells
               PROVE  \/ c0[1] < d[1]
                      \/ c0[1] = d[1] /\ Abs(c0[2]) < Abs(d[2])
                      \/ c0[1] = d[1] /\ Abs(c0[2]) = Abs(d[2]) /\ c0[2] <= d[2]
    OBVIOUS
  <2>1. CASE d[1] # row
    BY <1>1, <1>6, <1>8, <2>1
  <2>2. CASE d[1] = row /\ Abs(d[2]) # off
    BY <1>1, <1>5, <1>8, <2>2
  <2>3. CASE d[1] = row /\ Abs(d[2]) = off
    BY <1>8, <2>3
  <2> QED  BY <2>1, <2>2, <2>3
<1> QED  BY <1>9 DEF nearest_tile

LEMMA StepDecides ==
  ASSUME NEW b \in BotState, NEW forward \in Int, NEW lateral \in Int,
         ~(forward = 0 /\ lateral = 0)
  PROVE  Decides(step_towards(b, forward, lateral))
<1>1. [b EXCEPT !.nav_force_forward = TRUE] \in BotState
  BY DEF BotState
<1>2. "Forward" \in PlainVerb /\ "Left" \in PlainVerb /\ "Right" \in PlainVerb
  BY DEF PlainVerb
<1> QED  BY <1>1, <1>2, SayDecides DEF step_towards

LEMMA ForceDecides ==
  ASSUME NEW b \in BotState
  PROVE  Decides(forceForward(b))
<1>1. [b EXCEPT !.nav_force_forward = FALSE] \in BotState
  BY DEF BotState
<1>2. "Forward" \in PlainVerb
  BY DEF PlainVerb
<1> QED  BY <1>1, <1>2, SayDecides DEF forceForward

LEMMA BlindIsBot ==
  ASSUME NEW b \in BotState
  PROVE  Blind(b) \in BotState /\ Blind(b).pos = b.pos /\ Blind(b).dir = b.dir
BY DEF BotState, Blind

(***************************************************************************)
(* Towards what is in view: the nearest of it is not under the bot.        *)
(***************************************************************************)
LEMMA NavigateDecides ==
  ASSUME NEW b \in BotState, NEW o \in Object, ~LiesHere(b, o)
  PROVE  Decides(navigate_towards(b, o))
<1>1. CASE b.nav_force_forward
  BY <1>1, ForceDecides DEF navigate_towards
<1>2. CASE ~b.nav_force_forward /\ ~Looked(b)
  BY <1>2, SayDecides DEF navigate_towards, PlainVerb
<1>3. CASE ~b.nav_force_forward /\ Looked(b)
  <2> DEFINE cells == {c \in View(Level) : o \in b.look[1].seen[c]}
  <2>1. CASE cells = {}
    BY <1>3, <2>1, SayDecides, BlindIsBot DEF navigate_towards, PlainVerb
  <2>2. CASE cells # {}
    <3> DEFINE c == nearest_tile(cells)
    <3>1. c \in cells
      BY <2>2, NearestTileIsThere
    <3>2. c # <<0, 0>>
      BY <1>3, <3>1 DEF LiesHere
    <3>3. c \in Nat \X Int
      <4>1. c \in View(Level)
        BY <3>1
      <4> HIDE DEF c
      <4> QED  BY <4>1, MindAssumption DEF View
    <3>4. ~(c[1] = 0 /\ c[2] = 0)
      BY <3>2, <3>3
    <3>5. Decides(step_towards(Blind(b), c[1], c[2]))
      BY <3>3, <3>4, StepDecides, BlindIsBot
    <3> QED  BY <1>3, <2>2, <3>5 DEF navigate_towards
  <2> QED  BY <2>1, <2>2
<1> QED  BY <1>1, <1>2, <1>3

(***************************************************************************)
(* Towards a place on the map: only the bot's own is straight ahead by     *)
(* nothing, whichever way it looks.                                        *)
(***************************************************************************)
LEMMA HeadingZero ==
  ASSUME NEW b \in BotState, NEW p \in Tile, p # b.pos
  PROVE  /\ heading_to(b, p)[1] \in Int /\ heading_to(b, p)[2] \in Int
         /\ ~(heading_to(b, p)[1] = 0 /\ heading_to(b, p)[2] = 0)
<1>1. /\ b.pos[1] \in 0 .. Width - 1 /\ b.pos[2] \in 0 .. Height - 1
      /\ p[1] \in 0 .. Width - 1 /\ p[2] \in 0 .. Height - 1
      /\ p = <<p[1], p[2]>> /\ b.pos = <<b.pos[1], b.pos[2]>>
      /\ b.dir \in 0 .. 3
  BY DEF BotState, Tile
<1> DEFINE dx == axis_delta(b.pos[1], p[1], Width)
           dy == axis_delta(b.pos[2], p[2], Height)
<1>2. dx \in Int /\ dy \in Int /\ (dx = 0 => b.pos[1] = p[1]) /\ (dy = 0 => b.pos[2] = p[2])
  BY <1>1, DeltaZero, SizeAssumption
<1>3. ~(dx = 0 /\ dy = 0)
  BY <1>1, <1>2
<1>4. Delta(b, p) = <<dx, dy>>
  BY DEF Delta
<1> HIDE DEF dx, dy
<1>5. CASE b.dir = 0
  BY <1>2, <1>3, <1>4, <1>5 DEF heading_to, Dot, ForwardVector, RightVector, FORWARD_VECTORS, RIGHT_VECTORS
<1>6. CASE b.dir = 1
  BY <1>2, <1>3, <1>4, <1>6 DEF heading_to, Dot, ForwardVector, RightVector, FORWARD_VECTORS, RIGHT_VECTORS
<1>7. CASE b.dir = 2
  BY <1>2, <1>3, <1>4, <1>7 DEF heading_to, Dot, ForwardVector, RightVector, FORWARD_VECTORS, RIGHT_VECTORS
<1>8. CASE b.dir = 3
  BY <1>2, <1>3, <1>4, <1>8 DEF heading_to, Dot, ForwardVector, RightVector, FORWARD_VECTORS, RIGHT_VECTORS
<1> QED  BY <1>1, <1>5, <1>6, <1>7, <1>8

LEMMA PositionDecides ==
  ASSUME NEW b \in BotState, NEW p \in Tile, p # b.pos
  PROVE  Decides(navigate_towards_position(b, p))
<1>1. Decides(step_towards(b, heading_to(b, p)[1], heading_to(b, p)[2]))
  BY HeadingZero, StepDecides
<1> QED  BY <1>1, ForceDecides DEF navigate_towards_position

(***************************************************************************)
(* What is sought does not lie under the bot (the trees have looked), and  *)
(* a place that is remembered is not its own (seek_resource has).          *)
(***************************************************************************)
LEMMA SeekDecides ==
  ASSUME NEW b \in BotState, NEW o \in Object, ~LiesHere(b, o)
  PROVE  Decides(seek_resource(b, o))
<1> DEFINE inSight == Looked(b) /\ \E c \in View(Level) : o \in b.look[1].seen[c]
           forget  == [b EXCEPT !.seek_position = <<>>]
           targets == IF b.seek_position # <<>> THEN {b.seek_position} ELSE nearest_known(b, o)
           going(p) == [Blind(b) EXCEPT !.seek_position = p]
<1>1. forget \in BotState /\ ~LiesHere(forget, o)
  BY DEF BotState, Place, LiesHere, Looked
<1>2. CASE b.seek_position = b.pos
  BY <1>1, <1>2, BlindIsBot, SayDecides DEF seek_resource, PlainVerb
<1>3. CASE b.seek_position # b.pos /\ inSight
  BY <1>1, <1>3, NavigateDecides DEF seek_resource
<1>4. CASE b.seek_position # b.pos /\ ~inSight /\ targets = {}
  BY <1>4, NavigateDecides DEF seek_resource
<1>5. CASE b.seek_position # b.pos /\ ~inSight /\ targets # {}
  <2>1. targets \subseteq Tile \ {b.pos}
    BY <1>5 DEF BotState, Place, nearest_known, Nearest
  <2>2. \A p \in targets : going(p) \in BotState /\ going(p).pos = b.pos
    BY <2>1, BlindIsBot DEF BotState, Place
  <2>3. \A p \in targets : Decides(navigate_towards_position(going(p), p))
    BY <2>1, <2>2, PositionDecides
  <2>4. Decides(UNION {navigate_towards_position(going(p), p) : p \in targets})
    BY <1>5, <2>3, ZenonT(40) DEF Decides
  <2> QED  BY <1>5, <2>4 DEF seek_resource
<1> QED  BY <1>2, <1>3, <1>4, <1>5

-----------------------------------------------------------------------------
(* The trees of the roles. *)
LEMMA SurvivorDecides ==
  ASSUME NEW b \in BotState
  PROVE  Decides(survivor(b))
<1>1. "food" \in Object
  BY DEF Object
<1>2. CASE LiesHere(b, "food")
  BY <1>1, <1>2, SendDecidesOn DEF survivor, selector, sequence, Decides
<1>3. CASE ~LiesHere(b, "food")
  BY <1>1, <1>3, SeekDecides DEF survivor, selector, sequence, Decides
<1> QED  BY <1>2, <1>3

LEMMA LeaderDecides ==
  ASSUME NEW b \in BotState
  PROVE  Decides(leader(b))
<1>1. Decides(say(b, "Incantation")) /\ Decides(say(b, "Look")) /\ Decides(say(b, "Broadcast"))
  BY SayDecides DEF PlainVerb
<1> QED  BY <1>1 DEF Decides, leader, sequence

LEMMA DepositDecides ==
  ASSUME NEW b \in BotState
  PROVE  Decides(deposit_here_or_look(b))
<1>1. Deposits(b) # {} => (CHOOSE o \in Deposits(b) : TRUE) \in Object
  BY DEF Deposits, Object
<1> QED  BY <1>1, SendDecidesOn, SayDecides DEF deposit_here_or_look, PlainVerb

LEMMA ApproachDecides ==
  ASSUME NEW b \in BotState, NEW heading
  PROVE  Decides(approach(b, heading))
<1>1. Decides(say(Blind(b), "Forward")) /\ Decides(say(Blind(b), "Right"))
        /\ Decides(say(Blind(b), "Left"))
  BY SayDecides, BlindIsBot DEF PlainVerb
<1>2. Decides(step_towards_sound(b, heading))
  <2>1. CASE heading \in {1, 2, 8}
    <3>1. step_towards_sound(b, heading) = say(Blind(b), "Forward")
      BY <2>1 DEF step_towards_sound
    <3> QED  BY <1>1, <3>1
  <2>2. CASE heading \in {3, 4, 5}
    <3>1. step_towards_sound(b, heading) = say(Blind(b), "Right")
      BY <2>2 DEF step_towards_sound
    <3> QED  BY <1>1, <3>1
  <2>3. CASE heading \notin {1, 2, 8} \cup {3, 4, 5}
    <3>1. step_towards_sound(b, heading) = say(Blind(b), "Left")
      BY <2>3 DEF step_towards_sound
    <3> QED  BY <1>1, <3>1
  <2> QED  BY <2>1, <2>2, <2>3
<1> QED  BY <1>2, DepositDecides DEF approach

(***************************************************************************)
(* When the collector comes to its last node, a stone is missing, and none *)
(* of that kind lies under it.                                             *)
(***************************************************************************)
LEMMA CollectorDecides ==
  ASSUME NEW b \in BotState, NEW call \in Call
  PROVE  Decides(collector(b, call))
<1> DEFINE beacon == [b EXCEPT !.deposit_position = beaconAt(b, call.heading)]
           target == missing_resource(b)
           waiting == sequence(call.heading = 0, deposit_here_or_look(b))
           rally == sequence(call.heading # -1 /\ call.rally, approach(b, call.heading))
           beaconing == sequence(beacon.deposit_position # <<>>, deposit_here_or_look(beacon))
           regroup == sequence(Missing(b) = {}, approach(beacon, call.heading))
           taking == sequence(LiesHere(b, target), send(beacon, "Take", target))
           seeking == seek_resource(beacon, target)
<1>1. beacon \in BotState /\ beacon.look = b.look
  <2>1. beaconAt(b, call.heading) \in Place
    BY DEF beaconAt, Place, BotState
  <2> QED  BY <2>1 DEF BotState
<1>2. /\ waiting = {} \/ Decides(waiting)
      /\ rally = {} \/ Decides(rally)
      /\ beaconing = {} \/ Decides(beaconing)
      /\ regroup = {} \/ Decides(regroup)
  <2>1. /\ Decides(deposit_here_or_look(b)) /\ Decides(deposit_here_or_look(beacon))
        /\ Decides(approach(b, call.heading)) /\ Decides(approach(beacon, call.heading))
    BY <1>1, DepositDecides, ApproachDecides
  <2> HIDE DEF beacon
  <2> QED  BY <2>1 DEF sequence
<1>3. regroup = {} => Decides(selector(taking, seeking))
  <2> SUFFICES ASSUME regroup = {} PROVE Decides(selector(taking, seeking))
    OBVIOUS
  <2>1. Missing(b) # {}
    <3>1. Decides(approach(beacon, call.heading))
      BY <1>1, ApproachDecides
    <3> HIDE DEF beacon
    <3> QED  BY <3>1 DEF sequence, Decides
  <2>2. target \in Object
    BY <2>1 DEF missing_resource, Missing, Object
  <2>3. CASE LiesHere(b, target)
    <3>1. Decides(send(beacon, "Take", target))
      BY <1>1, <2>2, SendDecidesOn
    <3> HIDE DEF beacon, target
    <3> QED  BY <2>3, <3>1 DEF selector, sequence, Decides
  <2>4. CASE ~LiesHere(b, target)
    <3>1. ~LiesHere(beacon, target)
      BY <1>1, <2>4 DEF LiesHere, Looked
    <3>2. Decides(seeking)
      BY <1>1, <2>2, <3>1, SeekDecides
    <3> HIDE DEF beacon, target, seeking
    <3> QED  BY <2>4, <3>2 DEF selector, sequence, Decides
  <2> QED  BY <2>3, <2>4
<1>4. collector(b, call) =
        selector(waiting, selector(rally, selector(beaconing, selector(regroup,
          selector(taking, seeking)))))
  BY Zenon DEF collector
<1> HIDE DEF waiting, rally, beaconing, regroup, taking, seeking
<1>5. regroup # {} => Decides(selector(regroup, selector(taking, seeking)))
  BY <1>2 DEF selector
<1>6. Decides(selector(regroup, selector(taking, seeking)))
  BY <1>3, <1>5 DEF selector
<1>7. Decides(selector(beaconing, selector(regroup, selector(taking, seeking))))
  BY <1>2, <1>6 DEF selector
<1>8. Decides(selector(rally, selector(beaconing, selector(regroup, selector(taking, seeking)))))
  BY <1>2, <1>7 DEF selector
<1> QED  BY <1>2, <1>4, <1>8 DEF selector

LEMMA TickDecides ==
  ASSUME NEW b \in BotState
  PROVE  Decides(tick(b))
<1>1. Decides(say(b, "Inventory") \cup say(b, "Connect_nbr"))
  <2>1. Decides(say(b, "Inventory")) /\ Decides(say(b, "Connect_nbr"))
    BY SayDecides DEF PlainVerb
  <2> QED  BY <2>1 DEF Decides
<1>2. Decides(forker(b))
  BY SayDecides DEF forker, PlainVerb
<1>3. Decides(Tree(b))
  <2>1. \A node \in {survivor(b), forker(b), leader(b)} \cup {collector(b, call) : call \in Call} :
          Decides(node)
    BY <1>2, SurvivorDecides, LeaderDecides, CollectorDecides
  <2>2. Decides(UNION ({survivor(b), forker(b), leader(b)} \cup {collector(b, call) : call \in Call}))
    BY <2>1 DEF Decides
  <2> QED  BY <2>2, SurvivorDecides DEF Tree
<1> QED  BY <1>1, <1>3 DEF tick
-----------------------------------------------------------------------------
(* What an answer changes. *)
LEMMA NextTurnIsBot ==
  ASSUME NEW b \in BotState
  PROVE  nextTurn(b) \in BotState
<1>1. (b.tick_count + 1) % Poll \in Nat
  BY MindAssumption DEF BotState
<1> QED  BY <1>1 DEF BotState, nextTurn

LEMMA AheadIsOnTheMap ==
  ASSUME NEW b \in BotState
  PROVE  absolute_offset(b, 1, 0) \in Tile
<1>1. b.pos[1] \in Int /\ b.pos[2] \in Int /\ b.dir \in 0 .. 3
  BY DEF BotState, Tile
<1>2. /\ ForwardVector(b)[1] \in Int /\ ForwardVector(b)[2] \in Int
      /\ RightVector(b)[1] \in Int /\ RightVector(b)[2] \in Int
  BY <1>1 DEF ForwardVector, RightVector, FORWARD_VECTORS, RIGHT_VECTORS
<1> DEFINE x == b.pos[1] + 1 * ForwardVector(b)[1] + 0 * RightVector(b)[1]
           y == b.pos[2] + 1 * ForwardVector(b)[2] + 0 * RightVector(b)[2]
<1>3. x \in Int /\ y \in Int
  BY <1>1, <1>2
<1>4. absolute_offset(b, 1, 0) = <<x % Width, y % Height>>
  BY DEF absolute_offset
<1> HIDE DEF x, y
<1>5. x % Width \in 0 .. Width - 1 /\ y % Height \in 0 .. Height - 1
  BY <1>3, SizeAssumption
<1> QED  BY <1>4, <1>5 DEF Tile

LEMMA VisionIsBot ==
  ASSUME NEW b \in BotState, NEW seen \in Sight
  PROVE  record_vision(b, seen) \in BotState
<1> DEFINE shown(p) == {c \in View(Level) : absolute_offset(b, c[1], c[2]) = p}
           map == [p \in Tile |-> IF shown(p) = {} THEN b.known[p]
                                  ELSE seen[CHOOSE c \in shown(p) : TRUE]]
<1>1. map \in [Tile -> SUBSET Object]
  <2> SUFFICES ASSUME NEW p \in Tile
               PROVE  (IF shown(p) = {} THEN b.known[p]
                       ELSE seen[CHOOSE c \in shown(p) : TRUE]) \in SUBSET Object
    OBVIOUS
  <2>1. shown(p) # {} => (CHOOSE c \in shown(p) : TRUE) \in View(Level)
    BY Zenon
  <2>2. b.known[p] \in SUBSET Object
    BY DEF BotState
  <2> HIDE DEF shown
  <2> QED  BY <2>1, <2>2 DEF Sight
<1>2. [at |-> b.pos, seen |-> seen] \in Look
  BY DEF Look, BotState
<1>3. record_vision(b, seen) =
        [b EXCEPT !.look = <<[at |-> b.pos, seen |-> seen]>>, !.known = map]
  BY DEF record_vision, BotState
<1> HIDE DEF map
<1> QED  BY <1>1, <1>2, <1>3 DEF BotState

(* A stone taken or set is gone from, or in, the view and the map at once. *)
LEMMA SetHereIsBot ==
  ASSUME NEW b \in BotState, NEW S \in SUBSET Object
  PROVE  setHere(b, S) \in BotState
<1>1. CASE ~Looked(b)
  BY <1>1 DEF setHere
<1>2. CASE Looked(b)
  <2>1. PICK l \in Look : b.look = <<l>>
    BY <1>2 DEF BotState, Looked
  <2>2. [l EXCEPT !.seen[<<0, 0>>] = S] \in Look
    BY DEF Look, Sight
  <2>3. [b.look EXCEPT ![1].seen[<<0, 0>>] = S] = <<[l EXCEPT !.seen[<<0, 0>>] = S]>>
    BY <2>1
  <2>4. [b.known EXCEPT ![b.look[1].at] = S] \in [Tile -> SUBSET Object]
    BY DEF BotState
  <2>5. setHere(b, S) = [b EXCEPT !.look = [b.look EXCEPT ![1].seen[<<0, 0>>] = S],
                                  !.known = [b.known EXCEPT ![b.look[1].at] = S]]
    BY <1>2 DEF setHere, BotState
  <2>6. \A look \in {<<m>> : m \in Look}, known \in [Tile -> SUBSET Object] :
          [b EXCEPT !.look = look, !.known = known] \in BotState
    BY DEF BotState
  <2>7. [b.look EXCEPT ![1].seen[<<0, 0>>] = S] \in {<<m>> : m \in Look}
    BY <2>2, <2>3, Zenon
  <2> QED  BY <2>4, <2>5, <2>6, <2>7, ZenonT(40)
<1> QED  BY <1>1, <1>2

LEMMA CountedIsBot ==
  ASSUME NEW b \in BotState, NEW o \in Object, NEW n \in Int
  PROVE  [b EXCEPT !.inventory[o] = n] \in BotState
BY DEF BotState

LEMMA HereIsObjects ==
  ASSUME NEW b \in BotState
  PROVE  Here(b) \in SUBSET Object
<1>1. <<0, 0>> \in View(Level)
  BY MindAssumption DEF View
<1>2. Looked(b) => \E l \in Look : b.look = <<l>>
  BY DEF BotState, Looked
<1> QED  BY <1>1, <1>2 DEF Here, Look, Sight

LEMMA CompleteIsBot ==
  ASSUME NEW b \in BotState, NEW cmd \in Request, NEW ans, MayAnswer(cmd, ans)
  PROVE  onComplete(b, cmd, ans) \in BotState
<1>1. CASE cmd.verb = "Forward"
  <2>1. onComplete(b, cmd, ans) = [b EXCEPT !.pos = absolute_offset(b, 1, 0)]
    BY <1>1 DEF onComplete
  <2> QED  BY <2>1, AheadIsOnTheMap DEF BotState
<1>2. CASE cmd.verb \in {"Left", "Right"}
  <2>1. onComplete(b, cmd, ans) \in {turned(b, 1), turned(b, -1)}
    BY <1>2 DEF onComplete
  <2>2. (b.dir + 1) % 4 \in 0 .. 3 /\ (b.dir + -1) % 4 \in 0 .. 3
    BY DEF BotState
  <2>3. turned(b, 1) \in BotState /\ turned(b, -1) \in BotState
    BY <2>2 DEF turned, BotState
  <2> QED  BY <2>1, <2>3
<1>3. CASE cmd.verb = "Look"
  BY <1>3, VisionIsBot DEF onComplete, MayAnswer
<1>4. CASE cmd.verb = "Inventory"
  <2>1. ans \in [Object -> Int]
    BY <1>4 DEF MayAnswer
  <2>2. onComplete(b, cmd, ans) = [b EXCEPT !.inventory = ans]
    BY <1>4 DEF onComplete
  <2> QED  BY <2>1, <2>2 DEF BotState
<1>5. CASE cmd.verb \in {"Take", "Set"}
  <2>1. cmd.object \in Object /\ ans \in BOOLEAN
    BY <1>5 DEF Request, PlainVerb, MayAnswer
  <2>2. b.inventory[cmd.object] + 1 \in Int /\ b.inventory[cmd.object] - 1 \in Int
    BY <2>1 DEF BotState
  <2>3. /\ Here(b) \ {cmd.object} \in SUBSET Object
        /\ Here(b) \cup {cmd.object} \in SUBSET Object
    BY <2>1, HereIsObjects
  <2>4. CASE ~ans
    BY <1>5, <2>4 DEF onComplete
  <2>5. CASE ans /\ cmd.verb = "Take"
    <3>1. [b EXCEPT !.inventory[cmd.object] = b.inventory[cmd.object] + 1] \in BotState
      BY <2>1, <2>2, CountedIsBot
    <3>2. onComplete(b, cmd, ans) =
            setHere([b EXCEPT !.inventory[cmd.object] = b.inventory[cmd.object] + 1],
                    Here(b) \ {cmd.object})
      BY <2>5 DEF onComplete
    <3> QED  BY <2>3, <3>1, <3>2, SetHereIsBot
  <2>6. CASE ans /\ cmd.verb = "Set"
    <3>1. [b EXCEPT !.inventory[cmd.object] = b.inventory[cmd.object] - 1] \in BotState
      BY <2>1, <2>2, CountedIsBot
    <3>2. onComplete(b, cmd, ans) =
            setHere([b EXCEPT !.inventory[cmd.object] = b.inventory[cmd.object] - 1],
                    Here(b) \cup {cmd.object})
      BY <2>6 DEF onComplete
    <3> QED  BY <2>3, <3>1, <3>2, SetHereIsBot
  <2> QED  BY <1>5, <2>1, <2>4, <2>5, <2>6
<1>6. CASE cmd.verb = "Incantation"
  <2>1. onComplete(b, cmd, ans) = [Blind(b) EXCEPT !.deposit_position = <<>>]
    BY <1>6 DEF onComplete
  <2> QED  BY <2>1, BlindIsBot DEF BotState, Place
<1>7. CASE cmd.verb \in {"Connect_nbr", "Fork", "Broadcast"}
  BY <1>7 DEF onComplete
<1> QED  BY <1>1, <1>2, <1>3, <1>4, <1>5, <1>6, <1>7 DEF Request, PlainVerb

-----------------------------------------------------------------------------
(* What a step changes. *)
LEMMA DirectionsStay ==
  /\ Folded \subseteq Direction
  /\ \A d \in Direction : TurnLeft(d) \in Direction /\ TurnRight(d) \in Direction
BY DEF Folded, Direction, TurnLeft, TurnRight

LEMMA NewbornIsBot == Newborn \in BotState
<1>1. <<0, 0>> \in Tile
  BY SizeAssumption DEF Tile
<1> QED  BY <1>1 DEF Newborn, BotState, Place

LEMMA StartTypes ==
  ASSUME NEW things \in SUBSET [Tile -> SUBSET Object], Start(things)
  PROVE  MindTypeOK
<1>1. Decides(tick(nextTurn(Newborn)))
  BY NewbornIsBot, NextTurnIsBot, TickDecides
<1>2. bot \in BotState /\ command \in Request
  BY <1>1 DEF Start, Decides, Outcome
<1>3. at \in Tile /\ facing \in Direction
  BY DirectionsStay, SizeAssumption DEF Start, Tile
<1> QED  BY <1>2, <1>3 DEF Start, MindTypeOK

LEMMA ReadTypes == MindTypeOK /\ Read => MindTypeOK'
<1> SUFFICES ASSUME MindTypeOK, Read PROVE MindTypeOK'
  OBVIOUS
<1>1. PICK ans : answer = <<ans>> /\ MayAnswer(command, ans)
  BY DEF MindTypeOK, Read
<1>2. PICK b : b = nextTurn(onComplete(bot, command, ans))
               /\ \E o \in tick(b) : bot' = o.bot /\ command' = o.command
  BY <1>1 DEF Read
<1>3. onComplete(bot, command, ans) \in BotState
  BY <1>1, CompleteIsBot DEF MindTypeOK
<1>4. b \in BotState
  BY <1>2, <1>3, NextTurnIsBot
<1>5. bot' \in BotState /\ command' \in Request
  BY <1>2, <1>4, TickDecides DEF Decides, Outcome
<1> QED  BY <1>5 DEF MindTypeOK, Read

LEMMA LookAnswers ==
  ASSUME NEW t \in Tile, NEW d \in Direction, NEW lies \in [Tile -> SUBSET Object]
  PROVE  [c \in View(Level) |-> lies[LookTile(t, d, c[1], c[2])]] \in Sight
<1>1. Level \in Nat /\ Level <= Width /\ Level <= Height
  BY MindAssumption, SizeAssumption
<1>2. \A c \in View(Level) : LookTile(t, d, c[1], c[2]) \in Tile
  BY <1>1, LookStaysOnLargeMap
<1> QED  BY <1>2 DEF Sight

LEMMA ServeTypes == MindTypeOK /\ Serve => MindTypeOK'
<1> SUFFICES ASSUME MindTypeOK, Serve PROVE MindTypeOK'
  OBVIOUS
<1> USE DEF Answers
<1>1. bot' \in BotState /\ command' \in Request /\ command' = command
  BY DEF MindTypeOK, Serve
<1>2. CASE ServeStep
  <2>1. at' \in Tile
    BY <1>2, MoveStaysOnMap DEF ServeStep, MindTypeOK
  <2>2. MayAnswer(command, TRUE)
    BY <1>2 DEF ServeStep, MayAnswer
  <2> QED  BY <1>1, <1>2, <2>1, <2>2 DEF ServeStep, MindTypeOK, MayAnswer
<1>3. CASE ServeTurn
  <2>1. facing' \in Direction
    BY <1>3, DirectionsStay DEF ServeTurn, MindTypeOK
  <2>2. MayAnswer(command, TRUE)
    BY <1>3 DEF ServeTurn, MayAnswer
  <2> QED  BY <1>1, <1>3, <2>1, <2>2 DEF ServeTurn, MindTypeOK, MayAnswer
<1>4. CASE ServeLook
  <2>1. [c \in View(Level) |-> ground[LookTile(at, facing, c[1], c[2])]] \in Sight
    BY LookAnswers DEF MindTypeOK
  <2>2. MayAnswer(command, [c \in View(Level) |-> ground[LookTile(at, facing, c[1], c[2])]])
    BY <1>4, <2>1 DEF ServeLook, MayAnswer
  <2> QED  BY <1>1, <1>4, <2>2 DEF ServeLook, MindTypeOK, MayAnswer
<1>5. CASE ServeInventory
  <2>1. MayAnswer(command, carried)
    BY <1>5 DEF ServeInventory, MayAnswer, MindTypeOK
  <2> QED  BY <1>1, <1>5, <2>1 DEF ServeInventory, MindTypeOK, MayAnswer
<1>6. CASE ServeTake
  <2>1. command.object \in Object
    BY <1>6 DEF ServeTake, MindTypeOK, Request, PlainVerb
  <2>2. ground' \in [Tile -> SUBSET Object] /\ carried' \in [Object -> Nat]
    BY <1>6, <2>1 DEF ServeTake, MindTypeOK
  <2>3. MayAnswer(command, command.object \in ground[at])
    BY <1>6 DEF ServeTake, MayAnswer
  <2> QED  BY <1>1, <1>6, <2>2, <2>3 DEF ServeTake, MindTypeOK, MayAnswer
<1>7. CASE ServeSet
  <2>1. command.object \in Object
    BY <1>7 DEF ServeSet, MindTypeOK, Request, PlainVerb
  <2>2. ground' \in [Tile -> SUBSET Object] /\ carried' \in [Object -> Nat]
    BY <1>7, <2>1 DEF ServeSet, MindTypeOK
  <2>3. MayAnswer(command, TRUE)
    BY <1>7 DEF ServeSet, MayAnswer
  <2> QED  BY <1>1, <1>7, <2>2, <2>3 DEF ServeSet, MindTypeOK, MayAnswer
<1>8. CASE ServeIncantation
  <2>1. ground' \in [Tile -> SUBSET Object]
    BY <1>8 DEF ServeIncantation, MindTypeOK
  <2>2. MayAnswer(command, TRUE)
    BY <1>8 DEF ServeIncantation, MayAnswer
  <2> QED  BY <1>1, <1>8, <2>1, <2>2 DEF ServeIncantation, MindTypeOK, MayAnswer
<1>9. CASE ServeOther
  <2>1. MayAnswer(command, TRUE)
    BY <1>9 DEF ServeOther, MayAnswer
  <2> QED  BY <1>1, <1>9, <2>1 DEF ServeOther, MindTypeOK, MayAnswer
<1> QED  BY <1>2, <1>3, <1>4, <1>5, <1>6, <1>7, <1>8, <1>9 DEF Serve

LEMMA MeddleTypes == MindTypeOK /\ Meddle => MindTypeOK'
<1> SUFFICES ASSUME MindTypeOK, Meddle PROVE MindTypeOK'
  OBVIOUS
<1>1. ground' \in [Tile -> SUBSET Object]
  BY DEF Meddle, MindTypeOK
<1>2. [Blind(bot) EXCEPT !.deposit_position = <<>>] \in BotState
  BY BlindIsBot DEF MindTypeOK, BotState, Place
<1>3. bot' \in BotState
  BY <1>2 DEF Meddle, MindTypeOK
<1> QED  BY <1>1, <1>3 DEF Meddle, MindTypeOK, MayAnswer

-----------------------------------------------------------------------------
(***************************************************************************)
(* The types of the bot's state, and of its command: an answer fits the    *)
(* command it answers, so that what the bot writes down is a view, a count *)
(* or a place of its map (decision/actions.py).                            *)
(***************************************************************************)
THEOREM MindTypes == MindSpec => []MindTypeOK
<1>1. Start([Tile -> SUBSET Object]) => MindTypeOK
  BY StartTypes
<1>2. MindTypeOK /\ [Next]_vars => MindTypeOK'
  <2>1. MindTypeOK /\ UNCHANGED vars => MindTypeOK'
    BY DEF vars, MindTypeOK, MayAnswer
  <2> QED  BY <2>1, ReadTypes, ServeTypes, MeddleTypes DEF Next
<1> QED  BY <1>1, <1>2, PTL DEF MindSpec

(***************************************************************************)
(* On every map, at every level and whatever the policy and the other      *)
(* players do, each turn of the bot sends a command (_tick and the trees   *)
(* of decision/roles).                                                     *)
(***************************************************************************)
THEOREM TurnsAlwaysSend == MindSpec => []EveryTurnSends
<1>1. MindTypeOK => EveryTurnSends
  BY DEF MindTypeOK, EveryTurnSends, Request, PlainVerb, Nothing, Command
<1> QED  BY <1>1, MindTypes, PTL

-----------------------------------------------------------------------------
(***************************************************************************)
(* Where the bot is, and what it has written down.                         *)
(***************************************************************************)
LEMMA DirectionsTurn ==
  ASSUME hatched \in Direction, NEW n \in 0 .. 3
  PROVE  LET d == TrueDirection(n)
             f == FORWARD_VECTORS[n + 1]
             r == RIGHT_VECTORS[n + 1]
         IN  /\ d \in Direction
             /\ Forward(d)[1] = f[1] * Side(hatched)[1] - f[2] * Forward(hatched)[1]
             /\ Forward(d)[2] = f[1] * Side(hatched)[2] - f[2] * Forward(hatched)[2]
             /\ Side(d)[1] = r[1] * Side(hatched)[1] - r[2] * Forward(hatched)[1]
             /\ Side(d)[2] = r[1] * Side(hatched)[2] - r[2] * Forward(hatched)[2]
<1> USE DEF TrueDirection, FORWARD_VECTORS, RIGHT_VECTORS, TurnRight, TurnLeft, Forward, Side
<1>1. CASE hatched = "UP"
  BY <1>1 DEF Direction
<1>2. CASE hatched = "DOWN"
  BY <1>2 DEF Direction
<1>3. CASE hatched = "LEFT"
  BY <1>3 DEF Direction
<1>4. CASE hatched = "RIGHT"
  BY <1>4 DEF Direction
<1> QED  BY <1>1, <1>2, <1>3, <1>4 DEF Direction

LEMMA TrueTileOfSum ==
  ASSUME hatched \in Folded,
         NEW x \in Int, NEW y \in Int, NEW a \in Int, NEW b \in Int,
         NEW p, p = <<(x + a) % Width, (y + b) % Height>>
  PROVE  TrueTile(p) =
           <<(TrueTile(<<x, y>>)[1] + a * Side(hatched)[1] - b * Forward(hatched)[1]) % Width,
             (TrueTile(<<x, y>>)[2] + a * Side(hatched)[2] - b * Forward(hatched)[2]) % Height>>
<1> USE SizeAssumption
<1>0. /\ (x + a) % Width \in Int /\ (y + b) % Height \in Int
      /\ x % Width \in Int /\ y % Height \in Int
      /\ (-x) % Width \in Int /\ (-y) % Height \in Int
  <2>1. /\ x + a \in Int /\ y + b \in Int /\ -x \in Int /\ -y \in Int
    OBVIOUS
  <2> QED  BY <2>1, RemainderRange
<1>1. /\ ((x + a) % Width) % Width = ((x % Width) + a) % Width
      /\ (-((x + a) % Width)) % Width = (((-x) % Width) - a) % Width
      /\ ((y + b) % Height) % Height = ((y % Height) + b) % Height
      /\ (-((y + b) % Height)) % Height = (((-y) % Height) - b) % Height
  BY AxisOfSum
<1>2. CASE hatched = "UP"
  <2>1. \A u, v \in Int : TrueTile(<<u, v>>) = <<u % Width, v % Height>>
    BY <1>2 DEF TrueTile, Forward, Side
  <2> QED  BY <1>0, <1>1, <1>2, <2>1 DEF Forward, Side
<1>3. CASE hatched = "DOWN"
  <2>1. \A u, v \in Int : TrueTile(<<u, v>>) = <<(-u) % Width, (-v) % Height>>
    BY <1>3 DEF TrueTile, Forward, Side
  <2> QED  BY <1>0, <1>1, <1>3, <2>1 DEF Forward, Side
<1>4. CASE hatched = "LEFT" /\ Width = Height
  <2>1. \A u, v \in Int : TrueTile(<<u, v>>) = <<v % Width, (-u) % Height>>
    BY <1>4 DEF TrueTile, Forward, Side
  <2> QED  BY <1>0, <1>1, <1>4, <2>1 DEF Forward, Side
<1>5. CASE hatched = "RIGHT" /\ Width = Height
  <2>1. \A u, v \in Int : TrueTile(<<u, v>>) = <<(-v) % Width, u % Height>>
    BY <1>5 DEF TrueTile, Forward, Side
  <2> QED  BY <1>0, <1>1, <1>5, <2>1 DEF Forward, Side
<1> QED  BY <1>2, <1>3, <1>4, <1>5 DEF Folded, Direction

LEMMA TrueTileInjective ==
  ASSUME hatched \in Folded, NEW p \in Tile, NEW q \in Tile, TrueTile(p) = TrueTile(q)
  PROVE  p = q
<1> USE SizeAssumption
<1>0. /\ p[1] \in 0 .. Width - 1 /\ p[2] \in 0 .. Height - 1 /\ p = <<p[1], p[2]>>
      /\ q[1] \in 0 .. Width - 1 /\ q[2] \in 0 .. Height - 1 /\ q = <<q[1], q[2]>>
  BY DEF Tile
<1>1. CASE hatched = "UP"
  <2>1. \A t \in {p, q} : TrueTile(t) = <<t[1] % Width, t[2] % Height>>
    BY <1>0, <1>1 DEF TrueTile, Forward, Side
  <2> QED  BY <1>0, <2>1, RemainderIsItself
<1>2. CASE hatched = "DOWN"
  <2>1. \A t \in {p, q} : TrueTile(t) = <<(-t[1]) % Width, (-t[2]) % Height>>
    BY <1>0, <1>2 DEF TrueTile, Forward, Side
  <2> QED  BY <1>0, <2>1, NegativesDiffer
<1>3. CASE hatched = "LEFT" /\ Width = Height
  <2>1. \A t \in {p, q} : TrueTile(t) = <<t[2] % Width, (-t[1]) % Height>>
    BY <1>0, <1>3 DEF TrueTile, Forward, Side
  <2> QED  BY <1>0, <1>3, <2>1, NegativesDiffer, RemainderIsItself
<1>4. CASE hatched = "RIGHT" /\ Width = Height
  <2>1. \A t \in {p, q} : TrueTile(t) = <<(-t[2]) % Width, t[1] % Height>>
    BY <1>0, <1>4 DEF TrueTile, Forward, Side
  <2> QED  BY <1>0, <1>4, <2>1, NegativesDiffer, RemainderIsItself
<1> QED  BY <1>1, <1>2, <1>3, <1>4 DEF Folded, Direction

LEMMA TrueTileIsTile ==
  ASSUME hatched \in Folded, NEW p \in Tile
  PROVE  TrueTile(p) \in Tile
<1>1. Side(hatched) \in Int \X Int /\ Forward(hatched) \in Int \X Int
  BY DEF Side, Forward, Folded, Direction
<1>2. p[1] \in Int /\ p[2] \in Int
  BY DEF Tile
<1>3. PICK x \in Int, y \in Int : TrueTile(p) = <<x % Width, y % Height>>
  BY <1>1, <1>2 DEF TrueTile
<1>4. x % Width \in 0 .. Width - 1 /\ y % Height \in 0 .. Height - 1
  BY SizeAssumption, RemainderRange
<1> QED  BY <1>3, <1>4 DEF Tile

LEMMA TrueTileOfOffset ==
  ASSUME hatched \in Folded, NEW b \in BotState, NEW i \in Int, NEW j \in Int
  PROVE  LET f == Forward(TrueDirection(b.dir))
             s == Side(TrueDirection(b.dir))
         IN  TrueTile(absolute_offset(b, i, j)) =
               <<(TrueTile(b.pos)[1] + i * f[1] + j * s[1]) % Width,
                 (TrueTile(b.pos)[2] + i * f[2] + j * s[2]) % Height>>
<1> DEFINE f == FORWARD_VECTORS[b.dir + 1]
           r == RIGHT_VECTORS[b.dir + 1]
           F == Forward(TrueDirection(b.dir))
           S == Side(TrueDirection(b.dir))
<1>1. b.dir \in 0 .. 3 /\ b.pos[1] \in Int /\ b.pos[2] \in Int /\ b.pos = <<b.pos[1], b.pos[2]>>
  BY DEF BotState, Tile
<1>2. f \in Int \X Int /\ r \in Int \X Int
  BY <1>1 DEF FORWARD_VECTORS, RIGHT_VECTORS
<1>3. PICK a \in Int, c \in Int : a = i * f[1] + j * r[1] /\ c = i * f[2] + j * r[2]
  BY <1>2
<1>4. absolute_offset(b, i, j) = <<(b.pos[1] + a) % Width, (b.pos[2] + c) % Height>>
  <2>1. /\ b.pos[1] + i * f[1] + j * r[1] = b.pos[1] + a
        /\ b.pos[2] + i * f[2] + j * r[2] = b.pos[2] + c
    BY <1>1, <1>2, <1>3
  <2> QED  BY <2>1 DEF absolute_offset, ForwardVector, RightVector
<1>5. hatched \in Direction
  BY DEF Folded, Direction
<1>6. TrueTile(absolute_offset(b, i, j)) =
        <<(TrueTile(b.pos)[1] + a * Side(hatched)[1] - c * Forward(hatched)[1]) % Width,
          (TrueTile(b.pos)[2] + a * Side(hatched)[2] - c * Forward(hatched)[2]) % Height>>
  <2>1. PICK x \in Int, y \in Int : b.pos[1] = x /\ b.pos[2] = y /\ b.pos = <<x, y>>
    BY <1>1
  <2>2. absolute_offset(b, i, j) = <<(x + a) % Width, (y + c) % Height>>
    BY <1>4, <2>1
  <2> HIDE DEF f, r
  <2> QED  BY <2>1, <2>2, TrueTileOfSum
<1>7. TrueTile(b.pos)[1] \in Int /\ TrueTile(b.pos)[2] \in Int
  <2>1. /\ Side(hatched) \in Int \X Int /\ Forward(hatched) \in Int \X Int
    BY <1>5 DEF Side, Forward, Direction
  <2>2. PICK u \in Int, v \in Int : TrueTile(b.pos) = <<u % Width, v % Height>>
    BY <1>1, <2>1 DEF TrueTile
  <2> QED  BY <2>2, SizeAssumption
<1>8. /\ a * Side(hatched)[1] - c * Forward(hatched)[1] = i * F[1] + j * S[1]
      /\ a * Side(hatched)[2] - c * Forward(hatched)[2] = i * F[2] + j * S[2]
  <2>1. /\ Side(hatched) \in Int \X Int /\ Forward(hatched) \in Int \X Int
    BY <1>5 DEF Side, Forward, Direction
  <2>2. /\ F[1] = f[1] * Side(hatched)[1] - f[2] * Forward(hatched)[1]
        /\ F[2] = f[1] * Side(hatched)[2] - f[2] * Forward(hatched)[2]
        /\ S[1] = r[1] * Side(hatched)[1] - r[2] * Forward(hatched)[1]
        /\ S[2] = r[1] * Side(hatched)[2] - r[2] * Forward(hatched)[2]
    BY <1>1, <1>5, DirectionsTurn
  <2> HIDE DEF f, r, F, S
  <2> QED  BY <1>2, <1>3, <2>1, <2>2
<1>9. F[1] \in Int /\ F[2] \in Int /\ S[1] \in Int /\ S[2] \in Int
  <2>1. TrueDirection(b.dir) \in Direction
    BY <1>1, <1>5, DirectionsTurn
  <2> QED  BY <2>1 DEF Forward, Side, Direction
<1> HIDE DEF F, S
<1>10. /\ TrueTile(b.pos)[1] + a * Side(hatched)[1] - c * Forward(hatched)[1] =
            TrueTile(b.pos)[1] + i * F[1] + j * S[1]
       /\ TrueTile(b.pos)[2] + a * Side(hatched)[2] - c * Forward(hatched)[2] =
            TrueTile(b.pos)[2] + i * F[2] + j * S[2]
  <2>1. /\ Side(hatched) \in Int \X Int /\ Forward(hatched) \in Int \X Int
    BY <1>5 DEF Side, Forward, Direction
  <2> QED  BY <1>7, <1>8, <1>9, <2>1
<1> QED  BY <1>6, <1>10 DEF F, S

(* The bot as it is once it has read the answer that is on its way. *)
Caught == IF answer = <<>> THEN bot ELSE onComplete(bot, command, answer[1])

Placed(b, t, d) == TrueTile(b.pos) = t /\ TrueDirection(b.dir) = d

(* What a bot that is alone has written down lies there. *)
Seen(b, lies) ==
  /\ \A p \in Tile : b.known[p] \subseteq lies[TrueTile(p)]
  /\ Looked(b) => /\ b.look[1].at = b.pos
                  /\ b.look[1].seen[<<0, 0>>] \subseteq lies[TrueTile(b.pos)]

(***************************************************************************)
(* A bot that is alone takes only what it sees under it, and walks only    *)
(* when it has forgotten its view, so that a view is always of its place:  *)
(* also when it only walks on after a turn (nav_force_forward).            *)
(***************************************************************************)
Steady(b) ==
  /\ Looked(b) => b.look[1].at = b.pos
  /\ b.nav_force_forward => ~Looked(b) /\ b.seek_position # b.pos

Composed(b, cmd) ==
  /\ Steady(b)
  /\ cmd.verb \notin {"Set", "Incantation"}
  /\ cmd.verb = "Forward" => ~Looked(b)
  /\ cmd.verb = "Take" => Looked(b)
  /\ b.nav_force_forward => cmd.verb \notin {"Forward", "Look", "Take"}

MindInv ==
  /\ MindTypeOK
  /\ hatched \in Folded
  /\ Placed(Caught, at, facing)
  /\ alone => Seen(Caught, ground) /\ Composed(bot, command)

(* What a turn leaves as it is. *)
Same(a, b) ==
  /\ a.pos = b.pos /\ a.dir = b.dir /\ a.known = b.known
  /\ a.look \in {b.look, <<>>}

Keeps(node, b) == \A o \in node : Same(o.bot, b)

LEMMA SendKeeps ==
  ASSUME NEW a, NEW b, Same(a, b), NEW verb, NEW object
  PROVE  Keeps(send(a, verb, object), b) /\ Keeps(say(a, verb), b)
BY DEF Keeps, send, say

LEMMA BlindKeeps ==
  ASSUME NEW a \in BotState, NEW b, Same(a, b)
  PROVE  Blind(a) \in BotState /\ Same(Blind(a), b)
BY DEF BotState, Blind, Same

LEMMA StepKeeps ==
  ASSUME NEW a \in BotState, NEW b, Same(a, b), NEW forward, NEW lateral
  PROVE  Keeps(step_towards(a, forward, lateral), b)
<1>1. Same([a EXCEPT !.nav_force_forward = TRUE], b)
  BY DEF BotState, Same
<1> QED  BY <1>1, SendKeeps DEF step_towards, sendNothing

LEMMA ForceKeeps ==
  ASSUME NEW a \in BotState, NEW b, Same(a, b)
  PROVE  Keeps(forceForward(a), b)
<1>1. Same([a EXCEPT !.nav_force_forward = FALSE], b)
  BY DEF BotState, Same
<1> QED  BY <1>1, SendKeeps DEF forceForward

LEMMA NavigateKeeps ==
  ASSUME NEW a \in BotState, NEW b, Same(a, b), NEW object
  PROVE  Keeps(navigate_towards(a, object), b)
<1>1. Keeps(forceForward(a), b)
  BY ForceKeeps
<1>2. Keeps(say(a, "Look"), b) /\ Keeps(say(Blind(a), "Forward"), b)
  BY SendKeeps, BlindKeeps
<1>3. \A i, j : Keeps(step_towards(Blind(a), i, j), b)
  BY StepKeeps, BlindKeeps
<1> QED  BY <1>1, <1>2, <1>3 DEF navigate_towards

LEMMA SeekKeeps ==
  ASSUME NEW a \in BotState, NEW b, Same(a, b), NEW object
  PROVE  Keeps(seek_resource(a, object), b)
<1> DEFINE inSight == Looked(a) /\ \E c \in View(Level) : object \in a.look[1].seen[c]
           forget  == [a EXCEPT !.seek_position = <<>>]
           targets == IF a.seek_position # <<>> THEN {a.seek_position} ELSE nearest_known(a, object)
           going(p) == [Blind(a) EXCEPT !.seek_position = p]
<1>1. forget \in BotState /\ Same(forget, b)
  BY DEF BotState, Place, Same
<1>2. Keeps(say(Blind(forget), "Look"), b)
  BY <1>1, BlindKeeps, SendKeeps
<1>3. Keeps(navigate_towards(forget, object), b) /\ Keeps(navigate_towards(a, object), b)
  BY <1>1, NavigateKeeps
<1>4. \A p \in targets : Keeps(navigate_towards_position(going(p), p), b)
  <2> SUFFICES ASSUME NEW p \in targets
               PROVE  Keeps(navigate_towards_position(going(p), p), b)
    OBVIOUS
  <2>1. p \in Tile
    BY DEF BotState, Place, nearest_known, Nearest
  <2>2. going(p) \in BotState /\ Same(going(p), b)
    BY <2>1, BlindKeeps DEF BotState, Place, Same
  <2> HIDE DEF going, targets
  <2> QED  BY <2>2, ForceKeeps, StepKeeps DEF navigate_towards_position
<1>5. Keeps(UNION {navigate_towards_position(going(p), p) : p \in targets}, b)
  BY <1>4 DEF Keeps
<1> QED  BY <1>2, <1>3, <1>5 DEF seek_resource

LEMMA SurvivorKeeps ==
  ASSUME NEW b \in BotState
  PROVE  Keeps(survivor(b), b)
<1>1. Same(b, b)
  BY DEF Same
<1>2. Keeps(seek_resource(b, "food"), b) /\ Keeps(send(b, "Take", "food"), b)
  BY <1>1, SeekKeeps, SendKeeps
<1> QED  BY <1>2 DEF survivor, selector, sequence, Keeps

LEMMA DepositKeeps ==
  ASSUME NEW a, NEW b, Same(a, b)
  PROVE  Keeps(deposit_here_or_look(a), b)
BY SendKeeps DEF deposit_here_or_look

LEMMA ApproachKeeps ==
  ASSUME NEW a \in BotState, NEW b, Same(a, b), NEW heading
  PROVE  Keeps(approach(a, heading), b)
<1>1. \A verb : Keeps(say(Blind(a), verb), b)
  BY BlindKeeps, SendKeeps
<1>2. Keeps(step_towards_sound(a, heading), b)
  BY <1>1, Zenon DEF step_towards_sound
<1> QED  BY <1>2, DepositKeeps DEF approach

LEMMA CollectorKeeps ==
  ASSUME NEW b \in BotState, NEW call \in Call
  PROVE  Keeps(collector(b, call), b)
<1> DEFINE beacon == [b EXCEPT !.deposit_position = beaconAt(b, call.heading)]
<1>1. Same(b, b) /\ beacon \in BotState /\ Same(beacon, b)
  <2>1. beaconAt(b, call.heading) \in Place
    BY DEF beaconAt, Place, BotState
  <2> QED  BY <2>1 DEF BotState, Same
<1>2. /\ Keeps(deposit_here_or_look(b), b) /\ Keeps(deposit_here_or_look(beacon), b)
      /\ Keeps(approach(b, call.heading), b) /\ Keeps(approach(beacon, call.heading), b)
      /\ Keeps(send(beacon, "Take", missing_resource(b)), b)
      /\ Keeps(seek_resource(beacon, missing_resource(b)), b)
  <2> HIDE DEF beacon
  <2> QED  BY <1>1, DepositKeeps, ApproachKeeps, SendKeeps, SeekKeeps
<1>3. \A first, second : Keeps(first, b) /\ Keeps(second, b) => Keeps(selector(first, second), b)
  BY DEF selector
<1>4. \A condition, node : Keeps(node, b) => Keeps(sequence(condition, node), b)
  BY DEF sequence, Keeps
<1> HIDE DEF beacon
<1> QED  BY <1>2, <1>3, <1>4, Zenon DEF collector, beacon

LEMMA TickKeeps ==
  ASSUME NEW b \in BotState
  PROVE  Keeps(tick(b), b)
<1>1. Same(b, b)
  BY DEF Same
<1>2. \A verb : Keeps(say(b, verb), b)
  BY <1>1, SendKeeps
<1>3. Keeps(survivor(b), b) /\ Keeps(forker(b), b) /\ Keeps(leader(b), b)
  BY <1>2, SurvivorKeeps DEF forker, leader, sequence, Keeps
<1>4. Keeps(Tree(b), b)
  BY <1>3, CollectorKeeps DEF Tree, Keeps
<1> QED  BY <1>2, <1>4 DEF tick, Keeps

-----------------------------------------------------------------------------
(* The turns of a bot that is alone. *)
Careful(node) == \A o \in node : Composed(o.bot, o.command)

LEMMA NowhereIsNoPlace ==
  ASSUME NEW b \in BotState
  PROVE  <<>> # b.pos
BY DEF BotState, Tile

LEMMA BlindIsCareful ==
  ASSUME NEW b \in BotState, ~b.nav_force_forward, NEW verb \in PlainVerb, verb # "Incantation"
  PROVE  Careful(say(Blind(b), verb))
BY DEF Careful, say, send, Command, Composed, Steady, Blind, Looked, BotState, PlainVerb

LEMMA StepIsCareful ==
  ASSUME NEW b \in BotState, ~Looked(b), ~b.nav_force_forward, b.seek_position # b.pos,
         NEW forward, NEW lateral
  PROVE  Careful(step_towards(b, forward, lateral))
<1> DEFINE turning == [b EXCEPT !.nav_force_forward = TRUE]
<1>1. turning.pos = b.pos /\ turning.look = b.look /\ turning.seek_position = b.seek_position
  BY DEF BotState
<1>2. Careful(say(turning, "Left")) /\ Careful(say(turning, "Right"))
  <2> HIDE DEF turning
  <2> QED  BY <1>1 DEF Careful, say, send, Command, Composed, Steady, Looked
<1>3. Careful(sendNothing(b)) /\ Careful(say(b, "Forward"))
  BY DEF Careful, sendNothing, say, send, Command, Composed, Steady
<1> QED  BY <1>2, <1>3 DEF step_towards

LEMMA ForceIsCareful ==
  ASSUME NEW b \in BotState, ~Looked(b)
  PROVE  Careful(forceForward(b))
BY DEF Careful, forceForward, say, send, Command, Composed, Steady, Looked, BotState

LEMMA NavigateIsCareful ==
  ASSUME NEW b \in BotState, Steady(b), b.seek_position # b.pos, NEW object
  PROVE  Careful(navigate_towards(b, object))
<1>1. CASE b.nav_force_forward
  BY <1>1, ForceIsCareful DEF navigate_towards, Steady
<1>2. CASE ~b.nav_force_forward /\ ~Looked(b)
  <2>1. Careful(say(b, "Look"))
    BY <1>2 DEF Careful, say, send, Command, Composed, Steady
  <2> QED  BY <1>2, <2>1 DEF navigate_towards
<1>3. CASE ~b.nav_force_forward /\ Looked(b)
  <2>1. Careful(say(Blind(b), "Forward"))
    BY <1>3, BlindIsCareful DEF PlainVerb
  <2>2. /\ Blind(b) \in BotState /\ ~Looked(Blind(b)) /\ ~Blind(b).nav_force_forward
        /\ Blind(b).seek_position # Blind(b).pos
    BY <1>3 DEF Blind, Looked, BotState, Place
  <2>3. \A i, j : Careful(step_towards(Blind(b), i, j))
    BY <2>2, StepIsCareful
  <2> QED  BY <1>3, <2>1, <2>3 DEF navigate_towards
<1> QED  BY <1>1, <1>2, <1>3

(***************************************************************************)
(* A bot that still has to go forward has forgotten what it saw, so that   *)
(* nothing is in sight that would turn it away.                            *)
(***************************************************************************)
LEMMA SeekIsCareful ==
  ASSUME NEW b \in BotState, Steady(b), NEW object
  PROVE  Careful(seek_resource(b, object))
<1> DEFINE inSight == Looked(b) /\ \E c \in View(Level) : object \in b.look[1].seen[c]
           forget  == [b EXCEPT !.seek_position = <<>>]
           targets == IF b.seek_position # <<>> THEN {b.seek_position} ELSE nearest_known(b, object)
           going(p) == [Blind(b) EXCEPT !.seek_position = p]
<1>1. /\ forget \in BotState /\ forget.seek_position # forget.pos /\ Looked(forget) = Looked(b)
      /\ forget.nav_force_forward = b.nav_force_forward
      /\ forget.look = b.look /\ forget.pos = b.pos
  BY NowhereIsNoPlace DEF BotState, Place, Looked
<1>2. CASE b.seek_position = b.pos
  <2>1. Careful(say(Blind(forget), "Look"))
    BY <1>1, <1>2, BlindIsCareful DEF Steady, PlainVerb
  <2> QED  BY <1>2, <2>1 DEF seek_resource
<1>3. CASE b.seek_position # b.pos /\ inSight
  <2>1. Steady(forget)
    <3> HIDE DEF forget
    <3> QED  BY <1>1, <1>3 DEF Steady
  <2>2. Careful(navigate_towards(forget, object))
    BY <1>1, <2>1, NavigateIsCareful
  <2> QED  BY <1>3, <2>2 DEF seek_resource
<1>4. CASE b.seek_position # b.pos /\ ~inSight /\ targets = {}
  BY <1>4, NavigateIsCareful DEF seek_resource
<1>5. CASE b.seek_position # b.pos /\ ~inSight /\ targets # {}
  <2>1. targets \subseteq Tile \ {b.pos}
    BY <1>5 DEF BotState, Place, nearest_known, Nearest
  <2>2. ASSUME NEW p \in targets
        PROVE  Careful(navigate_towards_position(going(p), p))
    <3>1. /\ going(p) \in BotState /\ ~Looked(going(p)) /\ going(p).seek_position # going(p).pos
      BY <2>1 DEF Blind, Looked, BotState, Place
    <3> HIDE DEF going, targets
    <3> QED  BY <3>1, ForceIsCareful, StepIsCareful DEF navigate_towards_position
  <2>3. Careful(UNION {navigate_towards_position(going(p), p) : p \in targets})
    BY <2>2 DEF Careful
  <2> QED  BY <1>5, <2>3 DEF seek_resource
<1> QED  BY <1>2, <1>3, <1>4, <1>5

LEMMA TickIsCareful ==
  ASSUME NEW b \in BotState, Steady(b), alone
  PROVE  Careful(tick(b))
<1>1. Careful(say(b, "Inventory")) /\ Careful(say(b, "Connect_nbr"))
  BY DEF Careful, say, send, Command, Composed
<1>2. LiesHere(b, "food") => Careful(send(b, "Take", "food"))
  BY DEF LiesHere, Careful, send, Command, Composed, Steady
<1>3. Careful(survivor(b))
  BY <1>2, SeekIsCareful DEF survivor, selector, sequence, Careful
<1> QED  BY <1>1, <1>3 DEF tick, Tree, Careful

-----------------------------------------------------------------------------
(* What an answer tells the bot of its place. *)
LEMMA CompletePlace ==
  ASSUME NEW b \in BotState, NEW cmd \in Request, NEW ans
  PROVE  LET a == onComplete(b, cmd, ans)
         IN  /\ a.pos = IF cmd.verb = "Forward" THEN absolute_offset(b, 1, 0) ELSE b.pos
             /\ a.dir = IF cmd.verb = "Right" THEN (b.dir + 1) % 4
                        ELSE IF cmd.verb = "Left" THEN (b.dir + -1) % 4 ELSE b.dir
             /\ a.nav_force_forward = b.nav_force_forward
             /\ a.seek_position = b.seek_position
             /\ cmd.verb \notin {"Look", "Take", "Set", "Incantation"} =>
                  a.look = b.look /\ a.known = b.known
<1> DEFINE a == onComplete(b, cmd, ans)
<1>1. CASE cmd.verb = "Forward"
  <2>1. a = [b EXCEPT !.pos = absolute_offset(b, 1, 0)]
    BY <1>1 DEF onComplete
  <2> QED  BY <1>1, <2>1 DEF BotState
<1>2. CASE cmd.verb = "Right"
  <2>1. a = [b EXCEPT !.dir = (b.dir + 1) % 4]
    BY <1>2 DEF onComplete, turned
  <2> QED  BY <1>2, <2>1 DEF BotState
<1>3. CASE cmd.verb = "Left"
  <2>1. a = [b EXCEPT !.dir = (b.dir + -1) % 4]
    BY <1>3 DEF onComplete, turned
  <2> QED  BY <1>3, <2>1 DEF BotState
<1>4. CASE cmd.verb = "Look"
  <2>1. a = record_vision(b, ans)
    BY <1>4 DEF onComplete
  <2> QED  BY <1>4, <2>1 DEF BotState, record_vision
<1>5. CASE cmd.verb = "Inventory"
  <2>1. a = [b EXCEPT !.inventory = ans]
    BY <1>5 DEF onComplete
  <2> QED  BY <1>5, <2>1 DEF BotState
<1>6. CASE cmd.verb \in {"Take", "Set"}
  <2>1. \A n, S : LET c == setHere([b EXCEPT !.inventory[cmd.object] = n], S) IN
          /\ c.pos = b.pos /\ c.dir = b.dir
          /\ c.nav_force_forward = b.nav_force_forward /\ c.seek_position = b.seek_position
    BY DEF BotState, setHere
  <2>2. \/ a = b
        \/ \E n, S : a = setHere([b EXCEPT !.inventory[cmd.object] = n], S)
    BY <1>6 DEF onComplete
  <2>3. ASSUME NEW n, NEW S, a = setHere([b EXCEPT !.inventory[cmd.object] = n], S)
        PROVE  /\ a.pos = b.pos /\ a.dir = b.dir
               /\ a.nav_force_forward = b.nav_force_forward
               /\ a.seek_position = b.seek_position
    BY <2>1, <2>3
  <2>4. /\ a.pos = b.pos /\ a.dir = b.dir
        /\ a.nav_force_forward = b.nav_force_forward
        /\ a.seek_position = b.seek_position
    <3> HIDE DEF a
    <3> QED  BY <2>2, <2>3
  <2> QED  BY <1>6, <2>4
<1>7. CASE cmd.verb = "Incantation"
  <2>1. a = [Blind(b) EXCEPT !.deposit_position = <<>>]
    BY <1>7 DEF onComplete
  <2> QED  BY <1>7, <2>1 DEF BotState, Blind
<1>8. CASE cmd.verb \in {"Connect_nbr", "Fork", "Broadcast"}
  <2>1. a = b
    BY <1>8 DEF onComplete
  <2> QED  BY <1>8, <2>1
<1> QED  BY <1>1, <1>2, <1>3, <1>4, <1>5, <1>6, <1>7, <1>8 DEF Request, PlainVerb

LEMMA StepIsPlaced ==
  ASSUME NEW b \in BotState, NEW t \in Tile, NEW d \in Direction, hatched \in Folded,
         Placed(b, t, d)
  PROVE  TrueTile(absolute_offset(b, 1, 0)) = Move(t, d)
<1>1. PICK one \in Int, zero \in Int : one = 1 /\ zero = 0
  OBVIOUS
<1>2. TrueTile(absolute_offset(b, one, zero)) =
        <<(t[1] + one * Forward(d)[1] + zero * Side(d)[1]) % Width,
          (t[2] + one * Forward(d)[2] + zero * Side(d)[2]) % Height>>
  BY TrueTileOfOffset DEF Placed
<1>3. /\ t[1] + one * Forward(d)[1] + zero * Side(d)[1] = t[1] + Forward(d)[1]
      /\ t[2] + one * Forward(d)[2] + zero * Side(d)[2] = t[2] + Forward(d)[2]
  BY <1>1 DEF Forward, Side, Direction, Tile
<1> QED  BY <1>1, <1>2, <1>3, MoveAdds

LEMMA TurnIsPlaced ==
  ASSUME NEW n \in 0 .. 3, hatched \in Direction
  PROVE  /\ TrueDirection((n + 1) % 4) = TurnRight(TrueDirection(n))
         /\ TrueDirection((n + -1) % 4) = TurnLeft(TrueDirection(n))
<1> USE DEF TrueDirection, TurnRight, TurnLeft
<1>1. CASE hatched = "UP"
  BY <1>1
<1>2. CASE hatched = "DOWN"
  BY <1>2
<1>3. CASE hatched = "LEFT"
  BY <1>3
<1>4. CASE hatched = "RIGHT"
  BY <1>4
<1> QED  BY <1>1, <1>2, <1>3, <1>4 DEF Direction

(***************************************************************************)
(* What the bot sees at an offset on its own map is what look() shows it   *)
(* there: the map wraps as the world does.                                 *)
(***************************************************************************)
LEMMA OffsetIsSeen ==
  ASSUME NEW b \in BotState, NEW t \in Tile, NEW d \in Direction, hatched \in Folded,
         Placed(b, t, d), NEW c \in View(Level)
  PROVE  TrueTile(absolute_offset(b, c[1], c[2])) = LookTile(t, d, c[1], c[2])
<1>1. PICK i \in Int, j \in Int : c[1] = i /\ c[2] = j
  BY MindAssumption DEF View
<1>2. TrueTile(absolute_offset(b, i, j)) =
        <<(t[1] + i * Forward(d)[1] + j * Side(d)[1]) % Width,
          (t[2] + i * Forward(d)[2] + j * Side(d)[2]) % Height>>
  BY TrueTileOfOffset DEF Placed
<1>3. /\ i * Forward(d)[1] = Forward(d)[1] * i /\ j * Side(d)[1] = Side(d)[1] * j
      /\ i * Forward(d)[2] = Forward(d)[2] * i /\ j * Side(d)[2] = Side(d)[2] * j
  BY DEF Forward, Side, Direction
<1>4. Level \in Nat /\ Level <= Width /\ Level <= Height
  BY MindAssumption, SizeAssumption
<1> QED  BY <1>1, <1>2, <1>3, <1>4, LookAdds

LEMMA LookIsSeen ==
  ASSUME NEW b \in BotState, NEW t \in Tile, NEW d \in Direction, hatched \in Folded,
         Placed(b, t, d), NEW lies \in [Tile -> SUBSET Object], Seen(b, lies),
         NEW view, view = [c \in View(Level) |-> lies[LookTile(t, d, c[1], c[2])]]
  PROVE  Seen(record_vision(b, view), lies)
<1> DEFINE a == record_vision(b, view)
           shown(p) == {c \in View(Level) : absolute_offset(b, c[1], c[2]) = p}
<1>1. /\ a.pos = b.pos /\ a.look = <<[at |-> b.pos, seen |-> view]>>
      /\ \A p \in Tile :
           a.known[p] = IF shown(p) = {} THEN b.known[p] ELSE view[CHOOSE c \in shown(p) : TRUE]
  BY DEF record_vision, BotState
<1>2. \A c \in View(Level) : view[c] = lies[TrueTile(absolute_offset(b, c[1], c[2]))]
  BY OffsetIsSeen
<1> HIDE DEF a
<1>3. ASSUME NEW p \in Tile
      PROVE  a.known[p] \subseteq lies[TrueTile(p)]
  <2>1. CASE shown(p) = {}
    <3> HIDE DEF shown
    <3> QED  BY <1>1, <2>1 DEF Seen
  <2>2. CASE shown(p) # {}
    <3>1. PICK c \in shown(p) : c = CHOOSE e \in shown(p) : TRUE
      BY <2>2
    <3>2. c \in View(Level) /\ absolute_offset(b, c[1], c[2]) = p
      BY <3>1
    <3>3. a.known[p] = view[c]
      <4> HIDE DEF shown
      <4> QED  BY <1>1, <2>2, <3>1
    <3> QED  BY <1>2, <3>2, <3>3
  <2> QED  BY <2>1, <2>2
<1>4. a.look[1].seen[<<0, 0>>] \subseteq lies[TrueTile(b.pos)]
  <2>1. <<0, 0>> \in View(Level)
    BY MindAssumption DEF View
  <2>2. TrueTile(absolute_offset(b, 0, 0)) = TrueTile(b.pos)
    <3>1. b.pos[1] \in 0 .. Width - 1 /\ b.pos[2] \in 0 .. Height - 1 /\ b.pos = <<b.pos[1], b.pos[2]>>
      BY DEF BotState, Tile
    <3>2. absolute_offset(b, 0, 0) = <<b.pos[1] % Width, b.pos[2] % Height>>
      BY <3>1 DEF absolute_offset, ForwardVector, RightVector, FORWARD_VECTORS, RIGHT_VECTORS,
                  BotState
    <3> QED  BY <3>1, <3>2, SizeAssumption, RemainderIsItself
  <2>3. view[<<0, 0>>] = lies[TrueTile(b.pos)]
    BY <1>2, <2>1, <2>2
  <2> QED  BY <1>1, <2>3
<1>5. a.look[1].at = a.pos
  BY <1>1
<1>6. Seen(a, lies)
  BY <1>1, <1>3, <1>4, <1>5, Zenon DEF Seen
<1> QED  BY <1>6 DEF a

(***************************************************************************)
(* What is taken from under the bot is gone from its map, and from nowhere *)
(* else: no two places of the map stand for one tile.                      *)
(***************************************************************************)
LEMMA TakeIsSeen ==
  ASSUME NEW b \in BotState, NEW t \in Tile, NEW d, hatched \in Folded, Placed(b, t, d),
         NEW lies \in [Tile -> SUBSET Object], Seen(b, lies), Looked(b),
         NEW o \in Object, NEW n \in Int
  PROVE  Seen(setHere([b EXCEPT !.inventory[o] = n], Here(b) \ {o}),
              [lies EXCEPT ![t] = @ \ {o}])
<1> DEFINE c == [b EXCEPT !.inventory[o] = n]
           a == setHere(c, Here(b) \ {o})
           left == [lies EXCEPT ![t] = @ \ {o}]
<1>1. PICK l \in Look : b.look = <<l>>
  BY DEF BotState, Looked
<1>2. c \in BotState /\ c.look = b.look /\ c.pos = b.pos /\ c.known = b.known
  BY DEF BotState
<1>3. l.at = b.pos /\ l.seen[<<0, 0>>] \subseteq lies[t] /\ Here(b) = l.seen[<<0, 0>>]
  BY <1>1 DEF Seen, Placed, Here, Looked
<1>4. /\ a.pos = b.pos
      /\ a.look = <<[l EXCEPT !.seen[<<0, 0>>] = Here(b) \ {o}]>>
      /\ a.known = [b.known EXCEPT ![b.pos] = Here(b) \ {o}]
  <2>1. a = [c EXCEPT !.look[1].seen[<<0, 0>>] = Here(b) \ {o}, !.known[c.look[1].at] = Here(b) \ {o}]
    BY <1>2 DEF setHere, Looked
  <2> HIDE DEF c
  <2>2. /\ a.pos = c.pos
        /\ a.look = [c.look EXCEPT ![1].seen[<<0, 0>>] = Here(b) \ {o}]
        /\ a.known = [c.known EXCEPT ![c.look[1].at] = Here(b) \ {o}]
    BY <1>2, <2>1 DEF BotState
  <2>3. c.look[1] = l /\ c.look = <<l>>
    BY <1>1, <1>2
  <2>4. \A S : [c.look EXCEPT ![1].seen[<<0, 0>>] = S] = <<[l EXCEPT !.seen[<<0, 0>>] = S]>>
    BY <2>3
  <2> QED  BY <1>2, <1>3, <2>2, <2>3, <2>4
<1>5. b.pos \in Tile /\ b.known \in [Tile -> SUBSET Object] /\ TrueTile(b.pos) = t
  BY DEF BotState, Placed
<1>6. left[t] = lies[t] \ {o} /\ \A q \in Tile : q # t => left[q] = lies[q]
  OBVIOUS
<1>7. ASSUME NEW p \in Tile
      PROVE  a.known[p] \subseteq left[TrueTile(p)]
  <2>1. CASE p = b.pos
    <3>1. a.known[p] = Here(b) \ {o}
      BY <1>4, <1>5, <2>1
    <3> HIDE DEF a, left
    <3> QED  BY <1>3, <1>5, <1>6, <2>1, <3>1
  <2>2. CASE p # b.pos
    <3>1. a.known[p] = b.known[p]
      BY <1>4, <1>5, <2>2
    <3>2. TrueTile(p) # t
      BY <1>5, <2>2, TrueTileInjective
    <3>3. TrueTile(p) \in Tile
      BY TrueTileIsTile
    <3>4. left[TrueTile(p)] = lies[TrueTile(p)]
      BY <1>6, <3>2, <3>3
    <3> HIDE DEF a, left
    <3> QED  BY <3>1, <3>4 DEF Seen
  <2> QED  BY <2>1, <2>2
<1>8. a.look[1].at = b.pos /\ a.look[1].seen[<<0, 0>>] \subseteq left[t]
  <2>1. <<0, 0>> \in View(Level)
    BY MindAssumption DEF View
  <2>2. a.look[1].at = l.at /\ a.look[1].seen[<<0, 0>>] = Here(b) \ {o}
    <3> HIDE DEF a
    <3> QED  BY <1>4, <2>1 DEF Look, Sight
  <2> HIDE DEF a, left
  <2> QED  BY <1>3, <1>6, <2>2
<1> HIDE DEF a, left
<1>9. Seen(a, left)
  BY <1>4, <1>5, <1>7, <1>8 DEF Seen
<1> QED  BY <1>9 DEF a, left, c

LEMMA SeenIsKept ==
  ASSUME NEW a, NEW b, Same(a, b), NEW lies, Seen(b, lies)
  PROVE  Seen(a, lies)
BY DEF Same, Seen, Looked

(***************************************************************************)
(* The induction.                                                          *)
(***************************************************************************)
LEMMA StartIsTrue ==
  ASSUME Start([Tile -> SUBSET Object])
  PROVE  MindInv
<1> DEFINE b == nextTurn(Newborn)
<1>1. MindTypeOK /\ hatched \in Folded /\ answer = <<>> /\ at = <<0, 0>> /\ facing = hatched
  BY StartTypes DEF Start
<1>2. /\ b \in BotState
      /\ b.pos = <<0, 0>> /\ b.dir = 0 /\ b.look = <<>> /\ b.nav_force_forward = FALSE
      /\ \A p \in Tile : b.known[p] = {}
  BY NewbornIsBot, NextTurnIsBot DEF nextTurn, Newborn
<1> HIDE DEF b
<1>3. PICK o \in tick(b) : bot = o.bot /\ command = o.command
  BY DEF Start, b
<1>4. Same(bot, b)
  BY <1>2, <1>3, TickKeeps DEF Keeps
<1>5. Placed(b, at, facing)
  <2>1. TrueTile(<<0, 0>>) = <<0 % Width, 0 % Height>>
    BY <1>1 DEF TrueTile, Side, Forward, Folded, Direction
  <2>2. 0 % Width = 0 /\ 0 % Height = 0
    BY SizeAssumption
  <2> QED  BY <1>1, <1>2, <2>1, <2>2 DEF Placed, TrueDirection
<1>6. Seen(b, ground) /\ Steady(b)
  BY <1>2 DEF Seen, Looked, Steady
<1>7. alone => Composed(bot, command)
  BY <1>2, <1>3, <1>6, TickIsCareful DEF Careful
<1>8. Placed(bot, at, facing) /\ Seen(bot, ground)
  BY <1>4, <1>5, <1>6, SeenIsKept DEF Same, Placed
<1> QED  BY <1>1, <1>7, <1>8 DEF MindInv, Caught

LEMMA ReadIsTrue == MindInv /\ Read => MindInv'
<1> SUFFICES ASSUME MindInv, Read PROVE MindInv'
  OBVIOUS
<1>1. MindTypeOK'
  BY ReadTypes DEF MindInv
<1>2. PICK ans : answer = <<ans>> /\ MayAnswer(command, ans)
  BY DEF MindInv, MindTypeOK, Read
<1> DEFINE c == onComplete(bot, command, ans)
           b == nextTurn(c)
<1>3. Caught = c
  BY <1>2 DEF Caught
<1>4. c \in BotState /\ b \in BotState
  BY <1>2, CompleteIsBot, NextTurnIsBot DEF MindInv, MindTypeOK
<1>5. /\ b.pos = c.pos /\ b.dir = c.dir /\ b.known = c.known /\ b.look = c.look
      /\ b.nav_force_forward = c.nav_force_forward /\ b.seek_position = c.seek_position
  <2> HIDE DEF c
  <2> QED  BY <1>4 DEF nextTurn, BotState
<1>6. PICK o \in tick(b) : bot' = o.bot /\ command' = o.command
  BY <1>2 DEF Read
<1>7. Same(bot', b)
  BY <1>4, <1>6, TickKeeps DEF Keeps
<1>8. Placed(b, at, facing)
  BY <1>3, <1>5 DEF MindInv, Placed
<1>9. alone => Seen(b, ground)
  BY <1>3, <1>5 DEF MindInv, Seen, Looked
<1>10. ASSUME alone PROVE Steady(b)
  <2>1. Composed(bot, command) /\ Seen(b, ground)
    BY <1>9, <1>10 DEF MindInv
  <2>2. c.nav_force_forward =>
          c.pos = bot.pos /\ c.look = bot.look /\ c.seek_position = bot.seek_position
    BY <2>1, CompletePlace DEF MindInv, MindTypeOK, Composed
  <2>3. c.nav_force_forward = bot.nav_force_forward
    BY CompletePlace DEF MindInv, MindTypeOK
  <2> HIDE DEF b, c
  <2> QED  BY <1>5, <2>1, <2>2, <2>3 DEF Composed, Steady, Seen, Looked
<1> HIDE DEF b, c
<1>11. alone => Composed(bot', command')
  BY <1>4, <1>6, <1>10, TickIsCareful DEF Careful
<1>12. Placed(bot', at, facing) /\ (alone => Seen(bot', ground))
  BY <1>7, <1>8, <1>9, SeenIsKept DEF Same, Placed
<1>13. /\ Caught' = bot' /\ at' = at /\ facing' = facing /\ ground' = ground
       /\ hatched' = hatched /\ alone' = alone /\ hatched \in Folded
  BY DEF Read, Caught, MindInv
<1>14. Placed(Caught, at, facing)'
  BY <1>12, <1>13 DEF Placed, TrueTile, TrueDirection
<1>15. (alone => Seen(Caught, ground))'
  BY <1>12, <1>13 DEF Seen, TrueTile, Looked
<1>16. (alone => Composed(bot, command))'
  BY <1>11, <1>13 DEF Composed, Steady, Looked
<1> QED  BY <1>1, <1>13, <1>14, <1>15, <1>16 DEF MindInv, Folded

LEMMA MeddleIsTrue == MindInv /\ Meddle => MindInv'
<1> SUFFICES ASSUME MindInv, Meddle PROVE MindInv'
  OBVIOUS
<1>1. MindTypeOK'
  BY MeddleTypes DEF MindInv
<1>2. /\ ~alone /\ alone' = alone /\ hatched' = hatched /\ hatched \in Folded
      /\ at' = at /\ facing' = facing /\ answer' = answer /\ command' = command
  BY DEF Meddle, MindInv
<1>3. bot' \in BotState /\ bot'.pos = bot.pos /\ bot'.dir = bot.dir
  BY <1>1 DEF Meddle, MindInv, MindTypeOK, BotState, Blind
<1>4. Caught'.pos = Caught.pos /\ Caught'.dir = Caught.dir
  <2>1. CASE answer = <<>>
    BY <1>2, <1>3, <2>1 DEF Caught
  <2>2. CASE answer # <<>>
    <3>1. Caught = onComplete(bot, command, answer[1])
            /\ Caught' = onComplete(bot', command, answer[1])
      BY <1>2, <2>2 DEF Caught
    <3>2. absolute_offset(bot', 1, 0) = absolute_offset(bot, 1, 0)
      BY <1>3 DEF absolute_offset, ForwardVector, RightVector
    <3>3. bot \in BotState /\ command \in Request
      BY DEF MindInv, MindTypeOK
    <3> QED  BY <1>3, <3>1, <3>2, <3>3, CompletePlace
  <2> QED  BY <2>1, <2>2
<1>5. Placed(Caught, at, facing)'
  BY <1>2, <1>4 DEF MindInv, Placed, TrueTile, TrueDirection
<1> QED  BY <1>1, <1>2, <1>5 DEF MindInv, Folded

(***************************************************************************)
(* The server serves the command: the bot will read the answer as it is.   *)
(***************************************************************************)
LEMMA ServeIsTrue == MindInv /\ Serve => MindInv'
<1> SUFFICES ASSUME MindInv, Serve PROVE MindInv'
  OBVIOUS
<1>1. MindTypeOK'
  BY ServeTypes DEF MindInv
<1>2. /\ answer = <<>> /\ Caught = bot /\ bot \in BotState /\ command \in Request
      /\ hatched \in Folded /\ hatched \in Direction
      /\ at \in Tile /\ facing \in Direction /\ ground \in [Tile -> SUBSET Object]
      /\ Placed(bot, at, facing)
      /\ alone => Seen(bot, ground) /\ Composed(bot, command)
  BY DEF Serve, MindInv, MindTypeOK, Caught, Folded, Direction
<1>3. UNCHANGED <<command, bot, hatched, alone>>
  BY DEF Serve
<1>4. PICK ans : answer' = <<ans>>
  BY DEF Serve, ServeStep, ServeTurn, ServeLook, ServeInventory, ServeTake, ServeSet,
         ServeIncantation, ServeOther, Answers
<1> DEFINE c == onComplete(bot, command, ans)
<1>5. Caught' = c
  BY <1>3, <1>4 DEF Caught
<1>6. /\ c.pos = IF command.verb = "Forward" THEN absolute_offset(bot, 1, 0) ELSE bot.pos
      /\ c.dir = IF command.verb = "Right" THEN (bot.dir + 1) % 4
                 ELSE IF command.verb = "Left" THEN (bot.dir + -1) % 4 ELSE bot.dir
      /\ command.verb \notin {"Look", "Take", "Set", "Incantation"} =>
           c.look = bot.look /\ c.known = bot.known
  BY <1>2, CompletePlace
<1>7. Placed(c, at', facing')
  <2> HIDE DEF c
  <2>1. CASE ServeStep
    BY <1>2, <1>6, <2>1, StepIsPlaced DEF ServeStep, Placed
  <2>2. CASE ServeTurn
    <3>1. bot.dir \in 0 .. 3
      BY <1>2 DEF BotState
    <3> QED  BY <1>2, <1>6, <2>2, <3>1, TurnIsPlaced DEF ServeTurn, Placed
  <2>3. CASE ServeLook \/ ServeInventory \/ ServeTake \/ ServeSet \/ ServeIncantation \/ ServeOther
    <3>1. /\ command.verb \notin {"Forward", "Left", "Right"}
          /\ at' = at /\ facing' = facing
      BY <2>3 DEF ServeLook, ServeInventory, ServeTake, ServeSet, ServeIncantation, ServeOther
    <3> QED  BY <1>2, <1>6, <3>1 DEF Placed
  <2> QED  BY <2>1, <2>2, <2>3 DEF Serve
<1>8. ASSUME alone PROVE Seen(c, ground')
  <2>1. CASE ServeLook
    <3>1. ground' = ground /\ command.verb = "Look"
          /\ ans = [e \in View(Level) |-> ground[LookTile(at, facing, e[1], e[2])]]
      BY <1>4, <2>1 DEF ServeLook, Answers
    <3>2. c = record_vision(bot, ans)
      BY <3>1 DEF onComplete
    <3> HIDE DEF c
    <3> QED  BY <1>2, <1>8, <3>1, <3>2, LookIsSeen
  <2>2. CASE ServeTake
    <3> DEFINE o == command.object
    <3>1. /\ command.verb = "Take" /\ o \in Object
          /\ ground' = [ground EXCEPT ![at] = @ \ {o}] /\ ans = (o \in ground[at])
      BY <1>2, <1>4, <2>2 DEF ServeTake, Answers, Request, PlainVerb
    <3>2. CASE o \in ground[at]
      <4>1. c = setHere([bot EXCEPT !.inventory[o] = bot.inventory[o] + 1], Here(bot) \ {o})
        BY <3>1, <3>2 DEF onComplete
      <4>2. bot.inventory[o] + 1 \in Int
        BY <1>2, <3>1 DEF BotState
      <4>3. Looked(bot) /\ Seen(bot, ground)
        BY <1>2, <1>8, <3>1 DEF Composed
      <4> HIDE DEF c, o
      <4> QED  BY <1>2, <3>1, <4>1, <4>2, <4>3, TakeIsSeen
    <3>3. CASE o \notin ground[at]
      <4>1. ground' = ground
        BY <1>2, <3>1, <3>3
      <4>2. c = bot
        BY <3>1, <3>3 DEF onComplete
      <4> HIDE DEF c
      <4> QED  BY <1>2, <1>8, <4>1, <4>2
    <3> QED  BY <3>2, <3>3
  <2>3. CASE ServeStep \/ ServeTurn \/ ServeInventory \/ ServeOther
    <3>1. ground' = ground /\ command.verb \notin {"Look", "Take", "Set", "Incantation"}
      BY <2>3 DEF ServeStep, ServeTurn, ServeInventory, ServeOther
    <3>2. /\ c.look = bot.look /\ c.known = bot.known
          /\ Looked(bot) => c.pos = bot.pos
      BY <1>2, <1>6, <1>8, <3>1 DEF Composed
    <3> HIDE DEF c
    <3> QED  BY <1>2, <1>8, <3>1, <3>2 DEF Seen, Looked
  <2>4. ~ServeSet /\ ~ServeIncantation
    BY <1>2, <1>8 DEF Composed, ServeSet, ServeIncantation
  <2> QED  BY <2>1, <2>2, <2>3, <2>4 DEF Serve
<1> HIDE DEF c
<1>9. Placed(Caught, at, facing)'
  BY <1>3, <1>5, <1>7 DEF Placed, TrueTile, TrueDirection
<1>10. (alone => Seen(Caught, ground))'
  BY <1>3, <1>5, <1>8 DEF Seen, TrueTile, Looked
<1>11. (alone => Composed(bot, command))'
  BY <1>2, <1>3 DEF Composed, Steady, Looked
<1> QED  BY <1>1, <1>2, <1>3, <1>9, <1>10, <1>11 DEF MindInv, Folded

(***************************************************************************)
(* On every map and at every level the bot knows where it is and which way *)
(* it looks, whatever the policy and the others do; and what the map of a  *)
(* hungry bot that nobody interferes with shows is there (MentalMap).      *)
(***************************************************************************)
THEOREM MapStaysTrue == MindSpec => []MapIsTrue
<1>1. Start([Tile -> SUBSET Object]) => MindInv
  BY StartIsTrue
<1>2. MindInv /\ [Next]_vars => MindInv'
  <2>1. MindInv /\ UNCHANGED vars => MindInv'
    <3> SUFFICES ASSUME MindInv, UNCHANGED vars PROVE MindInv'
      OBVIOUS
    <3>1. MindTypeOK'
      BY DEF vars, MindInv, MindTypeOK, MayAnswer
    <3>2. UNCHANGED <<at, facing, ground, command, answer, bot, hatched, alone>>
      BY DEF vars
    <3>3. Caught' = Caught
      BY <3>2 DEF Caught
    <3>4. Placed(Caught, at, facing)'
      BY <3>2, <3>3 DEF MindInv, Placed, TrueTile, TrueDirection
    <3>5. (alone => Seen(Caught, ground) /\ Composed(bot, command))'
      BY <3>2, <3>3 DEF MindInv, Seen, TrueTile, Looked, Composed, Steady
    <3> QED  BY <3>1, <3>2, <3>4, <3>5 DEF MindInv, Folded
  <2> QED  BY <2>1, ReadIsTrue, ServeIsTrue, MeddleIsTrue DEF Next
<1>3. MindInv => MapIsTrue
  BY DEF MindInv, MapIsTrue, Caught, Placed, Seen
<1> QED  BY <1>1, <1>2, <1>3, PTL DEF MindSpec
=============================================================================
