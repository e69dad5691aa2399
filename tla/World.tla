------------------------------- MODULE World -------------------------------
(***************************************************************************)
(* The game world: libs/game.  A World owns the tiles; a tile holds        *)
(* resources, the players (Trantorian) standing on it and the eggs lying   *)
(* on it; each team has a number of free slots.  A player keeps its own    *)
(* copy of its position, and the tile keeps a list of its players: the     *)
(* code updates the two separately, so they are two variables here (pos    *)
(* and on).                                                                *)
(*                                                                         *)
(* Each operation of World and Trantorian is an operator of the same name  *)
(* that says what the operation does in every state; WorldNext lets any    *)
(* player that stands on the map perform any of them at any time.          *)
(* Server.tla drives the same operators from clients' commands.            *)
(*                                                                         *)
(* A tile's players are a set: their order in the vector shows only in the *)
(* order of messages.  Timers are left to chance: any set of players may   *)
(* lose a life at any call of checkLives.                                  *)
(***************************************************************************)
EXTENDS Torus, FiniteSets, Functions

CONSTANTS
  Players,          \* the players that may ever be hatched
  Teams,            \* the team names; no team is named twice
  InitSlots,        \* clientsNb: the slots, and eggs, a team starts with
  Resource,         \* the kinds of resource, food among them
  Target,           \* how much of each resource a respawn brings the map to
  MaxLevel,         \* the highest level
  PlayersNeeded,    \* ELEVATION_TABLE: players of the level, for each level
  StonesNeeded,     \* ELEVATION_TABLE: resources on the tile, for each level
  Winners,          \* players of the highest level that win the game
  InitLife,         \* the lives a player starts with
  MaxTarget         \* the largest of the Targets

ASSUME WorldAssumption ==
  /\ InitSlots \in Nat
  /\ IsFiniteSet(Teams)
  /\ "nobody" \notin Teams
  /\ MaxTarget \in Nat
  /\ Target \in [Resource -> 0 .. MaxTarget]
  /\ MaxLevel \in Nat \ {0}
  /\ PlayersNeeded \in [1 .. MaxLevel - 1 -> Nat]
  /\ StonesNeeded \in [1 .. MaxLevel - 1 -> [Resource -> Nat]]
  /\ InitLife \in Nat \ {0}

(* Players are numbered with machine integers. *)
ASSUME PlayersAssumption == IsFiniteSet(Players)

VARIABLES
  hatched,          \* the players whose egg has hatched
  team, lvl, life, frozen, inv,
  pos, dir,         \* where a player says it is, and the way it faces
  on,               \* the players each tile lists
  stones,           \* the resources each tile holds
  eggs, nextEgg,    \* the eggs on the map, and the next egg's id
  slots             \* _teams: the free slots of each team

placeVars  == <<pos, dir, on>>
ritualVars == <<lvl, frozen>>
stoneVars  == <<inv, stones>>
eggVars    == <<eggs, nextEgg, slots>>
worldVars  == <<hatched, team, life, placeVars, ritualVars, stoneVars, eggVars>>

NoTeam == "nobody"

Egg == [id : Nat, team : Teams, tile : Tile]

TeamEggs(t) == {e \in eggs : e.team = t}

InPlay(p) == p \in on[pos[p]]

(* How much of a resource lies on the map, and how much the players hold. *)
OnMap(r) == FoldFunction(+, 0, [t \in Tile |-> stones[t][r]])
Carried(r) == FoldFunction(+, 0, [p \in Players |-> inv[p][r]])

(* There are no more than n of any resource. *)
AtMost(n) == \A r \in Resource : OnMap(r) + Carried(r) <= n

-----------------------------------------------------------------------------
(* Trantorian's constructor: what everyone that hatches starts with. *)
newTrantorian ==
  /\ lvl = [p \in Players |-> 1]
  /\ life = [p \in Players |-> InitLife]
  /\ frozen = [p \in Players |-> FALSE]
  /\ inv = [p \in Players |-> [r \in Resource |-> 0]]

(***************************************************************************)
(* spawnEggs, for all teams: each gets InitSlots eggs, each on a tile      *)
(* drawn at random.  (Ids are given team by team in the code; which team   *)
(* has which id makes no difference.)                                      *)
(***************************************************************************)
spawnEggs ==
  /\ nextEgg = Cardinality(Teams) * InitSlots
  /\ \E owner \in [0 .. nextEgg - 1 -> Teams], at \in [0 .. nextEgg - 1 -> Tile] :
       /\ \A t \in Teams :
            Cardinality({i \in 0 .. nextEgg - 1 : owner[i] = t}) = InitSlots
       /\ eggs = {[id |-> i, team |-> owner[i], tile |-> at[i]] :
                    i \in 0 .. nextEgg - 1}

(***************************************************************************)
(* The constructor: every team gets InitSlots slots and as many eggs.      *)
(* Players that have not hatched have the values they will start with.     *)
(* The server then calls generateResources() once, before anyone connects. *)
(***************************************************************************)
WorldInit ==
  /\ hatched = {}
  /\ team = [p \in Players |-> NoTeam]
  /\ newTrantorian
  /\ pos = [p \in Players |-> <<0, 0>>]
  /\ dir = [p \in Players |-> "UP"]
  /\ on = [t \in Tile |-> {}]
  /\ stones \in [Tile -> [Resource -> 0 .. MaxTarget]]
  /\ \A r \in Resource : OnMap(r) = Target[r]
  /\ slots = [t \in Teams |-> InitSlots]
  /\ spawnEggs

(***************************************************************************)
(* hatchEgg: one of the team's eggs, drawn at random, becomes a player     *)
(* that faces a random way.  chooseEgg throws when the team has no slot,   *)
(* and when it has a slot but no egg: then nothing is enabled here.        *)
(***************************************************************************)
hatchEgg(p, t) ==
  /\ slots[t] > 0
  /\ \E e \in TeamEggs(t), d \in Direction :
       /\ eggs' = eggs \ {e}
       /\ slots' = [slots EXCEPT ![t] = @ - 1]
       /\ hatched' = hatched \cup {p}
       /\ team' = [team EXCEPT ![p] = t]
       /\ pos' = [pos EXCEPT ![p] = e.tile]
       /\ dir' = [dir EXCEPT ![p] = d]
       /\ on' = [on EXCEPT ![e.tile] = @ \cup {p}]
  /\ UNCHANGED <<nextEgg, life, ritualVars, stoneVars>>

(***************************************************************************)
(* moveTrantorian, for each player of S: the player faces the given way,   *)
(* steps, leaves the list of the tile it says it was on and enters that of *)
(* the one it has reached.                                                 *)
(***************************************************************************)
moveTrantorian(S, facing) ==
  /\ dir' = [p \in Players |-> IF p \in S THEN facing[p] ELSE dir[p]]
  /\ pos' = [p \in Players |-> IF p \in S THEN Move(pos[p], facing[p]) ELSE pos[p]]
  /\ on' = [t \in Tile |-> {p \in on[t] : ~(p \in S /\ pos[p] = t)}
                             \cup {p \in S : Move(pos[p], facing[p]) = t}]

forward(p) ==
  /\ moveTrantorian({p}, dir)
  /\ UNCHANGED <<hatched, team, life, ritualVars, stoneVars, eggVars>>

turn(p, way) ==
  /\ dir' = [dir EXCEPT ![p] = way]
  /\ UNCHANGED <<hatched, team, life, pos, on, ritualVars, stoneVars, eggVars>>

left(p)  == turn(p, TurnLeft(dir[p]))
right(p) == turn(p, TurnRight(dir[p]))

(***************************************************************************)
(* eject: everyone else on the tile is moved the way p faces, and the eggs *)
(* on the tile are destroyed; the slots of their teams are left as they    *)
(* are.  It fails when p is alone.                                         *)
(***************************************************************************)
TileMates(p) == on[pos[p]] \ {p}

CanEject(p) == Cardinality(on[pos[p]]) >= 2

eject(p) ==
  /\ CanEject(p)
  /\ moveTrantorian(TileMates(p), [q \in Players |-> dir[p]])
  /\ eggs' = {e \in eggs : e.tile # pos[p]}
  /\ UNCHANGED <<hatched, team, life, ritualVars, stoneVars, nextEgg, slots>>

(* take, in which the resource also stays on the tile. *)
takeCopy(p, r) ==
  /\ stones[pos[p]][r] > 0
  /\ inv' = [inv EXCEPT ![p][r] = @ + 1]
  /\ UNCHANGED <<hatched, team, life, placeVars, ritualVars, stones, eggVars>>

take(p, r) ==
  /\ stones[pos[p]][r] > 0
  /\ inv' = [inv EXCEPT ![p][r] = @ + 1]
  /\ stones' = [stones EXCEPT ![pos[p]][r] = @ - 1]
  /\ UNCHANGED <<hatched, team, life, placeVars, ritualVars, eggVars>>

set(p, r) ==
  /\ inv[p][r] > 0
  /\ inv' = [inv EXCEPT ![p][r] = @ - 1]
  /\ stones' = [stones EXCEPT ![pos[p]][r] = @ + 1]
  /\ UNCHANGED <<hatched, team, life, placeVars, ritualVars, eggVars>>

(* An egg that p lays on its tile, and the number of slots that come with it. *)
layEgg(p, opened) ==
  /\ slots' = [slots EXCEPT ![team[p]] = @ + opened]
  /\ eggs' = eggs \cup {[id |-> nextEgg, team |-> team[p], tile |-> pos[p]]}
  /\ nextEgg' = nextEgg + 1
  /\ UNCHANGED <<hatched, team, life, placeVars, ritualVars, stoneVars>>

(* fork, in which the egg opens no slot. *)
forkWithoutSlot(p) == layEgg(p, 0)

fork(p) == layEgg(p, 1)

-----------------------------------------------------------------------------
(***************************************************************************)
(* The elevation ritual.  It is checked, and everyone of the level on the  *)
(* tile is frozen, when it starts; it is checked again, for whoever is     *)
(* then on the tile of the player that finishes it, when it ends.          *)
(***************************************************************************)
Peers(p) == {q \in on[pos[p]] : lvl[q] = lvl[p]}

(* isEnoughTrantorian, in which players of any level count. *)
enoughOfAnyLevel(p) == Cardinality(on[pos[p]]) >= PlayersNeeded[lvl[p]]

isEnoughTrantorian(p) == Cardinality(Peers(p)) >= PlayersNeeded[lvl[p]]

isEnoughResources(p) ==
  \A r \in Resource : stones[pos[p]][r] >= StonesNeeded[lvl[p]][r]

canElevate(p) ==
  lvl[p] < MaxLevel /\ isEnoughTrantorian(p) /\ isEnoughResources(p)

startElevation(p) ==
  /\ frozen' = [q \in Players |-> q \in Peers(p) \/ frozen[q]]
  /\ UNCHANGED <<hatched, team, life, lvl, placeVars, stoneVars, eggVars>>

(* The end of a ritual that succeeds or not: its peers are freed either way. *)
endElevation(p, success) ==
  /\ lvl' = [q \in Players |-> IF success /\ q \in Peers(p) THEN lvl[p] + 1 ELSE lvl[q]]
  /\ frozen' = [q \in Players |-> q \notin Peers(p) /\ frozen[q]]
  /\ stones' = IF success
                 THEN [stones EXCEPT ![pos[p]] =
                         [r \in Resource |-> @[r] - StonesNeeded[lvl[p]][r]]]
                 ELSE stones
  /\ UNCHANGED <<hatched, team, life, inv, placeVars, eggVars>>

(* finishElevation, trusting the check made when the ritual started. *)
finishUnchecked(p) == endElevation(p, lvl[p] < MaxLevel)

finishElevation(p) == endElevation(p, canElevate(p))

victoryCondition(t) ==
  Cardinality({p \in UNION {on[s] : s \in Tile} :
                 team[p] = t /\ lvl[p] = MaxLevel}) >= Winners

-----------------------------------------------------------------------------
(* checkLife, of each player that is due: its life timer has run out. *)
checkLife(due) ==
  life' = [p \in Players |-> IF p \in due THEN life[p] - 1 ELSE life[p]]

(* checkLives, in which a player that dies stays on its tile. *)
agePlayers(due) ==
  /\ checkLife(due)
  /\ UNCHANGED <<hatched, team, placeVars, ritualVars, stoneVars, eggVars>>

(* checkLives: the players that are due lose a life; who has none left goes. *)
checkLives(due) ==
  /\ checkLife(due)
  /\ on' = [t \in Tile |-> {p \in on[t] : life'[p] # 0}]
  /\ UNCHANGED <<hatched, team, pos, dir, ritualVars, stoneVars, eggVars>>

(***************************************************************************)
(* generateResources: what is missing on the map is dropped on random      *)
(* tiles; what players carry is not counted.                               *)
(***************************************************************************)
Missing(r) == IF OnMap(r) < Target[r] THEN Target[r] - OnMap(r) ELSE 0

generateResources ==
  \E fresh \in [Tile -> [Resource -> 0 .. MaxTarget]] :
    /\ \A r \in Resource :
         FoldFunction(+, 0, [t \in Tile |-> fresh[t][r]]) = Missing(r)
    /\ stones' = [t \in Tile |-> [r \in Resource |-> stones[t][r] + fresh[t][r]]]
    /\ UNCHANGED <<hatched, team, life, inv, placeVars, ritualVars, eggVars>>

(* _disconnectClient: the player leaves the tile it says it is on. *)
leaveMap(p) ==
  /\ on' = [on EXCEPT ![pos[p]] = @ \ {p}]
  /\ UNCHANGED <<hatched, team, life, pos, dir, ritualVars, stoneVars, eggVars>>

-----------------------------------------------------------------------------
(***************************************************************************)
(* What the world goes through in the hands of a server: only players that *)
(* stand on the map act, and each player hatches once.                     *)
(***************************************************************************)
Hatch(p)  == p \notin hatched /\ \E t \in Teams : hatchEgg(p, t)
Step(p)   == InPlay(p) /\ forward(p)
Turn(p)   == InPlay(p) /\ (left(p) \/ right(p))
Eject(p)  == InPlay(p) /\ eject(p)
Take(p)   == InPlay(p) /\ \E r \in Resource : take(p, r)
Drop(p)   == InPlay(p) /\ \E r \in Resource : set(p, r)
Fork(p)   == InPlay(p) /\ fork(p)
Start(p)  == InPlay(p) /\ canElevate(p) /\ startElevation(p)
Finish(p) == InPlay(p) /\ finishElevation(p)
Leave(p)  == InPlay(p) /\ leaveMap(p)
Age       == \E due \in SUBSET {p \in Players : InPlay(p)} : checkLives(due)
Respawn   == generateResources

WorldNext ==
  \/ \E p \in Players :
       \/ Hatch(p) \/ Step(p) \/ Turn(p) \/ Eject(p) \/ Take(p) \/ Drop(p)
       \/ Fork(p) \/ Start(p) \/ Finish(p) \/ Leave(p)
  \/ Age
  \/ Respawn

WorldSpec == WorldInit /\ [][WorldNext]_worldVars

-----------------------------------------------------------------------------
(* The type invariant of the world. *)
WorldTypeOK ==
  /\ hatched \subseteq Players
  /\ team \in [Players -> Teams \cup {NoTeam}]
  /\ \A p \in hatched : team[p] \in Teams
  /\ lvl \in [Players -> 1 .. MaxLevel]
  /\ life \in [Players -> 0 .. InitLife]
  /\ frozen \in [Players -> BOOLEAN]
  /\ inv \in [Players -> [Resource -> Nat]]
  /\ pos \in [Players -> Tile]
  /\ dir \in [Players -> Direction]
  /\ on \in [Tile -> SUBSET Players]
  /\ stones \in [Tile -> [Resource -> Nat]]
  /\ eggs \subseteq Egg
  /\ IsFiniteSet(eggs)
  /\ nextEgg \in Nat
  /\ slots \in [Teams -> Nat]

(***************************************************************************)
(* The map and the players agree: a tile lists a player only if the player *)
(* believes it stands there, has hatched and is alive.  So no player is on *)
(* two tiles, and no dead or departed one is seen by look, counted for a   *)
(* ritual or for the victory, or pushed around by eject.                   *)
(***************************************************************************)
MapConsistent ==
  \A t \in Tile : \A p \in on[t] : p \in hatched /\ pos[p] = t /\ life[p] > 0

(***************************************************************************)
(* A team never has more eggs than free slots: every egg that is still on  *)
(* the map can be hatched, and hatching one never takes the unsigned slot  *)
(* count below zero.  Eggs and slots are counted apart: hatchEgg and fork  *)
(* change both, eject only the eggs.                                       *)
(***************************************************************************)
EggsWithinSlots == \A t \in Teams : Cardinality(TeamEggs(t)) <= slots[t]

(***************************************************************************)
(* A player rises one level at a time, and only together with all its      *)
(* peers on the tile, who are as many as the level asks for; the tile pays *)
(* for it once, however many rise (finishElevation).                       *)
(***************************************************************************)
RiseTogether ==
  [][\A p \in Players : lvl'[p] # lvl[p] =>
       /\ lvl'[p] = lvl[p] + 1
       /\ \A q \in Peers(p) : lvl'[q] = lvl'[p]
       /\ Cardinality(Peers(p)) >= PlayersNeeded[lvl[p]]
       /\ \A r \in Resource :
            stones'[pos[p]][r] = stones[pos[p]][r] - StonesNeeded[lvl[p]][r]]_worldVars

(* What a step may do to the amount of a resource there is. *)
Balanced(r) ==
  /\ OnMap(r)' + Carried(r)' > OnMap(r) + Carried(r)
       => OnMap(r)' = Target[r] /\ Carried(r)' = Carried(r)
  /\ OnMap(r)' + Carried(r)' < OnMap(r) + Carried(r)
       => \E p \in Players :
            /\ lvl'[p] > lvl[p]
            /\ OnMap(r) + Carried(r) - (OnMap(r)' + Carried(r)') = StonesNeeded[lvl[p]][r]

(***************************************************************************)
(* Resources are conserved.  The sum of what lies on the map and what      *)
(* players hold grows only by a respawn, which never leaves more on the    *)
(* map than its target unless there was more before, and shrinks only by   *)
(* what a successful ritual costs.                                         *)
(***************************************************************************)
ResourcesConserved ==
  [][\A r \in Resource : stoneVars' # stoneVars => Balanced(r)]_worldVars
=============================================================================
