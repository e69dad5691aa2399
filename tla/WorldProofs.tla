---------------------------- MODULE WorldProofs ----------------------------
(***************************************************************************)
(* Theorems about the world, for every map, every set of players and every *)
(* elevation table.                                                        *)
(***************************************************************************)
EXTENDS World, TorusProofs, FiniteSetTheorems

(***************************************************************************)
(* The eggs the constructor makes, one for each id below n: they are       *)
(* finitely many, and a team has no more of them than it owns ids.         *)
(***************************************************************************)
LEMMA InitialEggsCounted ==
  ASSUME NEW n \in Nat,
         NEW owner \in [0 .. n - 1 -> Teams],
         NEW at \in [0 .. n - 1 -> Tile],
         NEW I \in SUBSET (0 .. n - 1),
         NEW S, S = {[id |-> i, team |-> owner[i], tile |-> at[i]] : i \in I}
  PROVE  /\ S \subseteq Egg
         /\ IsFiniteSet(S)
         /\ Cardinality(S) <= Cardinality(I)
<1>1. S \subseteq Egg
  BY DEF Egg
<1>2. IsFiniteSet(I)
  <2>1. IsFiniteSet(0 .. n - 1)
    BY FS_Interval
  <2> QED  BY <2>1, FS_Subset
<1> DEFINE f == [i \in I |-> [id |-> i, team |-> owner[i], tile |-> at[i]]]
<1>3. f \in Surjection(I, S)
  BY DEF Surjection
<1> HIDE DEF f
<1> QED  BY <1>1, <1>2, <1>3, FS_Surjection

LEMMA InitialEggSet ==
  ASSUME WorldInit
  PROVE  /\ nextEgg \in Nat
         /\ eggs \subseteq Egg
         /\ IsFiniteSet(eggs)
         /\ EggsWithinSlots
<1> USE WorldAssumption
<1>1. nextEgg \in Nat
  <2>1. Cardinality(Teams) \in Nat
    BY FS_CardinalityType
  <2> QED  BY <2>1 DEF WorldInit, newTrantorian, spawnEggs
<1>2. PICK owner \in [0 .. nextEgg - 1 -> Teams], at \in [0 .. nextEgg - 1 -> Tile] :
        /\ \A t \in Teams :
             Cardinality({i \in 0 .. nextEgg - 1 : owner[i] = t}) = InitSlots
        /\ eggs = {[id |-> i, team |-> owner[i], tile |-> at[i]] : i \in 0 .. nextEgg - 1}
  BY DEF WorldInit, newTrantorian, spawnEggs
<1>3. eggs \subseteq Egg /\ IsFiniteSet(eggs)
  <2> DEFINE I == 0 .. nextEgg - 1
  <2>1. I \in SUBSET (0 .. nextEgg - 1)
    OBVIOUS
  <2>2. eggs = {[id |-> i, team |-> owner[i], tile |-> at[i]] : i \in I}
    BY <1>2
  <2>3. eggs \subseteq Egg
    BY <1>2 DEF Egg
  <2>4. IsFiniteSet(eggs)
    <3> HIDE DEF I
    <3> QED  BY <1>1, <2>1, <2>2, InitialEggsCounted
  <2> QED  BY <2>3, <2>4
<1>4. ASSUME NEW t \in Teams
      PROVE  Cardinality(TeamEggs(t)) <= slots[t]
  <2> DEFINE I == {i \in 0 .. nextEgg - 1 : owner[i] = t}
  <2>1. TeamEggs(t) = {[id |-> i, team |-> owner[i], tile |-> at[i]] : i \in I}
    BY <1>2 DEF TeamEggs
  <2>2. Cardinality(I) = InitSlots
    BY <1>2
  <2>3. Cardinality(TeamEggs(t)) <= Cardinality(I)
    <3>1. I \in SUBSET (0 .. nextEgg - 1)
      OBVIOUS
    <3> HIDE DEF I
    <3> QED  BY <1>1, <2>1, <3>1, InitialEggsCounted
  <2>4. slots[t] = InitSlots
    BY DEF WorldInit, newTrantorian, spawnEggs
  <2> QED  BY <2>2, <2>3, <2>4
<1> QED  BY <1>1, <1>3, <1>4 DEF EggsWithinSlots

LEMMA InitTypeOK == WorldInit => WorldTypeOK
<1> SUFFICES ASSUME WorldInit PROVE WorldTypeOK
  OBVIOUS
<1> USE WorldAssumption, SizeAssumption
<1>1. <<0, 0>> \in Tile
  BY DEF Tile
<1>2. /\ pos \in [Players -> Tile]
      /\ on \in [Tile -> SUBSET Players]
  BY <1>1 DEF WorldInit, newTrantorian, spawnEggs
<1>3. stones \in [Tile -> [Resource -> Nat]]
  BY DEF WorldInit, newTrantorian, spawnEggs
<1>4. /\ hatched \subseteq Players
      /\ team \in [Players -> Teams \cup {NoTeam}]
      /\ \A p \in hatched : team[p] \in Teams
      /\ lvl \in [Players -> 1 .. MaxLevel]
      /\ life \in [Players -> 0 .. InitLife]
      /\ frozen \in [Players -> BOOLEAN]
      /\ inv \in [Players -> [Resource -> Nat]]
      /\ dir \in [Players -> Direction]
      /\ slots \in [Teams -> Nat]
  BY DEF WorldInit, newTrantorian, spawnEggs, Direction
<1> QED  BY <1>2, <1>3, <1>4, InitialEggSet DEF WorldTypeOK

-----------------------------------------------------------------------------
(***************************************************************************)
(* The inductive invariant of the world.  Types alone are not inductive:   *)
(* a player that loses a life must have one, and one that lays an egg must *)
(* have a team; both hold because it is listed by a tile.  A player starts *)
(* its life alive because none is taken from it before it hatches.         *)
(***************************************************************************)
UnhatchedAlive == \A p \in Players \ hatched : life[p] > 0

WorldInv ==
  WorldTypeOK /\ MapConsistent /\ UnhatchedAlive /\ EggsWithinSlots

LEMMA InPlayIsHatched ==
  ASSUME WorldInv, NEW p \in Players, InPlay(p)
  PROVE  p \in hatched /\ life[p] > 0 /\ team[p] \in Teams /\ pos[p] \in Tile
BY DEF WorldInv, WorldTypeOK, MapConsistent, InPlay

(* Moving any players any way keeps the places well typed. *)
LEMMA MoveType ==
  ASSUME WorldTypeOK, NEW S \in SUBSET Players,
         NEW facing \in [Players -> Direction], moveTrantorian(S, facing)
  PROVE  /\ pos' \in [Players -> Tile]
         /\ dir' \in [Players -> Direction]
         /\ on' \in [Tile -> SUBSET Players]
<1>1. \A p \in Players : Move(pos[p], facing[p]) \in Tile
  BY MoveStaysOnMap DEF WorldTypeOK
<1>2. pos' \in [Players -> Tile]
  BY <1>1 DEF WorldTypeOK, moveTrantorian
<1>3. dir' \in [Players -> Direction]
  BY DEF WorldTypeOK, moveTrantorian
<1>4. on' \in [Tile -> SUBSET Players]
  BY DEF WorldTypeOK, moveTrantorian
<1> QED  BY <1>2, <1>3, <1>4

LEMMA HatchType ==
  ASSUME WorldTypeOK, NEW p \in Players, NEW t \in Teams, hatchEgg(p, t)
  PROVE  WorldTypeOK'
<1>1. PICK e \in TeamEggs(t), d \in Direction :
        /\ eggs' = eggs \ {e}
        /\ slots' = [slots EXCEPT ![t] = @ - 1]
        /\ hatched' = hatched \cup {p}
        /\ team' = [team EXCEPT ![p] = t]
        /\ pos' = [pos EXCEPT ![p] = e.tile]
        /\ dir' = [dir EXCEPT ![p] = d]
        /\ on' = [on EXCEPT ![e.tile] = @ \cup {p}]
  BY DEF hatchEgg
<1>2. e.tile \in Tile
  BY DEF TeamEggs, WorldTypeOK, Egg
<1>3. /\ pos' \in [Players -> Tile]
      /\ dir' \in [Players -> Direction]
      /\ on' \in [Tile -> SUBSET Players]
  BY <1>1, <1>2 DEF WorldTypeOK
<1>4. slots' \in [Teams -> Nat]
  BY <1>1 DEF WorldTypeOK, hatchEgg
<1>5. IsFiniteSet(eggs')
  <2>1. eggs' \subseteq eggs
    BY <1>1
  <2> QED  BY <2>1, FS_Subset DEF WorldTypeOK
<1>6. /\ eggs' \subseteq Egg
      /\ hatched' \subseteq Players
      /\ team' \in [Players -> Teams \cup {NoTeam}]
      /\ \A q \in hatched' : team'[q] \in Teams
  BY <1>1 DEF WorldTypeOK
<1> QED
  BY <1>3, <1>4, <1>5, <1>6 DEF WorldTypeOK, hatchEgg, ritualVars, stoneVars

LEMMA ForkType ==
  ASSUME WorldInv, NEW p \in Players, InPlay(p), fork(p)
  PROVE  WorldTypeOK'
<1> DEFINE e == [id |-> nextEgg, team |-> team[p], tile |-> pos[p]]
<1>1. team[p] \in Teams /\ pos[p] \in Tile
  BY InPlayIsHatched
<1>2. e \in Egg
  BY <1>1 DEF Egg, WorldInv, WorldTypeOK
<1>3. eggs' = eggs \cup {e} /\ eggs' \subseteq Egg
  BY <1>2 DEF WorldInv, WorldTypeOK, fork, layEgg
<1>4. IsFiniteSet(eggs')
  <2> HIDE DEF e
  <2> QED  BY <1>3, FS_AddElement DEF WorldInv, WorldTypeOK
<1>5. slots' \in [Teams -> Nat] /\ nextEgg' \in Nat
  BY <1>1 DEF WorldInv, WorldTypeOK, fork, layEgg
<1> QED
  BY <1>3, <1>4, <1>5
  DEF WorldInv, WorldTypeOK, fork, layEgg, placeVars, ritualVars, stoneVars

LEMMA FinishType ==
  ASSUME WorldTypeOK, NEW p \in Players, finishElevation(p)
  PROVE  WorldTypeOK'
<1> USE WorldAssumption
<1>1. /\ lvl[p] \in 1 .. MaxLevel
      /\ pos[p] \in Tile
  BY DEF WorldTypeOK
<1>2. lvl' \in [Players -> 1 .. MaxLevel]
  <2>1. canElevate(p) => lvl[p] + 1 \in 1 .. MaxLevel
    BY <1>1 DEF canElevate
  <2> QED  BY <2>1 DEF WorldTypeOK, finishElevation, endElevation
<1>3. frozen' \in [Players -> BOOLEAN]
  <2> DEFINE melted == [q \in Players |-> q \notin Peers(p) /\ frozen[q]]
  <2>1. \A q \in Players : (q \notin Peers(p) /\ frozen[q]) \in BOOLEAN
    OBVIOUS
  <2>2. melted \in [Players -> BOOLEAN]
    BY <2>1
  <2>3. frozen' = melted
    BY DEF finishElevation, endElevation
  <2> QED  BY <2>2, <2>3
<1>4. stones' \in [Tile -> [Resource -> Nat]]
  <2>1. CASE canElevate(p)
    <3>1. lvl[p] \in 1 .. MaxLevel - 1
      BY <1>1, <2>1 DEF canElevate
    <3>2. \A r \in Resource : stones[pos[p]][r] - StonesNeeded[lvl[p]][r] \in Nat
      BY <1>1, <2>1, <3>1 DEF canElevate, isEnoughResources, WorldTypeOK
    <3>3. stones' = [stones EXCEPT ![pos[p]] =
                       [r \in Resource |-> stones[pos[p]][r] - StonesNeeded[lvl[p]][r]]]
      BY <1>1, <2>1 DEF finishElevation, endElevation, WorldTypeOK
    <3>4. [r \in Resource |-> stones[pos[p]][r] - StonesNeeded[lvl[p]][r]]
            \in [Resource -> Nat]
      BY <3>2
    <3> QED  BY <3>3, <3>4 DEF WorldTypeOK
  <2>2. CASE ~canElevate(p)
    BY <2>2 DEF finishElevation, endElevation, WorldTypeOK
  <2> QED  BY <2>1, <2>2
<1> QED
  BY <1>2, <1>3, <1>4
  DEF WorldTypeOK, finishElevation, endElevation, placeVars, eggVars

LEMMA AgeType ==
  ASSUME WorldInv, NEW due \in SUBSET {p \in Players : InPlay(p)}, checkLives(due)
  PROVE  WorldTypeOK'
<1>1. life' \in [Players -> 0 .. InitLife]
  <2>1. \A p \in due : p \in Players /\ life[p] > 0
    BY InPlayIsHatched
  <2> QED  BY <2>1, WorldAssumption DEF WorldInv, WorldTypeOK, checkLives, checkLife
<1>2. on' \in [Tile -> SUBSET Players]
  BY DEF WorldInv, WorldTypeOK, checkLives, checkLife
<1> QED
  BY <1>1, <1>2
  DEF WorldInv, WorldTypeOK, checkLives, checkLife, ritualVars, stoneVars, eggVars

LEMMA EjectType ==
  ASSUME WorldTypeOK, NEW p \in Players, eject(p)
  PROVE  WorldTypeOK'
<1> DEFINE way == [q \in Players |-> dir[p]]
<1>1. way \in [Players -> Direction]
  BY DEF WorldTypeOK
<1>2. TileMates(p) \in SUBSET Players
  BY DEF TileMates, WorldTypeOK
<1>3. moveTrantorian(TileMates(p), way)
  BY DEF eject
<1>4. /\ pos' \in [Players -> Tile]
      /\ dir' \in [Players -> Direction]
      /\ on' \in [Tile -> SUBSET Players]
  <2> HIDE DEF way
  <2> QED  BY <1>1, <1>2, <1>3, MoveType
<1>5. eggs' \subseteq eggs
  BY DEF eject
<1>6. IsFiniteSet(eggs') /\ eggs' \subseteq Egg
  BY <1>5, FS_Subset DEF WorldTypeOK
<1> QED
  BY <1>4, <1>6 DEF WorldTypeOK, eject, ritualVars, stoneVars

LEMMA ForwardType ==
  ASSUME WorldTypeOK, NEW p \in Players, forward(p)
  PROVE  WorldTypeOK'
<1>1. /\ pos' \in [Players -> Tile]
      /\ dir' \in [Players -> Direction]
      /\ on' \in [Tile -> SUBSET Players]
  BY MoveType DEF WorldTypeOK, forward
<1> QED
  BY <1>1 DEF WorldTypeOK, forward, ritualVars, stoneVars, eggVars

LEMMA TakeSetType ==
  ASSUME WorldTypeOK, NEW p \in Players, NEW r \in Resource, take(p, r) \/ set(p, r)
  PROVE  WorldTypeOK'
<1>1. pos[p] \in Tile
  BY DEF WorldTypeOK
<1>2. CASE take(p, r)
  <2>1. inv' \in [Players -> [Resource -> Nat]]
    BY <1>2 DEF WorldTypeOK, take
  <2>2. stones' \in [Tile -> [Resource -> Nat]]
    <3>1. stones[pos[p]][r] - 1 \in Nat
      BY <1>1, <1>2 DEF WorldTypeOK, take
    <3> QED  BY <1>1, <1>2, <3>1 DEF WorldTypeOK, take
  <2> QED
    BY <1>2, <2>1, <2>2 DEF WorldTypeOK, take, placeVars, ritualVars, eggVars
<1>3. CASE set(p, r)
  <2>1. inv' \in [Players -> [Resource -> Nat]]
    <3>1. inv[p][r] - 1 \in Nat
      BY <1>3 DEF WorldTypeOK, set
    <3> QED  BY <1>3, <3>1 DEF WorldTypeOK, set
  <2>2. stones' \in [Tile -> [Resource -> Nat]]
    BY <1>1, <1>3 DEF WorldTypeOK, set
  <2> QED
    BY <1>3, <2>1, <2>2 DEF WorldTypeOK, set, placeVars, ritualVars, eggVars
<1> QED  BY <1>2, <1>3

LEMMA TypeStep ==
  ASSUME WorldInv, [WorldNext]_worldVars
  PROVE  WorldTypeOK'
<1>1. ASSUME NEW p \in Players, Hatch(p) PROVE WorldTypeOK'
  BY <1>1, HatchType DEF Hatch, WorldInv
<1>2. ASSUME NEW p \in Players, Step(p) PROVE WorldTypeOK'
  BY <1>2, ForwardType DEF Step, WorldInv
<1>3. ASSUME NEW p \in Players, Turn(p) PROVE WorldTypeOK'
  <2>1. /\ TurnLeft(dir[p]) \in Direction
        /\ TurnRight(dir[p]) \in Direction
    <3>1. dir[p] \in Direction
      BY DEF WorldInv, WorldTypeOK
    <3> QED  BY <3>1 DEF Direction, TurnLeft, TurnRight
  <2>2. PICK way \in Direction : turn(p, way)
    BY <1>3, <2>1 DEF Turn, left, right
  <2> QED
    BY <2>2
    DEF WorldInv, WorldTypeOK, turn, ritualVars, stoneVars, eggVars
<1>4. ASSUME NEW p \in Players, Eject(p) PROVE WorldTypeOK'
  BY <1>4, EjectType DEF Eject, WorldInv
<1>5. ASSUME NEW p \in Players, Take(p) \/ Drop(p) PROVE WorldTypeOK'
  BY <1>5, TakeSetType DEF Take, Drop, WorldInv
<1>6. ASSUME NEW p \in Players, Fork(p) PROVE WorldTypeOK'
  BY <1>6, ForkType DEF Fork
<1>7. ASSUME NEW p \in Players, Start(p) PROVE WorldTypeOK'
  <2>1. frozen' \in [Players -> BOOLEAN]
    <3>1. \A q \in Players : (q \in Peers(p) \/ frozen[q]) \in BOOLEAN
      OBVIOUS
    <3>2. [q \in Players |-> q \in Peers(p) \/ frozen[q]] \in [Players -> BOOLEAN]
      BY <3>1
    <3> QED  BY <1>7, <3>2 DEF Start, startElevation
  <2> QED
    BY <1>7, <2>1
    DEF WorldInv, WorldTypeOK, Start, startElevation, placeVars, stoneVars, eggVars
<1>8. ASSUME NEW p \in Players, Finish(p) PROVE WorldTypeOK'
  BY <1>8, FinishType DEF Finish, WorldInv
<1>9. ASSUME NEW p \in Players, Leave(p) PROVE WorldTypeOK'
  BY <1>9 DEF WorldInv, WorldTypeOK, Leave, leaveMap, ritualVars, stoneVars, eggVars
<1>10. CASE Age
  BY <1>10, AgeType DEF Age
<1>11. CASE Respawn
  <2>1. PICK fresh \in [Tile -> [Resource -> 0 .. MaxTarget]] :
          stones' = [t \in Tile |-> [r \in Resource |-> stones[t][r] + fresh[t][r]]]
    BY <1>11 DEF Respawn, generateResources
  <2>2. \A t \in Tile : \A r \in Resource : stones[t][r] + fresh[t][r] \in Nat
    BY WorldAssumption DEF WorldInv, WorldTypeOK
  <2>3. stones' \in [Tile -> [Resource -> Nat]]
    BY <2>1, <2>2
  <2> QED
    BY <1>11, <2>3
    DEF WorldInv, WorldTypeOK, Respawn, generateResources, placeVars, ritualVars, eggVars
<1>12. CASE UNCHANGED worldVars
  BY <1>12
  DEF WorldInv, WorldTypeOK, worldVars, placeVars, ritualVars, stoneVars, eggVars
<1> QED
  BY <1>1, <1>2, <1>3, <1>4, <1>5, <1>6, <1>7, <1>8, <1>9, <1>10, <1>11, <1>12
  DEF WorldNext

-----------------------------------------------------------------------------
(***************************************************************************)
(* The map and the players agree after every step.                         *)
(***************************************************************************)
LEMMA MoveConsistent ==
  ASSUME WorldInv, NEW S \in SUBSET Players, NEW facing \in [Players -> Direction],
         moveTrantorian(S, facing),
         \A p \in S : InPlay(p),
         UNCHANGED <<hatched, life>>
  PROVE  MapConsistent'
<1> SUFFICES ASSUME NEW t \in Tile, NEW p \in on'[t]
             PROVE  p \in hatched /\ pos'[p] = t /\ life[p] > 0
  BY DEF MapConsistent
<1>1. p \in Players
  BY MoveType DEF WorldInv
<1>2. CASE p \in S
  <2>1. p \in hatched /\ life[p] > 0
    BY <1>1, <1>2, InPlayIsHatched
  <2>2. pos'[p] = t
    BY <1>1, <1>2 DEF moveTrantorian, WorldInv, MapConsistent
  <2> QED  BY <2>1, <2>2
<1>3. CASE p \notin S
  <2>1. p \in on[t] /\ pos'[p] = pos[p]
    BY <1>1, <1>3 DEF moveTrantorian
  <2> QED  BY <2>1 DEF WorldInv, MapConsistent
<1> QED  BY <1>2, <1>3

LEMMA ConsistentStep ==
  ASSUME WorldInv, [WorldNext]_worldVars
  PROVE  MapConsistent'
<1>1. ASSUME NEW p \in Players, Hatch(p) PROVE MapConsistent'
  <2>0. PICK t \in Teams : hatchEgg(p, t)
    BY <1>1 DEF Hatch
  <2>1. PICK e \in TeamEggs(t) :
          /\ hatched' = hatched \cup {p}
          /\ pos' = [pos EXCEPT ![p] = e.tile]
          /\ on' = [on EXCEPT ![e.tile] = @ \cup {p}]
          /\ life' = life
    BY <2>0 DEF hatchEgg
  <2>2. e.tile \in Tile
    BY DEF TeamEggs, WorldInv, WorldTypeOK, Egg
  <2>3. \A t2 \in Tile : p \notin on[t2]
    BY <1>1 DEF Hatch, WorldInv, MapConsistent
  <2>4. life[p] > 0
    BY <1>1 DEF Hatch, WorldInv, UnhatchedAlive
  <2> QED
    BY <2>1, <2>2, <2>3, <2>4 DEF WorldInv, WorldTypeOK, MapConsistent
<1>2. ASSUME NEW p \in Players, Step(p) PROVE MapConsistent'
  <2>1. dir \in [Players -> Direction] /\ {p} \in SUBSET Players
    BY DEF WorldInv, WorldTypeOK
  <2> QED  BY <1>2, <2>1, MoveConsistent DEF Step, forward
<1>3. ASSUME NEW p \in Players, Turn(p) PROVE MapConsistent'
  BY <1>3 DEF Turn, left, right, turn, WorldInv, MapConsistent
<1>4. ASSUME NEW p \in Players, Eject(p) PROVE MapConsistent'
  <2>1. pos[p] \in Tile
    BY DEF WorldInv, WorldTypeOK
  <2>2. /\ TileMates(p) \in SUBSET Players
        /\ \A q \in TileMates(p) : InPlay(q)
    BY <2>1 DEF TileMates, InPlay, WorldInv, WorldTypeOK, MapConsistent
  <2> DEFINE way == [q \in Players |-> dir[p]]
  <2>3. way \in [Players -> Direction]
    BY DEF WorldInv, WorldTypeOK
  <2>4. moveTrantorian(TileMates(p), way) /\ UNCHANGED <<hatched, life>>
    BY <1>4 DEF Eject, eject
  <2> HIDE DEF way
  <2> QED  BY <2>2, <2>3, <2>4, MoveConsistent
<1>5. ASSUME NEW p \in Players, Take(p) \/ Drop(p) \/ Fork(p) \/ Start(p) \/ Finish(p)
      PROVE  MapConsistent'
  <2>1. UNCHANGED <<hatched, life, pos, on>>
    BY <1>5 DEF Take, take, Drop, set, Fork, fork, layEgg, Start, startElevation,
                Finish, finishElevation, endElevation, placeVars
  <2> QED  BY <2>1 DEF WorldInv, MapConsistent
<1>6. ASSUME NEW p \in Players, Leave(p) PROVE MapConsistent'
  BY <1>6 DEF Leave, leaveMap, WorldInv, WorldTypeOK, MapConsistent
<1>7. CASE Age
  <2>1. PICK due \in SUBSET {p \in Players : InPlay(p)} : checkLives(due)
    BY <1>7 DEF Age
  <2>2. \A t \in Tile : \A p \in on'[t] :
          p \in on[t] /\ life'[p] # 0 /\ pos'[p] = pos[p] /\ p \in Players
    BY <2>1 DEF checkLives, checkLife, WorldInv, WorldTypeOK
  <2>3. \A p \in Players : life'[p] \in Nat
    BY <2>1, AgeType DEF WorldTypeOK
  <2>4. hatched' = hatched
    BY <2>1 DEF checkLives, checkLife
  <2>5. \A t \in Tile : \A p \in on[t] : p \in hatched /\ pos[p] = t
    BY DEF WorldInv, MapConsistent
  <2>6. \A t \in Tile : \A p \in on'[t] : p \in hatched' /\ pos'[p] = t /\ life'[p] > 0
    BY <2>2, <2>3, <2>4, <2>5
  <2> QED  BY <2>6 DEF MapConsistent
<1>8. CASE Respawn
  BY <1>8 DEF Respawn, generateResources, placeVars, WorldInv, MapConsistent
<1>9. CASE UNCHANGED worldVars
  BY <1>9 DEF worldVars, placeVars, WorldInv, MapConsistent
<1> QED
  BY <1>1, <1>2, <1>3, <1>4, <1>5, <1>6, <1>7, <1>8, <1>9 DEF WorldNext

LEMMA UnhatchedStep ==
  ASSUME WorldInv, [WorldNext]_worldVars
  PROVE  UnhatchedAlive'
<1>1. CASE Age
  <2>1. PICK due \in SUBSET {p \in Players : InPlay(p)} : checkLives(due)
    BY <1>1 DEF Age
  <2>2. \A p \in due : p \in hatched
    BY InPlayIsHatched
  <2> QED  BY <2>1, <2>2 DEF checkLives, checkLife, WorldInv, UnhatchedAlive
<1>2. ASSUME NEW p \in Players, Hatch(p) PROVE UnhatchedAlive'
  BY <1>2 DEF Hatch, hatchEgg, WorldInv, UnhatchedAlive
<1>3. CASE ~Age /\ ~(\E p \in Players : Hatch(p))
  <2>1. UNCHANGED <<hatched, life>>
    BY <1>3
    DEF WorldNext, worldVars, Step, forward, Turn, left, right, turn, Eject, eject,
        Take, take, Drop, set, Fork, fork, layEgg, Start, startElevation,
        Finish, finishElevation, endElevation, Leave, leaveMap,
        Respawn, generateResources
  <2> QED  BY <2>1 DEF WorldInv, UnhatchedAlive
<1> QED  BY <1>1, <1>2, <1>3

-----------------------------------------------------------------------------
(***************************************************************************)
(* Eggs and slots.  Only three operations touch the eggs: hatchEgg takes   *)
(* one egg and one slot, fork adds one of each, and eject takes eggs only. *)
(***************************************************************************)
LEMMA TeamEggsFinite ==
  ASSUME WorldTypeOK, NEW t
  PROVE  IsFiniteSet(TeamEggs(t)) /\ Cardinality(TeamEggs(t)) \in Nat
<1>1. TeamEggs(t) \subseteq eggs
  BY DEF TeamEggs
<1>2. IsFiniteSet(TeamEggs(t))
  BY <1>1, FS_Subset DEF WorldTypeOK
<1> QED  BY <1>2, FS_CardinalityType

LEMMA EggsStep ==
  ASSUME WorldInv, [WorldNext]_worldVars
  PROVE  EggsWithinSlots'
<1> SUFFICES ASSUME NEW t \in Teams
             PROVE  Cardinality(TeamEggs(t)') <= slots'[t]
  BY DEF EggsWithinSlots, TeamEggs
<1>0. /\ IsFiniteSet(TeamEggs(t))
      /\ Cardinality(TeamEggs(t)) \in Nat
      /\ Cardinality(TeamEggs(t)) <= slots[t]
      /\ slots \in [Teams -> Nat]
  BY TeamEggsFinite DEF WorldInv, WorldTypeOK, EggsWithinSlots
<1>1. ASSUME NEW p \in Players, Hatch(p) PROVE Cardinality(TeamEggs(t)') <= slots'[t]
  <2>1. PICK u \in Teams : hatchEgg(p, u)
    BY <1>1 DEF Hatch
  <2>2. PICK e \in TeamEggs(u) :
          eggs' = eggs \ {e} /\ slots' = [slots EXCEPT ![u] = @ - 1]
    BY <2>1 DEF hatchEgg
  <2>3. CASE u = t
    <3>1. TeamEggs(t)' = TeamEggs(t) \ {e}
      BY <2>2 DEF TeamEggs
    <3>2. Cardinality(TeamEggs(t)') = Cardinality(TeamEggs(t)) - 1
      BY <1>0, <2>2, <2>3, <3>1, FS_RemoveElement
    <3>3. slots'[t] = slots[t] - 1
      BY <1>0, <2>2, <2>3
    <3> QED  BY <1>0, <3>2, <3>3
  <2>4. CASE u # t
    <3>1. TeamEggs(t)' = TeamEggs(t)
      BY <2>2, <2>4 DEF TeamEggs
    <3>2. slots'[t] = slots[t]
      BY <1>0, <2>2, <2>4
    <3> QED  BY <1>0, <3>1, <3>2
  <2> QED  BY <2>3, <2>4
<1>2. ASSUME NEW p \in Players, Eject(p) PROVE Cardinality(TeamEggs(t)') <= slots'[t]
  <2>1. TeamEggs(t)' \subseteq TeamEggs(t) /\ slots' = slots
    BY <1>2 DEF Eject, eject, TeamEggs
  <2>2. Cardinality(TeamEggs(t)') <= Cardinality(TeamEggs(t))
    BY <1>0, <2>1, FS_Subset
  <2>3. Cardinality(TeamEggs(t)') \in Nat
    BY <1>0, <2>1, FS_Subset, FS_CardinalityType
  <2> QED  BY <1>0, <2>1, <2>2, <2>3
<1>3. ASSUME NEW p \in Players, Fork(p) PROVE Cardinality(TeamEggs(t)') <= slots'[t]
  <2> DEFINE e == [id |-> nextEgg, team |-> team[p], tile |-> pos[p]]
  <2>1. /\ eggs' = eggs \cup {e}
        /\ slots' = [slots EXCEPT ![team[p]] = @ + 1]
        /\ team[p] \in Teams
    BY <1>3, InPlayIsHatched DEF Fork, fork, layEgg
  <2>2. CASE team[p] = t
    <3>1. TeamEggs(t)' = TeamEggs(t) \cup {e}
      BY <2>1, <2>2 DEF TeamEggs
    <3>2. Cardinality(TeamEggs(t) \cup {e}) <= Cardinality(TeamEggs(t)) + 1
      <4> HIDE DEF e
      <4> QED  BY <1>0, FS_AddElement
    <3>3. IsFiniteSet(TeamEggs(t) \cup {e})
      <4> HIDE DEF e
      <4> QED  BY <1>0, FS_AddElement
    <3>4. Cardinality(TeamEggs(t) \cup {e}) \in Nat
      BY <3>3, FS_CardinalityType
    <3>5. slots'[t] = slots[t] + 1
      BY <1>0, <2>1, <2>2
    <3> QED  BY <1>0, <3>1, <3>2, <3>4, <3>5
  <2>3. CASE team[p] # t
    <3>1. TeamEggs(t)' = TeamEggs(t)
      BY <2>1, <2>3 DEF TeamEggs
    <3>2. slots'[t] = slots[t]
      BY <1>0, <2>1, <2>3
    <3> QED  BY <1>0, <3>1, <3>2
  <2> QED  BY <2>2, <2>3
<1>4. CASE ~(\E p \in Players : Hatch(p) \/ Eject(p) \/ Fork(p))
  <2>1. UNCHANGED <<eggs, slots>>
    BY <1>4
    DEF WorldNext, worldVars, eggVars, Step, forward, Turn, left, right, turn,
        Take, take, Drop, set, Start, startElevation, Finish, finishElevation,
        endElevation, Leave, leaveMap, Age, checkLives, checkLife, Respawn, generateResources
  <2> QED  BY <1>0, <2>1 DEF TeamEggs
<1> QED  BY <1>1, <1>2, <1>3, <1>4

-----------------------------------------------------------------------------
LEMMA WorldInvInit == WorldInit => WorldInv
<1> SUFFICES ASSUME WorldInit PROVE WorldInv
  OBVIOUS
<1>1. MapConsistent /\ UnhatchedAlive
  BY WorldAssumption DEF WorldInit, newTrantorian, spawnEggs, MapConsistent, UnhatchedAlive
<1> QED  BY <1>1, InitTypeOK, InitialEggSet DEF WorldInv

LEMMA WorldInvStep == WorldInv /\ [WorldNext]_worldVars => WorldInv'
<1> SUFFICES ASSUME WorldInv, [WorldNext]_worldVars PROVE WorldInv'
  OBVIOUS
<1> QED  BY TypeStep, ConsistentStep, UnhatchedStep, EggsStep DEF WorldInv

(* The invariant holds at the start and every step keeps it. *)
THEOREM WorldInvariant == WorldSpec => []WorldInv
BY WorldInvInit, WorldInvStep, PTL DEF WorldSpec

(***************************************************************************)
(* Every variable keeps its type: no quantity on a tile or in an inventory *)
(* ever goes below zero, no level beyond the highest, no life below zero.  *)
(***************************************************************************)
THEOREM WorldTypeCorrect == WorldSpec => []WorldTypeOK
<1>1. WorldInv => WorldTypeOK
  BY DEF WorldInv
<1> QED  BY <1>1, WorldInvariant, PTL

(* A tile lists only living players that believe they stand on it. *)
THEOREM MapAlwaysConsistent == WorldSpec => []MapConsistent
<1>1. WorldInv => MapConsistent
  BY DEF WorldInv
<1> QED  BY <1>1, WorldInvariant, PTL

(* No team ever has more eggs than free slots. *)
THEOREM EggsNeverExceedSlots == WorldSpec => []EggsWithinSlots
<1>1. WorldInv => EggsWithinSlots
  BY DEF WorldInv
<1> QED  BY <1>1, WorldInvariant, PTL

(***************************************************************************)
(* A player rises by one level, with all its peers, when they are enough   *)
(* and the tile holds what the level costs, which it then pays once.       *)
(***************************************************************************)
THEOREM PlayersRiseTogether == WorldSpec => RiseTogether
<1> DEFINE Rise ==
      \A p \in Players : lvl'[p] # lvl[p] =>
        /\ lvl'[p] = lvl[p] + 1
        /\ \A q \in Peers(p) : lvl'[q] = lvl'[p]
        /\ Cardinality(Peers(p)) >= PlayersNeeded[lvl[p]]
        /\ \A r \in Resource :
             stones'[pos[p]][r] = stones[pos[p]][r] - StonesNeeded[lvl[p]][r]
<1>1. WorldInv /\ [WorldNext]_worldVars => Rise
  <2> SUFFICES ASSUME WorldInv, [WorldNext]_worldVars,
                      NEW p \in Players, lvl'[p] # lvl[p]
               PROVE  /\ lvl'[p] = lvl[p] + 1
                      /\ \A q \in Peers(p) : lvl'[q] = lvl'[p]
                      /\ Cardinality(Peers(p)) >= PlayersNeeded[lvl[p]]
                      /\ \A r \in Resource :
                           stones'[pos[p]][r] = stones[pos[p]][r] - StonesNeeded[lvl[p]][r]
    OBVIOUS
  <2>1. PICK i \in Players : InPlay(i) /\ finishElevation(i)
    <3>1. CASE \E q \in Players : Hatch(q)
      BY <3>1 DEF Hatch, hatchEgg, ritualVars
    <3>2. CASE ~(\E q \in Players : Hatch(q) \/ Finish(q))
      BY <3>2
      DEF WorldNext, worldVars, ritualVars, Step, forward, Turn, left, right, turn,
          Eject, eject, Take, take, Drop, set, Fork, fork, layEgg, Start,
          startElevation, Leave, leaveMap, Age, checkLives, checkLife, Respawn, generateResources
    <3> QED  BY <3>1, <3>2 DEF Finish
  <2>2. /\ canElevate(i)
        /\ p \in Peers(i)
        /\ lvl'[p] = lvl[i] + 1
    BY <2>1 DEF finishElevation, endElevation
  <2>3. lvl[p] = lvl[i] /\ pos[p] = pos[i] /\ pos[i] \in Tile
    BY <2>2 DEF Peers, WorldInv, WorldTypeOK, MapConsistent
  <2>4. Peers(p) = Peers(i)
    BY <2>3 DEF Peers
  <2>5. \A q \in Peers(i) : q \in Players /\ lvl'[q] = lvl[i] + 1
    BY <2>1, <2>2, <2>3 DEF finishElevation, endElevation, Peers, WorldInv, WorldTypeOK
  <2>6. Cardinality(Peers(i)) >= PlayersNeeded[lvl[i]]
    BY <2>2 DEF canElevate, isEnoughTrantorian
  <2>7. \A r \in Resource :
          stones'[pos[i]][r] = stones[pos[i]][r] - StonesNeeded[lvl[i]][r]
    BY <2>1, <2>2, <2>3 DEF finishElevation, endElevation, WorldInv, WorldTypeOK
  <2> QED  BY <2>2, <2>3, <2>4, <2>5, <2>6, <2>7
<1>2. WorldSpec => [][Rise]_worldVars
  BY <1>1, WorldInvariant, PTL DEF WorldSpec
<1> QED  BY <1>2 DEF RiseTogether

-----------------------------------------------------------------------------
(***************************************************************************)
(* Adding up.  A fold takes the members of a set one after the other, as   *)
(* CHOOSE gives them; InOrder(g, f, S) says that g does so with the values *)
(* of f, for each subset of S.  Sums(g, f, S) says that g adds them up     *)
(* whatever the order is.                                                  *)
(***************************************************************************)
First(s) == CHOOSE x \in s : TRUE

InOrder(g, f, S) ==
  g = [s \in SUBSET S |-> IF s = {} THEN 0 ELSE f[First(s)] + g[s \ {First(s)}]]

Sums(g, f, S) ==
  /\ g \in [SUBSET S -> Int]
  /\ g[{}] = 0
  /\ \A s \in SUBSET S : \A x \in s : g[s] = f[x] + g[s \ {x}]

LEMMA FirstIn ==
  ASSUME NEW s, s # {}
  PROVE  First(s) \in s
BY DEF First

(* Of sets of finite sets that are not empty, one has no smaller one in it. *)
LEMMA SmallestSet ==
  ASSUME NEW S, IsFiniteSet(S), NEW W, W \subseteq SUBSET S, W # {}
  PROVE  \E s \in W : \A t \in SUBSET s : t # s => t \notin W
<1> DEFINE sizes == {Cardinality(s) : s \in W}
<1>1. \A s \in W : IsFiniteSet(s) /\ Cardinality(s) \in Nat
  BY FS_Subset, FS_CardinalityType
<1>2. PICK m \in sizes : \A n \in sizes : m <= n
  <2>1. sizes \subseteq Nat /\ sizes # {}
    BY <1>1
  <2> HIDE DEF sizes
  <2> QED  BY <2>1, SmallestOf
<1>3. PICK s \in W : m = Cardinality(s)
  BY <1>2
<1>4. ASSUME NEW t \in SUBSET s, t # s PROVE t \notin W
  <2>1. IsFiniteSet(s)
    BY <1>1
  <2>2. Cardinality(t) <= Cardinality(s) /\ Cardinality(s) # Cardinality(t)
    BY <2>1, <1>4, FS_Subset
  <2>3. ~(Cardinality(s) <= Cardinality(t)) \/ t \notin W
    BY <1>1, <2>2
  <2> QED  BY <1>2, <1>3, <2>3
<1> QED  BY <1>3, <1>4

(* Sums of sets up to a size. *)
UpToSize(S, n) == {s \in SUBSET S : Cardinality(s) <= n}

InOrderUpTo(g, f, S, n) ==
  /\ g \in [UpToSize(S, n) -> Int]
  /\ \A s \in UpToSize(S, n) :
       g[s] = IF s = {} THEN 0 ELSE f[First(s)] + g[s \ {First(s)}]

LEMMA OneMore ==
  ASSUME NEW S, IsFiniteSet(S), NEW f \in [S -> Int], NEW n \in Nat,
         NEW g, InOrderUpTo(g, f, S, n)
  PROVE  \E h : InOrderUpTo(h, f, S, n + 1)
<1> DEFINE h == [s \in UpToSize(S, n + 1) |->
                   IF s = {} THEN 0 ELSE f[First(s)] + g[s \ {First(s)}]]
<1>1. ASSUME NEW s \in UpToSize(S, n + 1), s # {}
      PROVE  /\ First(s) \in S
             /\ s \ {First(s)} \in UpToSize(S, n)
             /\ s \ {First(s)} \in UpToSize(S, n + 1)
  <2>1. First(s) \in s /\ s \in SUBSET S /\ Cardinality(s) <= n + 1
    BY <1>1, FirstIn DEF UpToSize
  <2>2. IsFiniteSet(s) /\ Cardinality(s) \in Nat
    BY <2>1, FS_Subset, FS_CardinalityType
  <2>3. Cardinality(s \ {First(s)}) = Cardinality(s) - 1
    BY <2>1, <2>2, FS_RemoveElement
  <2> QED  BY <2>1, <2>2, <2>3 DEF UpToSize
<1>2. \A s \in UpToSize(S, n) : s \in UpToSize(S, n + 1) /\ h[s] = g[s]
  <2> SUFFICES ASSUME NEW s \in UpToSize(S, n)
               PROVE  s \in UpToSize(S, n + 1) /\ h[s] = g[s]
    OBVIOUS
  <2>1. s \in SUBSET S /\ Cardinality(s) <= n
    BY DEF UpToSize
  <2>2. Cardinality(s) \in Nat
    BY <2>1, FS_Subset, FS_CardinalityType
  <2>3. s \in UpToSize(S, n + 1)
    BY <2>1, <2>2 DEF UpToSize
  <2>4. g[s] = IF s = {} THEN 0 ELSE f[First(s)] + g[s \ {First(s)}]
    BY DEF InOrderUpTo
  <2> QED  BY <2>3, <2>4
<1>3. ASSUME NEW s \in UpToSize(S, n + 1)
      PROVE  /\ h[s] \in Int
             /\ h[s] = IF s = {} THEN 0 ELSE f[First(s)] + h[s \ {First(s)}]
  <2>1. CASE s = {}
    BY <2>1
  <2>2. CASE s # {}
    <3>1. /\ First(s) \in S
          /\ s \ {First(s)} \in UpToSize(S, n)
      BY <1>1, <2>2
    <3>2. h[s] = f[First(s)] + g[s \ {First(s)}]
      BY <2>2
    <3>3. h[s \ {First(s)}] = g[s \ {First(s)}] /\ g[s \ {First(s)}] \in Int
      BY <1>2, <3>1 DEF InOrderUpTo
    <3>4. f[First(s)] \in Int
      BY <3>1
    <3> HIDE DEF h
    <3> QED  BY <2>2, <3>2, <3>3, <3>4
  <2> QED  BY <2>1, <2>2
<1>4. h \in [UpToSize(S, n + 1) -> Int]
  BY <1>3
<1>5. InOrderUpTo(h, f, S, n + 1)
  <2> HIDE DEF h
  <2> QED  BY <1>3, <1>4 DEF InOrderUpTo
<1> QED  BY <1>5

LEMMA OrderedSums ==
  ASSUME NEW S, IsFiniteSet(S), NEW f \in [S -> Int]
  PROVE  \E g : InOrder(g, f, S) /\ g \in [SUBSET S -> Int]
<1> DEFINE wrong == {n \in Nat : ~ \E g : InOrderUpTo(g, f, S, n)}
<1>1. 0 \notin wrong
  <2> DEFINE g == [s \in UpToSize(S, 0) |-> 0]
  <2>1. \A s \in UpToSize(S, 0) : s = {}
    <3> SUFFICES ASSUME NEW s \in UpToSize(S, 0) PROVE s = {}
      OBVIOUS
    <3>1. s \in SUBSET S /\ Cardinality(s) <= 0
      BY DEF UpToSize
    <3>2. IsFiniteSet(s) /\ Cardinality(s) \in Nat
      BY <3>1, FS_Subset, FS_CardinalityType
    <3> QED  BY <3>1, <3>2, FS_EmptySet
  <2>2. InOrderUpTo(g, f, S, 0)
    BY <2>1 DEF InOrderUpTo
  <2> HIDE DEF g
  <2> QED  BY <2>2
<1>2. wrong = {}
  <2> SUFFICES ASSUME wrong # {} PROVE FALSE
    OBVIOUS
  <2>1. PICK m \in wrong : \A n \in wrong : m <= n
    <3>1. wrong \subseteq Nat
      OBVIOUS
    <3> HIDE DEF wrong
    <3> QED  BY <3>1, SmallestOf
  <2>2. PICK n \in Nat : m = n + 1
    <3>1. m \in Nat /\ m # 0
      BY <1>1
    <3>2. m - 1 \in Nat /\ m = (m - 1) + 1
      BY <3>1
    <3> QED  BY <3>2
  <2>3. n \notin wrong
    BY <2>1, <2>2
  <2>4. PICK g : InOrderUpTo(g, f, S, n)
    BY <2>3
  <2>5. \E h : InOrderUpTo(h, f, S, n + 1)
    BY <2>4, OneMore
  <2> QED  BY <2>1, <2>2, <2>5
<1>3. PICK n \in Nat : n = Cardinality(S)
  BY FS_CardinalityType
<1>4. PICK g : InOrderUpTo(g, f, S, n)
  BY <1>2
<1>5. UpToSize(S, n) = SUBSET S
  <2>1. \A s \in SUBSET S : Cardinality(s) <= n
    BY <1>3, FS_Subset
  <2> QED  BY <2>1 DEF UpToSize
<1>6. /\ g \in [SUBSET S -> Int]
      /\ \A s \in SUBSET S : g[s] = IF s = {} THEN 0 ELSE f[First(s)] + g[s \ {First(s)}]
  BY <1>4, <1>5 DEF InOrderUpTo
<1>7. g = [s \in SUBSET S |-> g[s]]
  BY <1>6
<1>8. InOrder(g, f, S)
  BY <1>6, <1>7, Zenon DEF InOrder
<1> QED  BY <1>6, <1>8

LEMMA OrderedType ==
  ASSUME NEW S, IsFiniteSet(S), NEW f \in [S -> Int], NEW g, InOrder(g, f, S)
  PROVE  g \in [SUBSET S -> Int]
<1> DEFINE wrong == {s \in SUBSET S : g[s] \notin Int}
<1>1. \A s \in SUBSET S :
        g[s] = IF s = {} THEN 0 ELSE f[First(s)] + g[s \ {First(s)}]
  BY DEF InOrder
<1>2. wrong = {}
  <2> SUFFICES ASSUME wrong # {} PROVE FALSE
    OBVIOUS
  <2>1. PICK s \in wrong : \A t \in SUBSET s : t # s => t \notin wrong
    <3>1. wrong \subseteq SUBSET S
      OBVIOUS
    <3> HIDE DEF wrong
    <3> QED  BY <3>1, SmallestSet
  <2>2. s \in SUBSET S /\ g[s] \notin Int
    OBVIOUS
  <2>3. ASSUME NEW t \in SUBSET s, t # s PROVE g[t] \in Int
    BY <2>1, <2>2, <2>3
  <2> HIDE DEF wrong
  <2>4. g[s] = IF s = {} THEN 0 ELSE f[First(s)] + g[s \ {First(s)}]
    BY <1>1, <2>2
  <2>5. s # {}
    BY <2>2, <2>4
  <2>6. First(s) \in s /\ First(s) \in S
    BY <2>2, <2>5, FirstIn
  <2>7. g[s \ {First(s)}] \in Int
    BY <2>3, <2>6
  <2>8. f[First(s)] \in Int
    BY <2>6
  <2> QED  BY <2>2, <2>4, <2>5, <2>7, <2>8
<1>3. DOMAIN g = SUBSET S /\ g = [s \in DOMAIN g |-> g[s]]
  BY DEF InOrder
<1> QED  BY <1>2, <1>3

(* The order in which numbers are added up does not matter. *)
LEMMA OrderFree ==
  ASSUME NEW S, IsFiniteSet(S), NEW f \in [S -> Int], NEW g, InOrder(g, f, S)
  PROVE  Sums(g, f, S)
<1> DEFINE Good(s) == \A x \in s : g[s] = f[x] + g[s \ {x}]
           wrong == {s \in SUBSET S : ~Good(s)}
<1>1. \A s \in SUBSET S :
        g[s] = IF s = {} THEN 0 ELSE f[First(s)] + g[s \ {First(s)}]
  BY DEF InOrder
<1>2. g \in [SUBSET S -> Int]
  BY OrderedType
<1>3. wrong = {}
  <2> SUFFICES ASSUME wrong # {} PROVE FALSE
    OBVIOUS
  <2>1. PICK s \in wrong : \A t \in SUBSET s : t # s => t \notin wrong
    <3>1. wrong \subseteq SUBSET S
      OBVIOUS
    <3> HIDE DEF wrong
    <3> QED  BY <3>1, SmallestSet
  <2>2. s \in SUBSET S
    OBVIOUS
  <2>3. ASSUME NEW t \in SUBSET s, t # s, NEW x \in t
        PROVE  g[t] = f[x] + g[t \ {x}]
    BY <2>1, <2>2, <2>3
  <2> HIDE DEF wrong
  <2>4. PICK x \in s : g[s] # f[x] + g[s \ {x}]
    BY DEF wrong
  <2>5. PICK y \in s : y = First(s)
    BY <2>4, FirstIn
  <2>6. g[s] = f[y] + g[s \ {y}]
    BY <1>1, <2>2, <2>5
  <2>7. x # y
    BY <2>4, <2>6
  <2>8. g[s \ {y}] = f[x] + g[(s \ {y}) \ {x}]
    <3>1. s \ {y} \in SUBSET s /\ s \ {y} # s /\ x \in s \ {y}
      BY <2>7
    <3> QED  BY <2>3, <3>1
  <2>9. g[s \ {x}] = f[y] + g[(s \ {x}) \ {y}]
    <3>1. s \ {x} \in SUBSET s /\ s \ {x} # s /\ y \in s \ {x}
      BY <2>7
    <3> QED  BY <2>3, <3>1
  <2>10. (s \ {y}) \ {x} = (s \ {x}) \ {y}
    OBVIOUS
  <2>11. PICK a \in Int, b \in Int, c \in Int :
           a = f[x] /\ b = f[y] /\ c = g[(s \ {x}) \ {y}]
    <3>1. x \in S /\ y \in S /\ (s \ {x}) \ {y} \in SUBSET S
      BY <2>2
    <3> QED  BY <1>2, <3>1
  <2>12. g[s] = b + (a + c) /\ g[s \ {x}] = b + c
    BY <2>6, <2>8, <2>9, <2>10, <2>11
  <2> QED  BY <2>4, <2>11, <2>12
<1>4. g[{}] = 0
  BY <1>1
<1> QED  BY <1>2, <1>3, <1>4 DEF Sums

(* Total(f) is how World adds up an amount: OnMap and Carried are totals. *)
Total(f) == FoldFunction(+, 0, f)

LEMMA TotalIsSum ==
  ASSUME NEW S, IsFiniteSet(S), NEW f \in [S -> Int]
  PROVE  \E g : Sums(g, f, S) /\ Total(f) = g[S]
<1> DEFINE g == CHOOSE g : InOrder(g, f, S)
<1>1. InOrder(g, f, S)
  BY OrderedSums
<1>2. Total(f) = g[S]
  <2>1. DOMAIN f = S
    OBVIOUS
  <2>2. Total(f) = (CHOOSE h : h = [s \in SUBSET S |->
                      IF s = {} THEN 0
                      ELSE LET x == CHOOSE x \in s : TRUE IN f[x] + h[s \ {x}]])[S]
    BY <2>1, Zenon DEF Total, FoldFunction, FoldFunctionOnSet, MapThenFoldSet
  <2> QED  BY <2>2, Zenon DEF InOrder, First
<1> QED  BY <1>1, <1>2, OrderFree

LEMMA SumsType ==
  ASSUME NEW S, NEW g, NEW f \in [S -> Int], Sums(g, f, S), NEW s \in SUBSET S
  PROVE  g[s] \in Int
BY DEF Sums

(* What is added up twice is added up together. *)
LEMMA SumsAdd ==
  ASSUME NEW S, IsFiniteSet(S),
         NEW f \in [S -> Int], NEW g, Sums(g, f, S),
         NEW e \in [S -> Int], NEW h, Sums(h, e, S),
         NEW d \in [S -> Int], NEW k, Sums(k, d, S),
         NEW T \in SUBSET S, \A x \in T : d[x] = f[x] + e[x]
  PROVE  k[T] = g[T] + h[T]
<1> DEFINE wrong == {s \in SUBSET T : k[s] # g[s] + h[s]}
<1>1. ASSUME wrong # {} PROVE FALSE
  <2>1. PICK s \in wrong : \A t \in SUBSET s : t # s => t \notin wrong
    <3>1. wrong \subseteq SUBSET T /\ IsFiniteSet(T)
      BY FS_Subset
    <3> HIDE DEF wrong
    <3> QED  BY <1>1, <3>1, SmallestSet
  <2>2. s \in SUBSET S /\ s \in SUBSET T /\ k[s] # g[s] + h[s]
    OBVIOUS
  <2>3. ASSUME NEW t \in SUBSET s, t # s PROVE k[t] = g[t] + h[t]
    BY <2>1, <2>2, <2>3
  <2> HIDE DEF wrong
  <2>4. s # {}
    <3> SUFFICES ASSUME s = {} PROVE k[s] = g[s] + h[s]
      BY <2>2
    <3>1. g[s] = 0 /\ h[s] = 0 /\ k[s] = 0
      BY DEF Sums
    <3>2. 0 = 0 + 0
      OBVIOUS
    <3> QED  BY <3>1, <3>2, Zenon
  <2>5. PICK x \in s : TRUE
    BY <2>4
  <2>6. /\ g[s] = f[x] + g[s \ {x}]
        /\ h[s] = e[x] + h[s \ {x}]
        /\ k[s] = d[x] + k[s \ {x}]
    BY <2>2 DEF Sums
  <2>7. k[s \ {x}] = g[s \ {x}] + h[s \ {x}]
    BY <2>3
  <2>8. PICK a \in Int, b \in Int, u \in Int, v \in Int :
          a = f[x] /\ b = e[x] /\ u = g[s \ {x}] /\ v = h[s \ {x}]
    <3>1. x \in S /\ s \ {x} \in SUBSET S
      BY <2>2
    <3>2. g[s \ {x}] \in Int /\ h[s \ {x}] \in Int
      BY <3>1, SumsType
    <3> QED  BY <3>1, <3>2
  <2>9. d[x] = a + b
    BY <2>2, <2>8
  <2> QED  BY <2>2, <2>6, <2>7, <2>8, <2>9
<1> QED  BY <1>1

LEMMA TotalType ==
  ASSUME NEW S, IsFiniteSet(S), NEW f \in [S -> Int]
  PROVE  Total(f) \in Int
<1>1. PICK g : Sums(g, f, S) /\ Total(f) = g[S]
  BY TotalIsSum
<1>2. S \in SUBSET S
  OBVIOUS
<1> QED  BY <1>1, <1>2, SumsType

LEMMA TotalAdds ==
  ASSUME NEW S, IsFiniteSet(S), NEW f \in [S -> Int], NEW e \in [S -> Int],
         NEW d \in [S -> Int], \A x \in S : d[x] = f[x] + e[x]
  PROVE  Total(d) = Total(f) + Total(e)
<1>1. PICK g : Sums(g, f, S) /\ Total(f) = g[S]
  BY TotalIsSum
<1>2. PICK h : Sums(h, e, S) /\ Total(e) = h[S]
  BY TotalIsSum
<1>3. PICK k : Sums(k, d, S) /\ Total(d) = k[S]
  BY TotalIsSum
<1>4. S \in SUBSET S
  OBVIOUS
<1>5. k[S] = g[S] + h[S]
  BY <1>1, <1>2, <1>3, <1>4, SumsAdd
<1> QED  BY <1>1, <1>2, <1>3, <1>5

(* A total in which one number has changed. *)
LEMMA TotalChanges ==
  ASSUME NEW S, IsFiniteSet(S), NEW f \in [S -> Int], NEW d \in [S -> Int],
         NEW x \in S, \A y \in S \ {x} : d[y] = f[y]
  PROVE  Total(d) = Total(f) + (d[x] - f[x])
<1> DEFINE none == [y \in S |-> 0]
<1>0. none \in [S -> Int] /\ \A y \in S : none[y] = 0
  OBVIOUS
<1> HIDE DEF none
<1>1. PICK g : Sums(g, f, S) /\ Total(f) = g[S]
  BY TotalIsSum
<1>2. PICK h : Sums(h, none, S)
  BY <1>0, TotalIsSum
<1>3. PICK k : Sums(k, d, S) /\ Total(d) = k[S]
  BY TotalIsSum
<1>4. PICK rest \in SUBSET S : rest = S \ {x} /\ S \in SUBSET S
  OBVIOUS
<1>5. k[rest] = g[rest] + h[rest]
  <2>1. \A y \in rest : d[y] = f[y] + none[y]
    BY <1>0, <1>4
  <2> QED  BY <1>0, <1>1, <1>2, <1>3, <2>1, SumsAdd
<1>6. h[rest] = 0
  <2>1. h[rest] = h[rest] + h[rest]
    <3>1. \A y \in rest : none[y] = none[y] + none[y]
      BY <1>0
    <3> QED  BY <1>0, <1>2, <3>1, SumsAdd
  <2>2. PICK z \in Int : z = h[rest]
    BY <1>0, <1>2, SumsType
  <2>3. z = z + z
    BY <2>1, <2>2, Zenon
  <2>4. z = 0
    BY <2>3
  <2> QED  BY <2>2, <2>4, Zenon
<1>7. g[S] = f[x] + g[rest] /\ k[S] = d[x] + k[rest]
  BY <1>1, <1>3, <1>4 DEF Sums
<1>8. g[rest] \in Int /\ f[x] \in Int /\ d[x] \in Int
  BY <1>1, SumsType
<1> QED  BY <1>1, <1>3, <1>5, <1>6, <1>7, <1>8

LEMMA TilesFinite == IsFiniteSet(Tile)
<1>1. /\ IsFiniteSet(0 .. Width - 1)
      /\ IsFiniteSet(0 .. Height - 1)
  BY SizeAssumption, FS_Interval
<1> QED  BY <1>1, FS_Product DEF Tile

-----------------------------------------------------------------------------
(* What lies on the map and what players hold of one resource, as functions. *)
Lying(r) == [t \in Tile |-> stones[t][r]]
Held(r)  == [p \in Players |-> inv[p][r]]

LEMMA Amounts ==
  ASSUME WorldTypeOK, NEW r \in Resource
  PROVE  /\ Lying(r) \in [Tile -> Int] /\ OnMap(r) = Total(Lying(r))
         /\ Held(r) \in [Players -> Int] /\ Carried(r) = Total(Held(r))
<1>1. Lying(r) \in [Tile -> Int] /\ Held(r) \in [Players -> Int]
  BY DEF WorldTypeOK, Lying, Held
<1> QED  BY <1>1 DEF OnMap, Carried, Total, Lying, Held

AmountsOK ==
  \A r \in Resource :
    /\ Lying(r) \in [Tile -> Int] /\ OnMap(r) = Total(Lying(r))
    /\ Held(r) \in [Players -> Int] /\ Carried(r) = Total(Held(r))

LEMMA AmountsAre == WorldTypeOK => AmountsOK
BY Amounts DEF AmountsOK

(* A stone that moves from the map to a player, or back. *)
LEMMA StonePasses ==
  ASSUME WorldTypeOK, WorldTypeOK',
         NEW p \in Players, NEW s \in Resource, NEW n \in {-1, 1}, NEW r \in Resource,
         inv' = [inv EXCEPT ![p][s] = @ + n],
         stones' = [stones EXCEPT ![pos[p]][s] = @ - n]
  PROVE  OnMap(r)' + Carried(r)' = OnMap(r) + Carried(r)
<1>1. AmountsOK /\ AmountsOK'
  BY AmountsAre, PTL
<1>2. pos[p] \in Tile
  BY DEF WorldTypeOK
<1>3. CASE r = s
  <2>1. /\ \A t \in Tile \ {pos[p]} : Lying(r)'[t] = Lying(r)[t]
        /\ Lying(r)'[pos[p]] = Lying(r)[pos[p]] - n
    BY <1>2, <1>3 DEF Lying, WorldTypeOK
  <2>2. /\ \A q \in Players \ {p} : Held(r)'[q] = Held(r)[q]
        /\ Held(r)'[p] = Held(r)[p] + n
    BY <1>3 DEF Held, WorldTypeOK
  <2>3. OnMap(r)' = OnMap(r) + (Lying(r)'[pos[p]] - Lying(r)[pos[p]])
    BY <1>1, <1>2, <2>1, TilesFinite, TotalChanges DEF AmountsOK
  <2>4. Carried(r)' = Carried(r) + (Held(r)'[p] - Held(r)[p])
    BY <1>1, <2>2, PlayersAssumption, TotalChanges DEF AmountsOK
  <2>5. /\ OnMap(r) \in Int /\ Carried(r) \in Int
        /\ Lying(r)[pos[p]] \in Int /\ Held(r)[p] \in Int
    BY <1>1, <1>2, TilesFinite, PlayersAssumption, TotalType DEF AmountsOK
  <2> QED  BY <2>1, <2>2, <2>3, <2>4, <2>5
<1>4. CASE r # s
  <2>1. Lying(r)' = Lying(r) /\ Held(r)' = Held(r)
    BY <1>2, <1>4 DEF Lying, Held, WorldTypeOK
  <2> QED  BY <1>1, <2>1 DEF AmountsOK
<1> QED  BY <1>3, <1>4

(* What a ritual costs goes from the tile of the player that performed it. *)
LEMMA RitualPays ==
  ASSUME WorldTypeOK, WorldTypeOK', NEW p \in Players, NEW r \in Resource,
         lvl[p] \in 1 .. MaxLevel - 1, UNCHANGED inv,
         stones' = [stones EXCEPT ![pos[p]] =
                      [x \in Resource |-> @[x] - StonesNeeded[lvl[p]][x]]]
  PROVE  /\ OnMap(r)' = OnMap(r) - StonesNeeded[lvl[p]][r]
         /\ Carried(r)' = Carried(r)
<1>1. AmountsOK /\ AmountsOK'
  BY AmountsAre, PTL
<1>2. pos[p] \in Tile
  BY DEF WorldTypeOK
<1>3. PICK cost \in Int : cost = StonesNeeded[lvl[p]][r]
  BY WorldAssumption
<1>4. /\ \A t \in Tile \ {pos[p]} : Lying(r)'[t] = Lying(r)[t]
      /\ Lying(r)'[pos[p]] = Lying(r)[pos[p]] - cost
  BY <1>2, <1>3 DEF Lying, WorldTypeOK
<1>5. OnMap(r)' = OnMap(r) + (Lying(r)'[pos[p]] - Lying(r)[pos[p]])
  BY <1>1, <1>2, <1>4, TilesFinite, TotalChanges, SMTT(40) DEF AmountsOK
<1>6. OnMap(r) \in Int /\ Lying(r)[pos[p]] \in Int
  BY <1>1, <1>2, TilesFinite, TotalType DEF AmountsOK
<1>7. Carried(r)' = Carried(r)
  <2>1. Held(r)' = Held(r)
    BY DEF Held
  <2> QED  BY <1>1, <2>1 DEF AmountsOK
<1> QED  BY <1>3, <1>4, <1>5, <1>6, <1>7

(* The respawn brings exactly what the map misses. *)
LEMMA RespawnFills ==
  ASSUME WorldTypeOK, WorldTypeOK', Respawn, NEW r \in Resource
  PROVE  /\ OnMap(r)' = OnMap(r) + Missing(r)
         /\ Carried(r)' = Carried(r)
<1>1. AmountsOK /\ AmountsOK'
  BY AmountsAre, PTL
<1>2. PICK fresh \in [Tile -> [Resource -> 0 .. MaxTarget]] :
        /\ \A x \in Resource : Total([t \in Tile |-> fresh[t][x]]) = Missing(x)
        /\ stones' = [t \in Tile |-> [x \in Resource |-> stones[t][x] + fresh[t][x]]]
        /\ UNCHANGED inv
  BY Zenon DEF Respawn, generateResources, Total
<1>3. PICK new \in [Tile -> Int] :
        /\ new = [t \in Tile |-> fresh[t][r]]
        /\ Total(new) = Missing(r)
  <2>1. [t \in Tile |-> fresh[t][r]] \in [Tile -> Int]
    BY WorldAssumption
  <2>2. Total([t \in Tile |-> fresh[t][r]]) = Missing(r)
    BY <1>2
  <2> QED  BY <2>1, <2>2
<1>4. \A t \in Tile : Lying(r)'[t] = Lying(r)[t] + new[t]
  <2> SUFFICES ASSUME NEW t \in Tile PROVE Lying(r)'[t] = Lying(r)[t] + new[t]
    OBVIOUS
  <2>1. stones'[t][r] = stones[t][r] + fresh[t][r]
    BY <1>2
  <2>2. Lying(r)'[t] = stones'[t][r] /\ Lying(r)[t] = stones[t][r] /\ new[t] = fresh[t][r]
    BY <1>3 DEF Lying
  <2> QED  BY <2>1, <2>2
<1>5. OnMap(r)' = OnMap(r) + Total(new)
  <2>1. PICK old \in [Tile -> Int], now \in [Tile -> Int] :
          /\ old = Lying(r) /\ now = Lying(r)'
          /\ OnMap(r) = Total(old) /\ OnMap(r)' = Total(now)
    BY <1>1 DEF AmountsOK
  <2>2. \A t \in Tile : now[t] = old[t] + new[t]
    BY <1>4, <2>1
  <2>3. Total(now) = Total(old) + Total(new)
    BY <1>3, <2>2, TilesFinite, TotalAdds
  <2> QED  BY <2>1, <2>3
<1>6. Carried(r)' = Carried(r)
  <2>1. Held(r)' = Held(r)
    BY <1>2 DEF Held
  <2> QED  BY <1>1, <2>1 DEF AmountsOK
<1> QED  BY <1>3, <1>5, <1>6

LEMMA AmountsAreNumbers ==
  ASSUME WorldTypeOK, NEW r \in Resource
  PROVE  OnMap(r) \in Int /\ Carried(r) \in Int
<1>1. OnMap(r) \in Int
  BY Amounts, TilesFinite, TotalType
<1>2. Carried(r) \in Int
  BY Amounts, PlayersAssumption, TotalType
<1> QED  BY <1>1, <1>2

LEMMA StepBalances ==
  ASSUME WorldTypeOK, WorldTypeOK', WorldNext,
         NEW r \in Resource, stoneVars' # stoneVars
  PROVE  Balanced(r)
<1>0. PICK m \in Int, c \in Int : m = OnMap(r) /\ c = Carried(r)
  BY AmountsAreNumbers
<1>1. CASE \E p \in Players : Take(p) \/ Drop(p)
  <2>1. PICK p \in Players, s \in Resource : take(p, s) \/ set(p, s)
    BY <1>1 DEF Take, Drop
  <2>2. PICK n \in {-1, 1} :
          /\ inv' = [inv EXCEPT ![p][s] = @ + n]
          /\ stones' = [stones EXCEPT ![pos[p]][s] = @ - n]
    <3>1. CASE take(p, s)
      <4>1. PICK n \in {-1, 1} : n = 1
        OBVIOUS
      <4> QED  BY <3>1, <4>1 DEF take
    <3>2. CASE set(p, s)
      <4>1. PICK n \in {-1, 1} : n = -1
        OBVIOUS
      <4>2. pos[p] \in Tile /\ inv[p][s] \in Nat /\ stones[pos[p]][s] \in Nat
        BY DEF WorldTypeOK
      <4>3. inv[p][s] - 1 = inv[p][s] + n /\ stones[pos[p]][s] + 1 = stones[pos[p]][s] - n
        BY <4>1, <4>2
      <4>4. /\ inv' = [inv EXCEPT ![p][s] = inv[p][s] - 1]
            /\ stones' = [stones EXCEPT ![pos[p]][s] = stones[pos[p]][s] + 1]
        BY <3>2 DEF set
      <4> QED  BY <4>3, <4>4
    <3> QED  BY <2>1, <3>1, <3>2
  <2>3. OnMap(r)' + Carried(r)' = OnMap(r) + Carried(r)
    BY <2>2, StonePasses
  <2>4. PICK now \in Int : now = OnMap(r) + Carried(r)
    BY <1>0
  <2> QED  BY <2>3, <2>4 DEF Balanced
<1>2. CASE \E p \in Players : Finish(p)
  <2>1. PICK p \in Players : InPlay(p) /\ finishElevation(p)
    BY <1>2 DEF Finish
  <2>2. canElevate(p)
    BY <2>1 DEF finishElevation, endElevation, stoneVars
  <2>3. PICK cost \in Nat : cost = StonesNeeded[lvl[p]][r]
    <3>1. lvl[p] \in 1 .. MaxLevel - 1
      BY <2>2, WorldAssumption DEF canElevate, WorldTypeOK
    <3> QED  BY <3>1, WorldAssumption
  <2>4. OnMap(r)' = m - cost /\ Carried(r)' = c
    <3>1. lvl[p] \in 1 .. MaxLevel - 1
      BY <2>2, WorldAssumption DEF canElevate, WorldTypeOK
    <3>2. UNCHANGED inv
      BY <2>1 DEF finishElevation, endElevation
    <3>3. stones' = [stones EXCEPT ![pos[p]] =
                       [x \in Resource |-> @[x] - StonesNeeded[lvl[p]][x]]]
      BY <2>1, <2>2 DEF finishElevation, endElevation
    <3> QED  BY <1>0, <2>3, <3>1, <3>2, <3>3, RitualPays
  <2>5. lvl'[p] > lvl[p]
    <3>1. p \in Peers(p)
      BY <2>1 DEF InPlay, Peers
    <3>2. lvl'[p] = lvl[p] + 1
      BY <2>1, <2>2, <3>1 DEF finishElevation, endElevation
    <3>3. lvl[p] \in Int
      BY WorldAssumption DEF WorldTypeOK
    <3> QED  BY <3>2, <3>3
  <2>6. OnMap(r) + Carried(r) - (OnMap(r)' + Carried(r)') = StonesNeeded[lvl[p]][r]
    BY <1>0, <2>3, <2>4
  <2>7. ~(OnMap(r)' + Carried(r)' > OnMap(r) + Carried(r))
    BY <1>0, <2>4
  <2>8. \E q \in Players :
          /\ lvl'[q] > lvl[q]
          /\ OnMap(r) + Carried(r) - (OnMap(r)' + Carried(r)') = StonesNeeded[lvl[q]][r]
    BY <2>5, <2>6, Zenon
  <2> QED  BY <2>7, <2>8, Zenon DEF Balanced
<1>3. CASE Respawn
  <2>1. /\ OnMap(r)' = OnMap(r) + Missing(r)
        /\ Carried(r)' = Carried(r)
    BY <1>3, RespawnFills
  <2>2. PICK goal \in Nat : goal = Target[r]
    BY WorldAssumption
  <2>3. Missing(r) = IF m < goal THEN goal - m ELSE 0
    BY <1>0, <2>2 DEF Missing
  <2>4. CASE m < goal
    <3>1. OnMap(r)' = goal
      BY <1>0, <2>1, <2>2, <2>3, <2>4
    <3>2. ~(OnMap(r)' + Carried(r)' < OnMap(r) + Carried(r))
      BY <1>0, <2>1, <2>4, <3>1
    <3> QED  BY <2>1, <2>2, <3>1, <3>2 DEF Balanced
  <2>5. CASE ~(m < goal)
    <3>1. OnMap(r)' = m /\ Carried(r)' = c
      BY <1>0, <2>1, <2>3, <2>5
    <3> QED  BY <1>0, <3>1 DEF Balanced
  <2> QED  BY <2>4, <2>5
<1>4. ASSUME NEW p \in Players,
             Hatch(p) \/ Step(p) \/ Turn(p) \/ Eject(p) \/ Fork(p) \/ Start(p) \/ Leave(p)
      PROVE  FALSE
  BY <1>4
  DEF stoneVars, Hatch, hatchEgg, Step, forward, Turn, left, right, turn, Eject, eject, Fork, fork,
      layEgg, Start, startElevation, Leave, leaveMap, Age, checkLives
<1>5. CASE Age
  BY <1>5 DEF stoneVars, Age, checkLives
<1> QED  BY <1>1, <1>2, <1>3, <1>4, <1>5 DEF WorldNext

(***************************************************************************)
(* Resources only change hands: on any map, however many players there are *)
(* and whatever they do, nothing is lost but what rituals cost, and what   *)
(* is new is what the respawn found missing on the map.                    *)
(***************************************************************************)
THEOREM ResourcesAlwaysConserved == WorldSpec => ResourcesConserved
<1>1. WorldTypeOK /\ WorldTypeOK' /\ [WorldNext]_worldVars
        => \A r \in Resource : stoneVars' # stoneVars => Balanced(r)
  <2> SUFFICES ASSUME WorldTypeOK, WorldTypeOK', [WorldNext]_worldVars,
                      NEW r \in Resource, stoneVars' # stoneVars
               PROVE  Balanced(r)
    OBVIOUS
  <2>1. WorldNext
    BY DEF worldVars, stoneVars
  <2> QED  BY <2>1, StepBalances
<1> QED  BY <1>1, WorldTypeCorrect, PTL DEF WorldSpec, ResourcesConserved
=============================================================================
