------------------------------ MODULE Walkers ------------------------------
(***************************************************************************)
(* A listener walks over a map, an emitter over the same map, and the      *)
(* geometry of Torus.tla is compared in every state with what walking      *)
(* itself shows.  The map may have any size.                               *)
(***************************************************************************)
EXTENDS Torus

CONSTANT MaxLevel      \* a bound of the model: the level of the listener

ASSUME WalkersAssumption == MaxLevel \in Nat

VARIABLES at, facing, emitter, lvl

vars == <<at, facing, emitter, lvl>>

Init ==
  /\ lvl \in 1 .. MaxLevel
  /\ at = <<0, 0>>
  /\ facing = "UP"
  /\ emitter = <<0, 0>>

Walk ==
  /\ at' = Move(at, facing)
  /\ UNCHANGED <<facing, emitter, lvl>>

Turn ==
  /\ facing' \in {TurnLeft(facing), TurnRight(facing)}
  /\ UNCHANGED <<at, emitter, lvl>>

EmitterWalks ==
  /\ \E d \in Direction : emitter' = Move(emitter, d)
  /\ UNCHANGED <<at, facing, lvl>>

Next == Walk \/ Turn \/ EmitterWalks

Spec == Init /\ [][Next]_vars

-----------------------------------------------------------------------------
(* The distance a listener has to walk to the emitter, by the shorter way. *)
Ring(a, b, size) ==
  LET d == (a - b) % size IN IF d <= size - d THEN d ELSE size - d

Distance(s, t) == Ring(s[1], t[1], Width) + Ring(s[2], t[2], Height)

Heard(t, d) == SoundTile(t, d, emitter)

(* Walking n steps in a direction, one step at a time. *)
Steps(t, d, n) ==
  LET walk[k \in 0 .. n] == IF k = 0 THEN t ELSE Move(walk[k - 1], d)
  IN  walk[n]

(***************************************************************************)
(* A listener that hears a sound through one of the three tiles in front   *)
(* of it gets nearer to the emitter with every step it walks forward, by   *)
(* the shorter way round the map; one that hears it on its own tile is on  *)
(* the emitter's tile, and only then (calculAfectedTile, getAffectedTile). *)
(***************************************************************************)
SoundLeadsHome ==
  /\ Heard(at, facing) \in {8, 1, 2} =>
       Distance(Move(at, facing), emitter) = Distance(at, emitter) - 1
  /\ Heard(at, facing) = 0 <=> at = emitter

(***************************************************************************)
(* A right turn makes every sound that is not on the spot come from two    *)
(* tiles further to the left, a left turn from two tiles further to the    *)
(* right: the numbers of the eight tiles and the two turns agree on which  *)
(* way is clockwise.                                                       *)
(***************************************************************************)
SoundTurnsWithListener ==
  Heard(at, facing) # 0 =>
    LET k == Heard(at, facing) - 1 IN
    /\ Heard(at, TurnRight(facing)) - 1 = (k - 2) % 8
    /\ Heard(at, TurnLeft(facing)) - 1 = (k + 2) % 8

(***************************************************************************)
(* What look() shows in row i, column j is the tile one would reach by     *)
(* walking i steps forward and |j| to the side, as long as the view is no  *)
(* longer than the map in either direction.                                *)
(***************************************************************************)
LookSeesWhereOneWalks ==
  (lvl <= Width /\ lvl <= Height) =>
    \A c \in View(lvl) :
      LET ahead == Steps(at, facing, c[1])
          aside == IF c[2] >= 0
                     THEN Steps(ahead, TurnRight(facing), c[2])
                     ELSE Steps(ahead, TurnLeft(facing), -c[2])
      IN  LookTile(at, facing, c[1], c[2]) = aside
=============================================================================
