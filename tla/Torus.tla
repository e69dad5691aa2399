------------------------------- MODULE Torus -------------------------------
(***************************************************************************)
(* The geometry of the map: a Width x Height grid whose edges are glued    *)
(* together.  Everything a Trantorian computes from its own position and   *)
(* facing is here: one step, the two turns, the tiles it sees, and the     *)
(* number (0..8) of the neighbouring tile a sound reaches it through.      *)
(*                                                                         *)
(* The module has no variable; World.tla moves players with it and         *)
(* Walkers.tla compares it with what walking shows.                        *)
(***************************************************************************)
EXTENDS Integers

CONSTANTS Width, Height

ASSUME SizeAssumption == Width \in Nat \ {0} /\ Height \in Nat \ {0}

Direction == {"UP", "DOWN", "LEFT", "RIGHT"}

Tile == (0 .. Width - 1) \X (0 .. Height - 1)

(***************************************************************************)
(* The unit vector one walks along, and the one to the walker's right.     *)
(* The y axis grows downwards.                                             *)
(***************************************************************************)
Forward(d) ==
  CASE d = "UP"    -> <<0, -1>>
    [] d = "DOWN"  -> <<0, 1>>
    [] d = "LEFT"  -> <<-1, 0>>
    [] d = "RIGHT" -> <<1, 0>>

Side(d) ==
  CASE d = "UP"    -> <<1, 0>>
    [] d = "DOWN"  -> <<-1, 0>>
    [] d = "LEFT"  -> <<0, -1>>
    [] d = "RIGHT" -> <<0, 1>>

(* A left turn that turns the wrong way when the walker faces up or down. *)
TurnLeftMirrored(d) ==
  CASE d = "UP" -> "RIGHT" [] d = "DOWN" -> "LEFT"
    [] d = "LEFT" -> "DOWN" [] d = "RIGHT" -> "UP"

TurnLeft(d) ==
  CASE d = "UP" -> "LEFT" [] d = "DOWN" -> "RIGHT"
    [] d = "LEFT" -> "DOWN" [] d = "RIGHT" -> "UP"

TurnRight(d) ==
  CASE d = "UP" -> "RIGHT" [] d = "DOWN" -> "LEFT"
    [] d = "LEFT" -> "UP" [] d = "RIGHT" -> "DOWN"

(* One step in direction d; walking off an edge enters at the opposite one. *)
Move(t, d) ==
  CASE d = "UP"    -> <<t[1], (t[2] + Height - 1) % Height>>
    [] d = "DOWN"  -> <<t[1], (t[2] + 1) % Height>>
    [] d = "LEFT"  -> <<(t[1] + Width - 1) % Width, t[2]>>
    [] d = "RIGHT" -> <<(t[1] + 1) % Width, t[2]>>

-----------------------------------------------------------------------------
(***************************************************************************)
(* C++'s % keeps the sign of its left operand, where TLA+'s is never       *)
(* negative.  look() adds the map's size once before it takes %, so a tile *)
(* that lies more than one whole map away keeps a negative coordinate.     *)
(***************************************************************************)
CRemainder(a, n) == IF a >= 0 THEN a % n ELSE -((-a) % n)

(* A view that does not wrap at the edges of the map. *)
LookTileUnwrapped(t, d, i, j) ==
  <<t[1] + Forward(d)[1] * i + Side(d)[1] * j,
    t[2] + Forward(d)[2] * i + Side(d)[2] * j>>

(* The tile i rows ahead and j columns to the right of one that stands on t. *)
LookTile(t, d, i, j) ==
  <<CRemainder(t[1] + Forward(d)[1] * i + Side(d)[1] * j + Width, Width),
    CRemainder(t[2] + Forward(d)[2] * i + Side(d)[2] * j + Height, Height)>>

(* The (row, column) pairs look() walks through at a level. *)
View(lvl) == {c \in (0 .. lvl) \X (-lvl .. lvl) : -c[1] <= c[2] /\ c[2] <= c[1]}

-----------------------------------------------------------------------------
(* The displacement along one axis, when wrapping is forgotten. *)
NotWrapped(delta, size) == delta

(* The displacement along one axis, made the shorter of the two ways round. *)
Wrapped(delta, size) ==
  CASE delta > size \div 2    -> delta - size
    [] delta < -(size \div 2) -> delta + size
    [] OTHER                  -> delta

(* The number of a neighbouring tile, clockwise from the one in front. *)
AffectedTile(ahead, right) ==
  CASE ahead = 0 /\ right = 0 -> 0
    [] ahead > 0 /\ right = 0 -> 1
    [] ahead > 0 /\ right > 0 -> 2
    [] ahead = 0 /\ right > 0 -> 3
    [] ahead < 0 /\ right > 0 -> 4
    [] ahead < 0 /\ right = 0 -> 5
    [] ahead < 0 /\ right < 0 -> 6
    [] ahead = 0 /\ right < 0 -> 7
    [] ahead > 0 /\ right < 0 -> 8

(* Through which neighbouring tile a listener on t, facing d, hears from. *)
SoundTile(t, d, from) ==
  LET dx == Wrapped(from[1] - t[1], Width)
      dy == Wrapped(from[2] - t[2], Height)
  IN  AffectedTile(dx * Forward(d)[1] + dy * Forward(d)[2],
                   dx * Side(d)[1] + dy * Side(d)[2])
=============================================================================
