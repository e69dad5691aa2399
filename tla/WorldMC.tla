------------------------------ MODULE WorldMC ------------------------------
(***************************************************************************)
(* A small world for TLC.  The elevation table keeps the shape of the      *)
(* code's: one player is enough for the first ritual, two are needed for   *)
(* the next, and each costs resources that lie on the tile.                *)
(***************************************************************************)
EXTENDS World, TLC

CONSTANTS
  MaxEggs,          \* a bound of the model: eggs ever laid
  MaxStones         \* a bound of the model: no respawn beyond this many of a kind

MCPlayersNeeded == <<1, 2>>
MCStonesNeeded == [l \in 1 .. 2 |-> [r \in Resource |-> 1]]
MCTarget == [r \in Resource |-> 1]

(* WorldNext, within the bounds. *)
BoundedNext ==
  \/ \E p \in Players :
       \/ Hatch(p) \/ Step(p) \/ Turn(p) \/ Eject(p) \/ Take(p) \/ Drop(p)
       \/ nextEgg < MaxEggs /\ Fork(p)
       \/ Start(p) \/ Finish(p) \/ Leave(p)
  \/ Age
  \/ AtMost(MaxStones) /\ Respawn

BoundedSpec == WorldInit /\ [][BoundedNext]_worldVars

Symmetry == Permutations(Players) \cup Permutations(Teams)
=============================================================================
