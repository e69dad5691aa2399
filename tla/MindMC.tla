------------------------------- MODULE MindMC -------------------------------
(***************************************************************************)
(* Mind.tla with little on the ground.  A bot that is alone decides so     *)
(* much by itself that it is followed for ever; one in company is followed *)
(* for MaxTurns turns.                                                     *)
(***************************************************************************)
EXTENDS Mind

CONSTANTS MaxFood, MaxStones, Hatched, MaxTurns

VARIABLE turns

Few(n) == {S \in SUBSET Tile : Cardinality(S) <= n}

Grounds ==
  {[t \in Tile |-> {o \in Object : t \in where[o]}] :
     where \in {f \in [Object -> Few(MaxFood) \cup Few(MaxStones)] :
                  /\ f["food"] \in Few(MaxFood)
                  /\ \A o \in Wanted : f[o] \in Few(MaxStones)}}

(* In company the ground is empty at first; the others lay things down. *)
Init ==
  /\ turns = 0
  /\ hatched \in Hatched
  /\ Start(Grounds)
  /\ ~alone => \A t \in Tile : ground[t] = {}

TakeTurn ==
  /\ alone \/ turns < MaxTurns
  /\ turns' = IF alone THEN 0 ELSE turns + 1
  /\ Read

Happen == (Serve \/ Meddle) /\ UNCHANGED turns

MCNext == TakeTurn \/ Happen

MCSpec == Init /\ [][MCNext]_<<vars, turns>>

(***************************************************************************)
(* The two programs run.  (It is asked where the property needs it, of a   *)
(* bot that is alone: the other one stops at MaxTurns anyway.)             *)
(***************************************************************************)
AloneReads == alone /\ TakeTurn
AloneIsServed == alone /\ Serve /\ UNCHANGED turns

FairSpec == MCSpec /\ WF_<<vars, turns>>(AloneReads) /\ WF_<<vars, turns>>(AloneIsServed)
=============================================================================
