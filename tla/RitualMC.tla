------------------------------ MODULE RitualMC ------------------------------
(***************************************************************************)
(* The server, with a record of what each ritual was checked for when it   *)
(* started: `verified` is a history variable that holds, for each client,  *)
(* the level its latest incantation command was found possible at.         *)
(***************************************************************************)
EXTENDS ServerMC

VARIABLE verified

RitualInit == ServerInit /\ verified = [c \in Players |-> 0]

(* What a ritual that starts in this step was checked for. *)
Record ==
  verified' = [c \in Players |->
                 IF ~begun[c] /\ begun'[c] /\ Head(queue[c]) = "incantation"
                   THEN lvl[c] ELSE verified[c]]

RitualNext == ServerNext /\ Record

RitualSpec == RitualInit /\ [][RitualNext]_<<serverVars, verified>>

(* c's incantation ends in this step. *)
RitualEnds(c) ==
  begun[c] /\ ~begun'[c] /\ Head(queue[c]) = "incantation"

(***************************************************************************)
(* The ritual is "verified at the start and at the end of the incantation" *)
(* (README.md:47): a ritual that raises its player raises it from the      *)
(* level it was verified for when it started (finishElevation).            *)
(***************************************************************************)
RitualVerifiedAtStart ==
  [][\A c \in Players :
       RitualEnds(c) /\ lvl'[c] > lvl[c] => lvl[c] = verified[c]]_<<serverVars, verified>>
=============================================================================
