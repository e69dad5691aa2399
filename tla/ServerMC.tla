------------------------------ MODULE ServerMC ------------------------------
(***************************************************************************)
(* Small servers for TLC.  A ritual lasts longer than any other command,   *)
(* so that commands begun before it complete while it is under way, and a  *)
(* newcomer can arrive in time; connect_nbr and unknown commands take no   *)
(* time.                                                                   *)
(***************************************************************************)
EXTENDS Server, TLC

MCPlayersNeeded == [l \in 1 .. MaxLevel - 1 |-> l]
MCTwoNeeded == [l \in 1 .. MaxLevel - 1 |-> 2]
MCNoStones == [l \in 1 .. MaxLevel - 1 |-> [r \in Resource |-> 0]]
MCStonesNeeded == [l \in 1 .. MaxLevel - 1 |-> [r \in Resource |-> 1]]
MCTarget == [r \in Resource |-> 1]
MCNoTarget == [r \in Resource |-> 0]
MCDuration ==
  [v \in Verb |-> CASE v = "incantation" -> 2
                    [] v \in {"connect_nbr", "unknown"} -> 0
                    [] OTHER -> 1]

Symmetry == Permutations(Players)
=============================================================================
