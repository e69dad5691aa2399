------------------------------- MODULE GuiMC -------------------------------
(***************************************************************************)
(* A small game under the eyes of one graphical client.  The game is cut   *)
(* after MaxSteps steps of the server; the client connects, and handles    *)
(* what it is sent, whenever it likes.                                     *)
(***************************************************************************)
EXTENDS Gui

CONSTANT MaxSteps   \* a bound of the model: what the server does in a game

VARIABLE steps

MCPlayersNeeded == <<1>>
MCStonesNeeded == <<[r \in Resource |-> 1]>>
MCTarget == [r \in Resource |-> 1]

MCInit == GuiInit /\ steps = 0

MCNext ==
  \/ /\ Len(wire) < MaxWire /\ steps < MaxSteps
     /\ GameStep \/ GUICommand
     /\ steps' = steps + 1
  \/ (Connect \/ Deliver) /\ UNCHANGED steps

MCSpec == MCInit /\ [][MCNext]_<<guiVars, steps>>

Symmetry == Permutations(Players)
=============================================================================
