------------------------------- MODULE LinkMC -------------------------------
(***************************************************************************)
(* Link.tla with one graphical and one AI client.                          *)
(***************************************************************************)
EXTENDS Link
=============================================================================
