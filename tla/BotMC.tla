------------------------------- MODULE BotMC -------------------------------
(***************************************************************************)
(* A bot for TLC.  The commands the trees send are told apart by the       *)
(* answer they get: Set stands for those that may fail, Forward for those  *)
(* that may not; Look and Incantation have an answer of their own.         *)
(***************************************************************************)
EXTENDS Bot
=============================================================================
