---------------------------- MODULE MCEsp32Switch ----------------------------
(***************************************************************************)
(* Small instances of Esp32Switch for TLC.                                 *)
(***************************************************************************)
EXTENDS Esp32Switch, TLC

CONSTANTS home, cafe

==============================================================================
