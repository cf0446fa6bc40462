------------------------- MODULE MCSwitchController -------------------------
(***************************************************************************)
(* Small instances of SwitchController for TLC.                            *)
(***************************************************************************)
EXTENDS SwitchController, TLC

CONSTANTS c1, c2, lamp, home, cafe

Symmetry == Permutations(Processes) \cup Permutations(Networks)

==============================================================================
