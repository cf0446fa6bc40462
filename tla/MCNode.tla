------------------------------- MODULE MCNode -------------------------------
(***************************************************************************)
(* Small instances of Node for TLC.                                        *)
(***************************************************************************)
EXTENDS Node, TLC

CONSTANTS device, phone, guest, on, off

ClientSymmetry == Permutations(Clients)

==============================================================================
