---------------------------- MODULE MCFrameStream ----------------------------
(***************************************************************************)
(* Small instances of FrameStream for TLC.                                 *)
(***************************************************************************)
EXTENDS FrameStream

==============================================================================
