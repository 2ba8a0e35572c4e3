---------------------------- MODULE MCFixSession ----------------------------
(* Instance of FixSession for TLC.                                         *)
EXTENDS FixSession
=============================================================================
