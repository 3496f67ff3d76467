------------------------------- MODULE MCUpdate -------------------------------
(* The instance of Update for TLC.                                         *)
EXTENDS Update
=============================================================================
