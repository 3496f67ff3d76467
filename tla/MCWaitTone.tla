------------------------------ MODULE MCWaitTone ------------------------------
(* Instances of WaitTone for TLC; the values are in the cfg files.         *)
EXTENDS WaitTone
=============================================================================
