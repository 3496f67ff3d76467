---------------------------- MODULE MCTtsPlayback ----------------------------
(* Instances of TtsPlayback for TLC; the bounds are in the cfg files.      *)
EXTENDS TtsPlayback
=============================================================================
