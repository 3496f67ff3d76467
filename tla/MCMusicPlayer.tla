---------------------------- MODULE MCMusicPlayer ----------------------------
(* Instances of MusicPlayer for TLC; the values are in the cfg files.      *)
EXTENDS MusicPlayer
=============================================================================
