---------------------------- MODULE MCFaceLibrary ----------------------------
(* Instances of FaceLibrary for TLC; the values are in the cfg file.       *)
EXTENDS FaceLibrary
=============================================================================
