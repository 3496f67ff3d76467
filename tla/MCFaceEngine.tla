----------------------------- MODULE MCFaceEngine -----------------------------
(* Instances of FaceEngine for TLC; the values are in the cfg files.       *)
EXTENDS FaceEngine
=============================================================================
