---------------------------- MODULE MCVisionUpload ----------------------------
(* Instances of VisionUpload for TLC; the values are in the cfg files.     *)
EXTENDS VisionUpload
=============================================================================
