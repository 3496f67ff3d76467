---------------------------- MODULE MCAudioUplink ----------------------------
(* Instances of AudioUplink for TLC; the values are in the cfg files.      *)
EXTENDS AudioUplink
=============================================================================
