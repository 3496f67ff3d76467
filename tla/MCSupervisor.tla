----------------------------- MODULE MCSupervisor -----------------------------
(* Instances of Supervisor for TLC; the values are in the cfg file.        *)
EXTENDS Supervisor
=============================================================================
