------------------------ MODULE MCRealtimeSimulator ------------------------
(* Values of the constants of RealtimeSimulator for TLC. *)
EXTENDS RealtimeSimulator

CONSTANT w1
=============================================================================
