---------------------------- MODULE MCHeartbeat ----------------------------
(* The bounds of Heartbeat are set in the .cfg files. *)
EXTENDS Heartbeat
=============================================================================
