---------------------------- MODULE MCEscalation ----------------------------
(* Model values for Escalation; the bounds are set in the .cfg files. *)
EXTENDS Escalation

CONSTANTS x, y, d1, d2
=============================================================================
