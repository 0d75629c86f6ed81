------------------------------ MODULE MCOutbox ------------------------------
(* Model values for Outbox; the bounds are set in the .cfg files. *)
EXTENDS Outbox

CONSTANTS j1, j2, w1, w2
=============================================================================
