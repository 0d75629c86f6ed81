---------------------------- MODULE MCAlertPlane ----------------------------
(* Model values for AlertPlane; the bounds are set in the .cfg files. *)
EXTENDS AlertPlane

CONSTANTS x, y, h1, h2
=============================================================================
