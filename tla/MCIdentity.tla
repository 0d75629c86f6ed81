----------------------------- MODULE MCIdentity -----------------------------
(* Model values for Identity; the bounds are set in the .cfg file. *)
EXTENDS Identity

CONSTANTS h1, h2, admin, alice
=============================================================================
