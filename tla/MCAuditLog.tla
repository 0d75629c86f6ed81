----------------------------- MODULE MCAuditLog -----------------------------
(* Model values for AuditLog; the bounds are set in the .cfg files. *)
EXTENDS AuditLog

CONSTANTS w1, w2
=============================================================================
