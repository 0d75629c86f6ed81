------------------------------ MODULE MCClient ------------------------------
(* Model values for TLC; every bound is set in the .cfg files. *)
EXTENDS Client, TLC

CONSTANTS x, y

\* A warning, and critical alerts whose window is as long as max_skew or longer.
WarningOrCritical == {<<1, 3>>, <<2, 1>>, <<2, 3>>}

\* Critical and emergency alerts.
CriticalOrEmergency == {<<2, 2>>, <<3, 2>>}

Symmetry == Permutations({x, y})
=============================================================================
