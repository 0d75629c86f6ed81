------------------------------- MODULE MCCap -------------------------------
(* Model values for Cap; the bounds are set in the .cfg file. *)
EXTENDS Cap

CONSTANTS h1, h2, none

\* An emergency, and an exercise of the same.
MCContents ==
  LET grave == [urgency |-> "Immediate", grade |-> "Extreme", certainty |-> "Observed"]
  IN  { [status |-> "Actual",   hasInfo |-> TRUE,  info |-> grave, expires |-> none],
        [status |-> "Exercise", hasInfo |-> TRUE,  info |-> grave, expires |-> none] }
=============================================================================
