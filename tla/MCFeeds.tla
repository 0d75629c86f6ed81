------------------------------ MODULE MCFeeds ------------------------------
(* Model values for Feeds; the bounds are set in the .cfg file. *)
EXTENDS Feeds

CONSTANTS wolfx, p2pquake

\* One report of each severity, the quietest a drill, and a cancellation.
MCReports ==
  {[cancel |-> FALSE, scale |-> s, test |-> FALSE] : s \in {45, 55}}
    \cup {[cancel |-> FALSE, scale |-> 70, test |-> TRUE],
          [cancel |-> TRUE, scale |-> 0, test |-> FALSE]}
=============================================================================
