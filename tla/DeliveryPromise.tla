--------------------------- MODULE DeliveryPromise --------------------------
(***************************************************************************)
(* What the durable delivery pipeline promises about one job, an alert for *)
(* one target on one channel: once accepted it is kept until it is settled,*)
(* it is settled once and for all, it is reported sent only if the target  *)
(* has been given the alert, and it does not stay open for ever.  How the  *)
(* outbox gets there - attempts, leases, retries, crashes - is left out.   *)
(***************************************************************************)
CONSTANT Jobs

VARIABLES
  status,    \* per job: "absent", "pending", "sent" or "dead"
  reached    \* jobs whose target has been given the alert at least once

vars == <<status, reached>>

Init ==
  /\ status = [j \in Jobs |-> "absent"]
  /\ reached = {}

Accept(j) ==
  /\ status[j] = "absent"
  /\ status' = [status EXCEPT ![j] = "pending"]
  /\ UNCHANGED reached

\* An attempt gets through.  The pipeline may not learn that it did.
Arrive(j) ==
  /\ status[j] = "pending"
  /\ reached' = reached \cup {j}
  /\ UNCHANGED status

Confirm(j) ==
  /\ status[j] = "pending"
  /\ j \in reached
  /\ status' = [status EXCEPT ![j] = "sent"]
  /\ UNCHANGED reached

GiveUp(j) ==
  /\ status[j] = "pending"
  /\ status' = [status EXCEPT ![j] = "dead"]
  /\ UNCHANGED reached

Settle(j) == Confirm(j) \/ GiveUp(j)

Next == \E j \in Jobs : Accept(j) \/ Arrive(j) \/ Settle(j)

Spec == Init /\ [][Next]_vars

\* A job does not stay open.
Settles == \A j \in Jobs : status[j] = "pending" ~> status[j] # "pending"
=============================================================================
