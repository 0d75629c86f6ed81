----------------------------- MODULE CapMapping -----------------------------
(***************************************************************************)
(* The two directions of CAP 1.2 (server/internal/cap/cap.go): a document  *)
(* is collapsed to one severity on the way in, and a severity is expanded  *)
(* to urgency, severity and certainty on the way out.  Text is left out.   *)
(***************************************************************************)
EXTENDS Integers

CONSTANT
  NoTime   \* a missing or unreadable time

ASSUME CapMappingAssumption == NoTime \notin Int

Notice    == 0
Warning   == 1
Critical  == 2
Emergency == 3
Severity  == Notice..Emergency

\* The values CAP 1.2 allows, "" for a missing element.
Urgency   == {"Immediate", "Expected", "Future", "Past", "Unknown", ""}
Grade     == {"Extreme", "Severe", "Moderate", "Minor", "Unknown", ""}
Certainty == {"Observed", "Likely", "Possible", "Unlikely", "Unknown", ""}
Status    == {"Actual", "Exercise", "System", "Test", "Draft", ""}
Info      == [urgency : Urgency, grade : Grade, certainty : Certainty]

\* What the mapping reads of a document; hasInfo tells whether it has an info block.
Content == [status : Status, hasInfo : BOOLEAN, info : Info, expires : Int \cup {NoTime}]

\* collapseSeverity
CollapseSeverity(i) ==
  LET grave == i.grade \in {"Extreme", "Severe"}
  IN  CASE i.certainty = "Unlikely" -> Notice
        [] i.certainty \in {"Observed", "Likely"} /\ i.urgency = "Immediate" /\ grave -> Emergency
        [] /\ i.certainty \notin {"Unlikely", "Observed", "Likely"}
           /\ i.urgency = "Immediate" /\ grave -> Critical
        [] i.certainty # "Unlikely" /\ i.urgency = "Immediate" /\ i.grade = "Moderate" -> Critical
        [] i.certainty # "Unlikely" /\ i.urgency \in {"Expected", "Future", ""} -> Notice
        [] OTHER -> Warning

\* Document.MapToAlert: whatever is not "Actual" is a test, and a test is at most
\* a warning.
IsTest(c) == c.status \notin {"", "Actual"}

SeverityOf(c) ==
  LET s == IF c.hasInfo THEN CollapseSeverity(c.info) ELSE Notice
  IN  IF IsTest(c) /\ s > Warning THEN Warning ELSE s

\* ttlFrom: the time left, or a default if there is none.
TTLFrom(expires, now, sev) ==
  IF expires # NoTime /\ expires - now > 0 THEN expires - now
  ELSE IF sev >= Critical THEN 120 ELSE 600

TTLOf(c, now) == IF c.hasInfo THEN TTLFrom(c.expires, now, SeverityOf(c)) ELSE 0

\* expandSeverity
ExpandSeverity(sev) ==
  CASE sev = Emergency -> [urgency |-> "Immediate", grade |-> "Extreme",  certainty |-> "Observed"]
    [] sev = Critical  -> [urgency |-> "Immediate", grade |-> "Severe",   certainty |-> "Possible"]
    [] sev = Warning   -> [urgency |-> "Unknown",   grade |-> "Moderate", certainty |-> "Likely"]
    [] OTHER           -> [urgency |-> "Future",    grade |-> "Minor",    certainty |-> "Possible"]

\* ToXML and statusFor: the document about an alert.  Only what a drill of this
\* server published is marked as an exercise.
ToXML(a) ==
  [ status  |-> IF a.source = "drill" THEN "Exercise" ELSE "Actual",
    hasInfo |-> TRUE,
    info    |-> ExpandSeverity(a.severity),
    expires |-> a.issued_at + a.ttl ]
=============================================================================
