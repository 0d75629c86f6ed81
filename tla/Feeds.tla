------------------------------- MODULE Feeds -------------------------------
(***************************************************************************)
(* Earthquake early warnings (server/internal/eew, and the callback in     *)
(* server/main.go): several relays carry one series of reports, share one  *)
(* Deduper, and publish what it lets through.  The deduper decides under   *)
(* its lock; the publish comes after the unlock.                           *)
(*                                                                         *)
(* Event ids do not interact, so the module follows one earthquake.  Its   *)
(* alert is taken to stay in force while the series lasts.                 *)
(***************************************************************************)
EXTENDS Integers, Sequences, FiniteSets, SequencesExt

CONSTANTS
  Relays,        \* the sources of ALERTHUB_EEW
  Steady,        \* those that never lose their connection
  Reports,       \* what the agency may report
  MaxReports,    \* bound on the length of the series
  MaxFailures    \* bound on broadcasts the broker refuses

ASSUME FeedsAssumption ==
  /\ IsFiniteSet(Relays)
  /\ Steady \subseteq Relays
  /\ Reports \subseteq [cancel : BOOLEAN, scale : Int, test : BOOLEAN]
  /\ {MaxReports, MaxFailures} \subseteq Nat

VARIABLES
  series,      \* the agency's reports, in order
  read,        \* per relay, how many of them it has passed
  up,          \* relays whose connection is open
  seen,        \* Deduper.seen of the event, Unseen if it is not known
  waiting,     \* decided upon and not yet published, in the order of the decisions
  wire,        \* severity of the last broadcast about the event, 0 for a recall
  live,        \* severity of the alert in force, 0 for none
  said,        \* per severity, how often it was broadcast since the last recall was
  late,        \* how many of these were decided upon before that recall
  recalled,    \* the recall broadcast, by its number; the latest if several were
  forgotten,   \* how often the deduper dropped the event: the recalls decided upon
  missed,      \* relays that passed a report by
  crossed,     \* something was published before what was decided earlier
  failures     \* broadcasts refused so far

relayVars == <<read, up, missed>>
planeVars == <<wire, live, said, late, recalled, failures, crossed>>
feedsVars == <<series, relayVars, seen, waiting, planeVars, forgotten>>

-----------------------------------------------------------------------------
(* Severity *)

Warning   == 1
Critical  == 2
Emergency == 3
Severity  == {Warning, Critical, Emergency}

\* scaleToIntensity: P2PQuake's scale as the agency's intensity.
IntensityOf(scale) ==
  CASE scale >= 70 -> "7"
    [] scale >= 60 /\ scale < 70 -> "6+"
    [] scale >= 55 /\ scale < 60 -> "6-"
    [] scale >= 50 /\ scale < 55 -> "5+"
    [] scale >= 45 /\ scale < 50 -> "5-"
    [] scale >= 40 /\ scale < 45 -> "4"
    [] scale >= 30 /\ scale < 40 -> "3"
    [] scale >= 20 /\ scale < 30 -> "2"
    [] scale >= 10 /\ scale < 20 -> "1"
    [] OTHER -> ""

\* severityForIntensity
SeverityForIntensity(i) ==
  CASE i \in {"6-", "6+", "7"} -> Emergency
    [] i \in {"5-", "5+", "4"} -> Critical
    [] OTHER -> Warning

\* MapWolfx, MapP2PQuake: a drill never fires a real alarm.
RankOf(rep) ==
  LET r == SeverityForIntensity(IntensityOf(rep.scale))
  IN  IF rep.test /\ r > Warning THEN Warning ELSE r

-----------------------------------------------------------------------------

Unseen == -1

\* What a relay is about to hand to the callback, rank 0 for a recall.  `era`
\* numbers the recalls: how many were decided upon, this one included (history).
Event == [by : Relays, rank : 0..3, era : Nat]

\* The relay is inside emit(ev), and reads nothing.
Busy(f) == \E i \in DOMAIN waiting : waiting[i].by = f

\* The agency reports, cancels what it reported, and may report again after that.
Report ==
  /\ Len(series) < MaxReports
  /\ \E rep \in Reports :
       /\ rep.cancel => series # << >> /\ ~Last(series).cancel
       /\ series' = Append(series, rep)
  /\ UNCHANGED <<relayVars, seen, waiting, planeVars, forgotten>>

\* runFeed: the connection breaks, what comes while it is down is missed, and
\* the dial that succeeds ends the backoff.
Break(f) ==
  /\ f \in up \ Steady
  /\ ~Busy(f)
  /\ up' = up \ {f}
  /\ UNCHANGED <<series, read, missed, seen, waiting, planeVars, forgotten>>

Miss(f) ==
  /\ f \notin up
  /\ read[f] < Len(series)
  /\ read' = [read EXCEPT ![f] = @ + 1]
  /\ missed' = missed \cup {f}
  /\ UNCHANGED <<series, up, seen, waiting, planeVars, forgotten>>

Dial(f) ==
  /\ f \notin up
  /\ up' = up \cup {f}
  /\ UNCHANGED <<series, read, missed, seen, waiting, planeVars, forgotten>>

\* Fault variant: an upgrade is let through without being remembered.
EmitForgetful(r) ==
  [seen |-> IF seen = Unseen THEN r ELSE seen, out |-> seen = Unseen \/ r > seen, rank |-> r]

\* Fault variant: a known event is known, however loud it has become.
EmitOnce(r) ==
  [seen |-> IF seen = Unseen THEN r ELSE seen, out |-> seen = Unseen, rank |-> r]

\* Fault variant: any other severity is news.
EmitChanges(r) == [seen |-> r, out |-> r # seen, rank |-> r]

\* Deduper.Emit: the first report and every upward revision goes out.
Emit(r) ==
  IF seen = Unseen \/ r > seen
    THEN [seen |-> r, out |-> TRUE, rank |-> r]
    ELSE [seen |-> seen, out |-> FALSE, rank |-> r]

\* Fault variant: what is already forgotten is not recalled again.
VerdictOnce(rep) ==
  IF rep.cancel THEN [seen |-> Unseen, out |-> seen # Unseen, rank |-> 0]
  ELSE Emit(RankOf(rep))

\* What runFeed does with a report: a cancellation is always passed on, and
\* Deduper.Forget runs before the recall goes out.
Verdict(rep) ==
  IF rep.cancel THEN [seen |-> Unseen, out |-> TRUE, rank |-> 0]
  ELSE Emit(RankOf(rep))

\* A report is read and decided upon.
Read(f) ==
  /\ f \in up
  /\ ~Busy(f)
  /\ read[f] < Len(series)
  /\ read' = [read EXCEPT ![f] = @ + 1]
  /\ LET rep == series[read[f] + 1]
         v   == Verdict(rep)
     IN  /\ seen' = v.seen
         /\ forgotten' = forgotten + (IF rep.cancel THEN 1 ELSE 0)
         /\ waiting' = IF v.out
                         THEN Append(waiting, [by |-> f, rank |-> v.rank, era |-> forgotten'])
                         ELSE waiting
  /\ UNCHANGED <<series, up, missed, planeVars>>

\* What a broadcast leaves in force: a recall nothing, a lower severity does not
\* replace a higher one.
InForce(rank) == IF rank = 0 THEN 0 ELSE IF rank > live THEN rank ELSE live

None == [r \in Severity |-> 0]

Counted(ev) ==
  IF ev.rank = 0
    THEN /\ said' = None /\ late' = None
         /\ recalled' = IF ev.era > recalled THEN ev.era ELSE recalled
    ELSE /\ said' = [said EXCEPT ![ev.rank] = @ + 1]
         /\ late' = IF ev.era < recalled THEN [late EXCEPT ![ev.rank] = @ + 1] ELSE late
         /\ UNCHANGED recalled

\* The callback: PublishAlert, RenewAlert or CancelByID, all under one alert id.
\* A broadcast that is refused is logged, and not tried again.
Publish(i) ==
  /\ waiting' = RemoveAt(waiting, i)
  /\ crossed' = (crossed \/ i # 1)
  /\ \/ /\ wire' = waiting[i].rank
        /\ live' = InForce(waiting[i].rank)
        /\ Counted(waiting[i])
        /\ UNCHANGED failures
     \/ /\ failures < MaxFailures
        /\ failures' = failures + 1
        /\ UNCHANGED <<wire, live, said, late, recalled>>
  /\ UNCHANGED <<series, relayVars, seen, forgotten>>

FeedsInit ==
  /\ series = << >>
  /\ read = [f \in Relays |-> 0]
  /\ up = Steady
  /\ missed = {}
  /\ seen = Unseen
  /\ waiting = << >>
  /\ wire = 0 /\ live = 0
  /\ said = None /\ late = None
  /\ recalled = 0
  /\ forgotten = 0
  /\ failures = 0
  /\ crossed = FALSE

FeedsNext ==
  \/ Report
  \/ \E f \in Relays : Break(f) \/ Miss(f) \/ Dial(f) \/ Read(f)
  \/ \E i \in DOMAIN waiting : Publish(i)

FeedsSpec == FeedsInit /\ [][FeedsNext]_feedsVars

\* A connected relay hands over what it has, and a callback returns.  Nothing
\* makes a dial succeed.
FeedsFairSpec ==
  /\ FeedsSpec
  /\ \A f \in Relays :
       /\ WF_feedsVars(Read(f))
       /\ WF_feedsVars(\E i \in DOMAIN waiting : waiting[i].by = f /\ Publish(i))

-----------------------------------------------------------------------------
(* Properties *)

FeedsTypeOK ==
  /\ series \in Seq(Reports) /\ Len(series) <= MaxReports
  /\ read \in [Relays -> 0..MaxReports]
  /\ \A f \in Relays : read[f] <= Len(series)
  /\ Steady \subseteq up /\ up \subseteq Relays /\ missed \subseteq Relays \ Steady
  /\ seen \in Severity \cup {Unseen}
  /\ waiting \in Seq(Event)
  /\ \A i, j \in DOMAIN waiting : waiting[i].by = waiting[j].by => i = j
  /\ wire \in 0..3 /\ live \in 0..3
  /\ said \in [Severity -> Nat] /\ late \in [Severity -> Nat]
  /\ forgotten \in Nat /\ recalled \in Nat
  /\ failures \in 0..MaxFailures
  /\ crossed \in BOOLEAN

\* Two relays are redundancy and not two alarms: after a recall went out, a
\* severity goes out once, whichever relays report it in whatever order.  It goes
\* out again before the next recall does only for a cause, and once for each: a
\* recall that was decided upon and is not out yet (or was refused), or a
\* broadcast that the last recall overtook on its way.
Unheard == forgotten - recalled

OneAlarmEach ==
  \A r \in Severity : said[r] <= 1 + late[r] + Unheard

\* What eew/wolfx.go says of it (a quake that both relays report "still produces
\* a single alert").  It is refuted by TLC: one relay reads the cancellation, and
\* before its recall is out the other, lagging, announces the quake again.
NeverTwice == \A r \in Severity : said[r] <= 1

\* A downward revision is no news: a broadcast is quieter than the one before
\* only once a relay was overtaken between its decision and its publish, or a
\* recall was refused.
QuieterOnlyOvertaken ==
  [][ wire' # 0 /\ wire' < wire => crossed' \/ failures > 0 ]_feedsVars

\* Once every relay has passed a series that ends in a cancellation on, nothing
\* is left in force, although each of them may have re-announced what another
\* had already recalled.
Quiet == waiting = << >> /\ \A f \in Relays : read[f] = Len(series)

RecallSettles ==
  Quiet /\ series # << >> /\ Last(series).cancel /\ missed = {} /\ failures = 0
    => live = 0

\* A steady relay is enough for a first warning: what was reported is in force at
\* least as loud in the end, whatever the other relays miss, repeat or deliver
\* late, unless a broadcast was refused or the agency cancels.
Reached(k) ==
  \/ live >= RankOf(series[k])
  \/ \E j \in DOMAIN series : series[j].cancel
  \/ failures > 0

EveryReportReaches ==
  \A k \in 1..MaxReports :
    (Len(series) >= k /\ ~series[k].cancel) ~> (Len(series) >= k /\ Reached(k))

\* Documented: "either relay can be down or slow and the other still delivers".
\* When nothing is left to do, the last report of the series is in force.
SlowRelayHarmless ==
  Quiet /\ failures = 0 /\ series # << >> /\ ~Last(series).cancel
    => live >= RankOf(Last(series))
=============================================================================
