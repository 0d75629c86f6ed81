----------------------------- MODULE EdgeProofs -----------------------------
(***************************************************************************)
(* Proofs about the two edges of the system: Feeds, where alarms come in,  *)
(* for any relays, reports, length of the series and number of refused     *)
(* broadcasts; and Client, where they are shown, for any messages, losses, *)
(* duplicates, delays and skews.                                           *)
(***************************************************************************)
EXTENDS Feeds, Client, SequenceTheorems, FiniteSetTheorems, TLAPS

-----------------------------------------------------------------------------
(* Feeds *)

\* Relays about to broadcast a severity, decided upon after so many recalls.
Bearers(r, e) ==
  {f \in Relays : \E i \in DOMAIN waiting :
     waiting[i].by = f /\ waiting[i].rank = r /\ waiting[i].era >= e}

\* The deduper's last word counts as one more decision if it is as loud as r.
Bit(r) == IF seen >= r THEN 1 ELSE 0

\* What is about to be said of a severity is paid for, wherever one starts to
\* count: by a recall each, and one more by what the deduper remembers now.  The
\* same holds of what was said since the last recall and was not overtaken by it.
PaidFor ==
  /\ recalled <= forgotten
  /\ \A i \in DOMAIN waiting : waiting[i].era <= forgotten
  /\ \A r \in Severity, e \in 0..forgotten :
       Cardinality(Bearers(r, e)) <= forgotten - e + Bit(r)
  /\ \A r \in Severity :
       said[r] - late[r] + Cardinality(Bearers(r, recalled)) <= forgotten - recalled + Bit(r)

\* A relay keeps its connection while it publishes, and publishes no report that
\* it knows to be cancelled.
BearersOK ==
  \A i \in DOMAIN waiting :
    LET f == waiting[i].by
    IN  /\ f \in up
        /\ waiting[i].rank # 0 => read[f] # 0 /\ ~series[read[f]].cancel

\* The recall of a series that all have read is in force, or on its way.
RecallUnderWay ==
  /\ Relays = {} => live = 0
  /\ (\A f \in Relays : read[f] = Len(series)) /\ series # << >> /\ Last(series).cancel
       /\ missed = {} /\ failures = 0
     => live = 0 \/ waiting # << >>

\* What the deduper remembers of the event, 0 for nothing, and the last word that
\* is out or on its way.
Remembered == IF seen = Unseen THEN 0 ELSE seen
LastWord   == IF waiting = << >> THEN wire ELSE waiting[Len(waiting)].rank

\* Nobody overtakes and nothing is refused: severities climb between recalls.
Climbing ==
  ~crossed /\ failures = 0 =>
    /\ LastWord = Remembered
    /\ waiting # << >> => waiting[1].rank = 0 \/ waiting[1].rank > wire
    /\ \A i \in 1..(Len(waiting) - 1) :
         waiting[i + 1].rank = 0 \/ waiting[i + 1].rank > waiting[i].rank

FeedsInv == FeedsTypeOK /\ PaidFor /\ BearersOK /\ RecallUnderWay /\ Climbing

-----------------------------------------------------------------------------
(* Operators *)

LEMMA RankType ==
  ASSUME NEW rep PROVE RankOf(rep) \in Severity
BY DEF RankOf, SeverityForIntensity, Severity, Warning, Critical, Emergency

\* What a decision comes to.
LEMMA VerdictType ==
  ASSUME NEW rep, rep.cancel \in BOOLEAN, seen \in Severity \cup {Unseen}
  PROVE  /\ Verdict(rep).seen \in Severity \cup {Unseen}
         /\ Verdict(rep).out \in BOOLEAN
         /\ Verdict(rep).rank \in 0..3
         /\ rep.cancel => Verdict(rep) = [seen |-> Unseen, out |-> TRUE, rank |-> 0]
         /\ ~rep.cancel =>
              /\ Verdict(rep).rank \in Severity
              /\ Verdict(rep).out => Verdict(rep).rank > seen /\ Verdict(rep).seen = Verdict(rep).rank
              /\ ~Verdict(rep).out => Verdict(rep).seen = seen
<1> DEFINE r == RankOf(rep)
<1>1. r \in Severity
  BY RankType
<1> HIDE DEF r
<1>2. CASE rep.cancel
  BY <1>2 DEF Verdict
<1>3. CASE ~rep.cancel
  <2>1. Verdict(rep) = Emit(r)
    BY <1>3 DEF Verdict, r
  <2>2. CASE seen = Unseen \/ r > seen
    <3>1. Emit(r) = [seen |-> r, out |-> TRUE, rank |-> r]
      BY <2>2 DEF Emit
    <3> QED
      BY <1>1, <1>3, <2>1, <2>2, <3>1 DEF Severity, Warning, Critical, Emergency, Unseen
  <2>3. CASE ~(seen = Unseen \/ r > seen)
    <3>1. Emit(r) = [seen |-> seen, out |-> FALSE, rank |-> r]
      BY <2>3 DEF Emit
    <3> QED
      BY <1>1, <1>3, <2>1, <2>3, <3>1 DEF Severity, Warning, Critical, Emergency, Unseen
  <2> QED
    BY <2>2, <2>3
<1> QED
  BY <1>2, <1>3

LEMMA RemoveAtFacts ==
  ASSUME NEW S, NEW s \in Seq(S), NEW i \in 1..Len(s)
  PROVE  /\ RemoveAt(s, i) \in Seq(S)
         /\ Len(RemoveAt(s, i)) = Len(s) - 1
         /\ \A j \in 1..(Len(s) - 1) : RemoveAt(s, i)[j] = IF j < i THEN s[j] ELSE s[j + 1]
<1> DEFINE a == SubSeq(s, 1, i - 1)
           b == SubSeq(s, i + 1, Len(s))
<1>1. /\ a \in Seq(S) /\ Len(a) = i - 1
      /\ \A j \in 1..(i - 1) : a[j] = s[j]
  OBVIOUS
<1>2. /\ b \in Seq(S) /\ Len(b) = Len(s) - i
      /\ \A j \in 1..(Len(s) - i) : b[j] = s[j + i]
  OBVIOUS
<1> HIDE DEF a, b
<1>3. RemoveAt(s, i) = a \o b
  BY DEF RemoveAt, a, b
<1>4. /\ a \o b \in Seq(S)
      /\ Len(a \o b) = Len(a) + Len(b)
      /\ \A j \in 1..(Len(a) + Len(b)) :
           (a \o b)[j] = IF j <= Len(a) THEN a[j] ELSE b[j - Len(a)]
  BY <1>1, <1>2, ConcatProperties
<1>5. ASSUME NEW j \in 1..(Len(s) - 1)
      PROVE  (a \o b)[j] = IF j < i THEN s[j] ELSE s[j + 1]
  <2>0. j \in Int /\ i \in Int
    OBVIOUS
  <2>1. CASE j < i
    BY <1>1, <1>2, <1>4, <2>1
  <2>2. CASE j >= i
    <3>1. (a \o b)[j] = b[j - (i - 1)]
      BY <1>1, <1>2, <1>4, <2>2
    <3>2. j - (i - 1) \in 1..(Len(s) - i) /\ j - (i - 1) + i = j + 1
      BY <2>2
    <3>3. b[j - (i - 1)] = s[j - (i - 1) + i]
      BY <1>2, <3>2
    <3>4. ~(j < i)
      BY <2>0, <2>2
    <3> QED
      BY <3>1, <3>2, <3>3, <3>4
  <2>3. j < i \/ j >= i
    BY <2>0
  <2> QED
    BY <2>1, <2>2, <2>3
<1> QED
  BY <1>1, <1>2, <1>3, <1>4, <1>5

\* Without one entry, what is left are the other entries.
LEMMA OthersStay ==
  ASSUME NEW S, NEW s \in Seq(S), NEW i \in DOMAIN s
  PROVE  /\ \A j \in DOMAIN RemoveAt(s, i) :
              \E k \in DOMAIN s \ {i} : RemoveAt(s, i)[j] = s[k]
         /\ \A k \in DOMAIN s \ {i} :
              \E j \in DOMAIN RemoveAt(s, i) : RemoveAt(s, i)[j] = s[k]
<1>0. Len(s) \in Nat /\ i \in 1..Len(s) /\ DOMAIN s = 1..Len(s)
  OBVIOUS
<1>1. /\ DOMAIN RemoveAt(s, i) = 1..(Len(s) - 1)
      /\ \A j \in 1..(Len(s) - 1) : RemoveAt(s, i)[j] = IF j < i THEN s[j] ELSE s[j + 1]
  BY <1>0, RemoveAtFacts
<1>2. ASSUME NEW j \in DOMAIN RemoveAt(s, i)
      PROVE  \E k \in DOMAIN s \ {i} : RemoveAt(s, i)[j] = s[k]
  <2>1. CASE j < i
    <3>1. j \in DOMAIN s \ {i} /\ RemoveAt(s, i)[j] = s[j]
      BY <1>0, <1>1, <2>1
    <3> QED
      BY <3>1
  <2>2. CASE j >= i
    <3>1. j + 1 \in DOMAIN s \ {i} /\ RemoveAt(s, i)[j] = s[j + 1]
      BY <1>0, <1>1, <2>2
    <3> QED
      BY <3>1
  <2> QED
    BY <1>0, <1>1, <2>1, <2>2
<1>3. ASSUME NEW k \in DOMAIN s \ {i}
      PROVE  \E j \in DOMAIN RemoveAt(s, i) : RemoveAt(s, i)[j] = s[k]
  <2>1. CASE k < i
    <3>1. k \in DOMAIN RemoveAt(s, i) /\ RemoveAt(s, i)[k] = s[k]
      BY <1>0, <1>1, <2>1
    <3> QED
      BY <3>1
  <2>2. CASE k > i
    <3>1. k - 1 \in DOMAIN RemoveAt(s, i) /\ RemoveAt(s, i)[k - 1] = s[k]
      BY <1>0, <1>1, <2>2
    <3> QED
      BY <3>1
  <2> QED
    BY <1>0, <1>1, <2>1, <2>2
<1> QED
  BY <1>2, <1>3

-----------------------------------------------------------------------------
(* Types *)

LEMMA BoundsAreNat ==
  /\ MaxReports \in Nat /\ MaxFailures \in Nat
  /\ IsFiniteSet(Relays) /\ Steady \subseteq Relays
  /\ \A rep \in Reports : rep.cancel \in BOOLEAN
BY FeedsAssumption

LEMMA TypeInit == FeedsInit => FeedsTypeOK
<1> SUFFICES ASSUME FeedsInit PROVE FeedsTypeOK
  OBVIOUS
<1>1. series \in Seq(Reports) /\ Len(series) = 0 /\ waiting \in Seq(Event) /\ DOMAIN waiting = {}
  BY DEF FeedsInit
<1>2. /\ read \in [Relays -> 0..MaxReports]
      /\ \A f \in Relays : read[f] = 0
      /\ said \in [Severity -> Nat] /\ late \in [Severity -> Nat]
      /\ failures \in 0..MaxFailures
  BY BoundsAreNat DEF FeedsInit, None
<1>3. crossed \in BOOLEAN
  BY DEF FeedsInit
<1>4. /\ Steady \subseteq up /\ up \subseteq Relays /\ missed \subseteq Relays \ Steady
      /\ seen \in Severity \cup {Unseen} /\ forgotten \in Nat /\ recalled \in Nat
      /\ wire \in 0..3 /\ live \in 0..3
  BY BoundsAreNat DEF FeedsInit
<1> QED
  BY <1>1, <1>2, <1>3, <1>4, BoundsAreNat DEF FeedsTypeOK

\* What a relay does when it reads a report.
LEMMA ReadEffect ==
  ASSUME FeedsTypeOK, NEW f \in Relays, Read(f)
  PROVE  \E rep \in Reports, v \in [seen : Severity \cup {Unseen}, out : BOOLEAN, rank : 0..3] :
           /\ rep = series[read[f] + 1] /\ read[f] + 1 \in 1..Len(series)
           /\ rep.cancel \in BOOLEAN
           /\ read' = [read EXCEPT ![f] = read[f] + 1]
           /\ seen' = v.seen
           /\ waiting' = IF v.out THEN Append(waiting, [by |-> f, rank |-> v.rank, era |-> forgotten']) ELSE waiting
           /\ forgotten' = forgotten + (IF rep.cancel THEN 1 ELSE 0) /\ forgotten' \in Nat
           /\ rep.cancel => v.seen = Unseen /\ v.out /\ v.rank = 0
           /\ ~rep.cancel =>
                /\ v.rank \in Severity
                /\ v.out => v.rank > seen /\ v.seen = v.rank
                /\ ~v.out => v.seen = seen
           /\ UNCHANGED <<series, up, missed, planeVars>>
<1> DEFINE rep == series[read[f] + 1]
           v == Verdict(rep)
<1>1. read[f] + 1 \in 1..Len(series) /\ rep \in Reports
  BY BoundsAreNat DEF FeedsTypeOK, Read
<1>2. rep.cancel \in BOOLEAN
  BY <1>1, BoundsAreNat
<1>3. v = [seen |-> v.seen, out |-> v.out, rank |-> v.rank]
  BY DEF Verdict, Emit
<1>4. /\ v \in [seen : Severity \cup {Unseen}, out : BOOLEAN, rank : 0..3]
      /\ rep.cancel => v.seen = Unseen /\ v.out /\ v.rank = 0
      /\ ~rep.cancel =>
                /\ v.rank \in Severity
                /\ v.out => v.rank > seen /\ v.seen = v.rank
                /\ ~v.out => v.seen = seen
  <2>1. seen \in Severity \cup {Unseen}
    BY DEF FeedsTypeOK
  <2> HIDE DEF rep
  <2>2. /\ v.seen \in Severity \cup {Unseen} /\ v.out \in BOOLEAN /\ v.rank \in 0..3
        /\ rep.cancel => v = [seen |-> Unseen, out |-> TRUE, rank |-> 0]
        /\ ~rep.cancel =>
                /\ v.rank \in Severity
                /\ v.out => v.rank > seen /\ v.seen = v.rank
                /\ ~v.out => v.seen = seen
    BY <1>2, <2>1, VerdictType
  <2> HIDE DEF v
  <2>3. v \in [seen : Severity \cup {Unseen}, out : BOOLEAN, rank : 0..3]
    BY <1>3, <2>2
  <2> QED
    BY <2>2, <2>3
<1>5. /\ read' = [read EXCEPT ![f] = read[f] + 1]
      /\ seen' = v.seen
      /\ waiting' = IF v.out THEN Append(waiting, [by |-> f, rank |-> v.rank, era |-> forgotten']) ELSE waiting
      /\ forgotten' = forgotten + (IF rep.cancel THEN 1 ELSE 0)
      /\ UNCHANGED <<series, up, missed, planeVars>>
  BY DEF Read
<1>7. forgotten' \in Nat
  BY <1>2, <1>5 DEF FeedsTypeOK
<1> HIDE DEF rep, v
<1>6. rep = series[read[f] + 1]
  BY DEF rep
<1> QED
  BY <1>1, <1>2, <1>4, <1>5, <1>6, <1>7

\* What is left of it when a callback returns.
LEMMA PublishEffect ==
  ASSUME FeedsTypeOK, NEW i \in DOMAIN waiting, Publish(i)
  PROVE  /\ waiting[i] \in Event /\ waiting[i].by \in Relays /\ waiting[i].rank \in 0..3
         /\ waiting[i].era \in Nat
         /\ i \in 1..Len(waiting) /\ waiting' = RemoveAt(waiting, i)
         /\ waiting' \in Seq(Event)
         /\ Len(waiting') = Len(waiting) - 1
         /\ \A j \in 1..(Len(waiting) - 1) :
              waiting'[j] = IF j < i THEN waiting[j] ELSE waiting[j + 1]
         /\ \A j \in DOMAIN waiting' : \E k \in DOMAIN waiting \ {i} : waiting'[j] = waiting[k]
         /\ \A k \in DOMAIN waiting \ {i} : \E j \in DOMAIN waiting' : waiting'[j] = waiting[k]
         /\ \/ /\ wire' = waiting[i].rank
               /\ live' = InForce(waiting[i].rank)
               /\ Counted(waiting[i])
               /\ UNCHANGED failures
            \/ /\ failures' = failures + 1 /\ failures < MaxFailures
               /\ UNCHANGED <<wire, live, said, late, recalled>>
         /\ UNCHANGED <<series, read, up, missed, seen, forgotten>>
<1>1. waiting \in Seq(Event) /\ i \in 1..Len(waiting)
  BY DEF FeedsTypeOK
<1>2. waiting[i] \in Event
  BY <1>1
<1>3. waiting' = RemoveAt(waiting, i)
  BY DEF Publish
<1>4. /\ \A j \in DOMAIN waiting' : \E k \in DOMAIN waiting \ {i} : waiting'[j] = waiting[k]
      /\ \A k \in DOMAIN waiting \ {i} : \E j \in DOMAIN waiting' : waiting'[j] = waiting[k]
  BY <1>1, <1>3, OthersStay
<1>5. /\ waiting' \in Seq(Event)
      /\ Len(waiting') = Len(waiting) - 1
      /\ \A j \in 1..(Len(waiting) - 1) :
           waiting'[j] = IF j < i THEN waiting[j] ELSE waiting[j + 1]
  BY <1>1, <1>3, RemoveAtFacts
<1> QED
  BY <1>1, <1>2, <1>3, <1>4, <1>5 DEF Publish, relayVars, Event

LEMMA TypeStep == FeedsTypeOK /\ [FeedsNext]_feedsVars => FeedsTypeOK'
<1> SUFFICES ASSUME FeedsTypeOK, [FeedsNext]_feedsVars PROVE FeedsTypeOK'
  OBVIOUS
<1>1. CASE Report
  <2>1. PICK rep \in Reports : series' = Append(series, rep)
    BY <1>1 DEF Report
  <2>2. series' \in Seq(Reports) /\ Len(series') = Len(series) + 1 /\ Len(series') <= MaxReports
    BY <1>1, <2>1, BoundsAreNat DEF Report, FeedsTypeOK
  <2> QED
    BY <1>1, <2>2, BoundsAreNat DEF Report, FeedsTypeOK, relayVars, planeVars
<1>2. ASSUME NEW f \in Relays, Break(f) \/ Miss(f) \/ Dial(f) PROVE FeedsTypeOK'
  <2>1. CASE Break(f) \/ Dial(f)
    BY <2>1 DEF Break, Dial, FeedsTypeOK, planeVars
  <2>2. CASE Miss(f)
    <3>1. read' = [read EXCEPT ![f] = read[f] + 1] /\ read[f] + 1 <= Len(series)
      BY <2>2 DEF Miss, FeedsTypeOK
    <3>2. /\ read' \in [Relays -> 0..MaxReports]
          /\ \A g \in Relays : read'[g] <= Len(series)
      BY <3>1, BoundsAreNat DEF FeedsTypeOK
    <3>3. missed' \subseteq Relays \ Steady
      BY <2>2 DEF Miss, FeedsTypeOK
    <3> QED
      BY <2>2, <3>2, <3>3 DEF Miss, FeedsTypeOK, planeVars
  <2> QED
    BY <1>2, <2>1, <2>2
<1>3. ASSUME NEW f \in Relays, Read(f) PROVE FeedsTypeOK'
  <2>1. PICK rep \in Reports, v \in [seen : Severity \cup {Unseen}, out : BOOLEAN, rank : 0..3] :
           /\ read[f] + 1 \in 1..Len(series)
           /\ read' = [read EXCEPT ![f] = read[f] + 1]
           /\ seen' = v.seen
           /\ waiting' = IF v.out THEN Append(waiting, [by |-> f, rank |-> v.rank, era |-> forgotten']) ELSE waiting
           /\ forgotten' \in Nat
           /\ UNCHANGED <<series, up, missed, planeVars>>
    BY <1>3, ReadEffect
  <2>2. [by |-> f, rank |-> v.rank, era |-> forgotten'] \in Event
    BY <2>1 DEF Event
  <2>3. waiting' \in Seq(Event)
    BY <2>1, <2>2 DEF FeedsTypeOK
  <2>4. \A i, j \in DOMAIN waiting' : waiting'[i].by = waiting'[j].by => i = j
    <3>1. \A i \in DOMAIN waiting : waiting[i].by # f
      BY <1>3 DEF Read, Busy
    <3>2. CASE ~v.out
      BY <2>1, <3>2 DEF FeedsTypeOK
    <3>3. CASE v.out
      <4>1. /\ DOMAIN waiting' = 1..(Len(waiting) + 1) /\ DOMAIN waiting = 1..Len(waiting)
            /\ \A i \in 1..Len(waiting) : waiting'[i] = waiting[i]
            /\ waiting'[Len(waiting) + 1].by = f
        BY <2>1, <2>2, <3>3 DEF FeedsTypeOK
      <4>2. Len(waiting) \in Nat /\ \A i, j \in DOMAIN waiting : waiting[i].by = waiting[j].by => i = j
        BY DEF FeedsTypeOK
      <4> QED
        BY <3>1, <4>1, <4>2
    <3> QED
      BY <3>2, <3>3
  <2>5. /\ read' \in [Relays -> 0..MaxReports]
        /\ \A g \in Relays : read'[g] <= Len(series)
    BY <2>1, BoundsAreNat DEF FeedsTypeOK
  <2>6. forgotten' \in Nat /\ seen' \in Severity \cup {Unseen}
    BY <2>1 DEF FeedsTypeOK
  <2> QED
    BY <2>1, <2>3, <2>4, <2>5, <2>6 DEF FeedsTypeOK, planeVars
<1>4. ASSUME NEW i \in DOMAIN waiting, Publish(i) PROVE FeedsTypeOK'
  <2>1. \A j, k \in DOMAIN waiting' : waiting'[j].by = waiting'[k].by => j = k
    <3>1. /\ Len(waiting) \in Nat /\ i \in 1..Len(waiting) /\ DOMAIN waiting = 1..Len(waiting)
          /\ DOMAIN waiting' = 1..(Len(waiting) - 1)
          /\ \A j \in 1..(Len(waiting) - 1) :
               waiting'[j] = IF j < i THEN waiting[j] ELSE waiting[j + 1]
      BY <1>4, PublishEffect DEF FeedsTypeOK
    <3> DEFINE at(j) == IF j < i THEN j ELSE j + 1
    <3>2. \A j \in DOMAIN waiting' : at(j) \in DOMAIN waiting /\ waiting'[j] = waiting[at(j)]
      BY <3>1
    <3>3. \A j, k \in DOMAIN waiting' : at(j) = at(k) => j = k
      BY <3>1
    <3> HIDE DEF at
    <3> QED
      BY <3>2, <3>3 DEF FeedsTypeOK
  <2>2. /\ said' \in [Severity -> Nat] /\ late' \in [Severity -> Nat] /\ recalled' \in Nat
        /\ failures' \in 0..MaxFailures /\ wire' \in 0..3 /\ live' \in 0..3
    <3>1. /\ waiting[i].rank \in 0..3 /\ waiting[i].era \in Nat
          /\ waiting[i].rank # 0 => waiting[i].rank \in Severity
      BY <1>4, PublishEffect DEF Severity, Warning, Critical, Emergency
    <3>2. InForce(waiting[i].rank) \in 0..3
      BY <3>1 DEF InForce, FeedsTypeOK
    <3>3. CASE /\ wire' = waiting[i].rank
               /\ live' = InForce(waiting[i].rank)
               /\ Counted(waiting[i])
               /\ UNCHANGED failures
      <4> DEFINE ev == waiting[i]
      <4>1. said \in [Severity -> Nat] /\ late \in [Severity -> Nat] /\ recalled \in Nat
        BY DEF FeedsTypeOK
      <4>2. ev.era \in Nat /\ (ev.rank # 0 => ev.rank \in Severity)
        BY <3>1
      <4>3. Counted(ev)
        BY <3>3
      <4> HIDE DEF ev
      <4>4. ASSUME ev.rank = 0
            PROVE  said' \in [Severity -> Nat] /\ late' \in [Severity -> Nat] /\ recalled' \in Nat
        <5>1. said' = None /\ late' = None /\ (recalled' = ev.era \/ recalled' = recalled)
          BY <4>3, <4>4 DEF Counted
        <5>2. None \in [Severity -> Nat]
          BY DEF None
        <5> QED
          BY <4>1, <4>2, <5>1, <5>2
      <4>5. ASSUME ev.rank # 0
            PROVE  said' \in [Severity -> Nat] /\ late' \in [Severity -> Nat] /\ recalled' \in Nat
        <5>1. said' = [said EXCEPT ![ev.rank] = said[ev.rank] + 1] /\ recalled' = recalled
          BY <4>3, <4>5 DEF Counted
        <5>2. late' = [late EXCEPT ![ev.rank] = late[ev.rank] + 1] \/ late' = late
          BY <4>3, <4>5 DEF Counted
        <5> QED
          BY <4>1, <4>2, <4>5, <5>1, <5>2
      <4>6. said' \in [Severity -> Nat] /\ late' \in [Severity -> Nat] /\ recalled' \in Nat
        BY <4>4, <4>5
      <4> QED
        BY <3>1, <3>2, <3>3, <4>6 DEF FeedsTypeOK
    <3>4. CASE failures' = failures + 1 /\ failures < MaxFailures
               /\ UNCHANGED <<wire, live, said, late, recalled>>
      BY <3>4, BoundsAreNat DEF FeedsTypeOK
    <3> QED
      BY <1>4, <3>3, <3>4, PublishEffect
  <2>3. crossed' \in BOOLEAN
    BY <1>4 DEF Publish
  <2> QED
    BY <1>4, <2>1, <2>2, <2>3, PublishEffect DEF FeedsTypeOK
<1>5. CASE UNCHANGED feedsVars
  BY <1>5 DEF feedsVars, relayVars, planeVars, FeedsTypeOK
<1> QED
  BY <1>1, <1>2, <1>3, <1>4, <1>5 DEF FeedsNext

\* Relays, reports and what the deduper remembers keep their types, and no relay
\* is about to publish two things at once.
THEOREM FeedsTypeCorrect == FeedsSpec => []FeedsTypeOK
<1>1. FeedsInit => FeedsTypeOK
  BY TypeInit
<1>2. FeedsTypeOK /\ [FeedsNext]_feedsVars => FeedsTypeOK'
  BY TypeStep
<1> QED
  BY <1>1, <1>2, PTL DEF FeedsSpec

-----------------------------------------------------------------------------
(* Every broadcast of a severity is paid for *)

LEMMA BearersFinite ==
  ASSUME NEW r, NEW e
  PROVE  IsFiniteSet(Bearers(r, e)) /\ Cardinality(Bearers(r, e)) \in Nat
<1>1. Bearers(r, e) \in SUBSET Relays
  BY DEF Bearers
<1>2. IsFiniteSet(Bearers(r, e))
  BY <1>1, BoundsAreNat, FS_Subset
<1> QED
  BY <1>2, FS_CardinalityType

\* Reading a report adds at most the reader to those about to broadcast.
LEMMA BearersRead ==
  ASSUME FeedsTypeOK, NEW r \in Severity, NEW e, NEW f \in Relays, NEW rank, NEW era,
         \A i \in DOMAIN waiting : waiting[i].by # f,
         waiting' = Append(waiting, [by |-> f, rank |-> rank, era |-> era])
  PROVE  Cardinality(Bearers(r, e)') =
           Cardinality(Bearers(r, e)) + (IF rank = r /\ era >= e THEN 1 ELSE 0)
<1> DEFINE B == Bearers(r, e)
           new == [by |-> f, rank |-> rank, era |-> era]
<1>1. IsFiniteSet(B) /\ Cardinality(B) \in Nat
  BY BearersFinite
<1>2. /\ DOMAIN waiting' = DOMAIN waiting \cup {Len(waiting) + 1}
      /\ \A i \in DOMAIN waiting : waiting'[i] = waiting[i]
      /\ waiting'[Len(waiting) + 1] = new
  <2> HIDE DEF new
  <2>1. waiting \in Seq(Event) /\ waiting' = Append(waiting, new)
    BY DEF FeedsTypeOK, new
  <2> QED
    BY <2>1
<1>3. ASSUME NEW g \in Relays
      PROVE  (\E i \in DOMAIN waiting' :
                waiting'[i].by = g /\ waiting'[i].rank = r /\ waiting'[i].era >= e)
               <=> \/ \E i \in DOMAIN waiting :
                        waiting[i].by = g /\ waiting[i].rank = r /\ waiting[i].era >= e
                   \/ g = f /\ rank = r /\ era >= e
  BY <1>2
<1>4. B' = IF rank = r /\ era >= e THEN B \cup {f} ELSE B
  BY <1>3 DEF Bearers
<1>5. f \notin B
  BY DEF Bearers
<1>6. Cardinality(B \cup {f}) = Cardinality(B) + 1
  BY <1>1, <1>5, FS_AddElement
<1> HIDE DEF B
<1>7. Cardinality(B') = Cardinality(B) + (IF rank = r /\ era >= e THEN 1 ELSE 0)
  BY <1>1, <1>4, <1>6
<1> QED
  BY <1>7 DEF B

\* A callback that returns takes its relay away from them.
LEMMA BearersPublish ==
  ASSUME FeedsTypeOK, NEW r \in Severity, NEW e, NEW i \in DOMAIN waiting, Publish(i)
  PROVE  Cardinality(Bearers(r, e)') =
           Cardinality(Bearers(r, e)) - (IF waiting[i].rank = r /\ waiting[i].era >= e THEN 1 ELSE 0)
<1> DEFINE B == Bearers(r, e)
           g == waiting[i].by
           Due(k) == waiting[k].rank = r /\ waiting[k].era >= e
<1>1. IsFiniteSet(B) /\ Cardinality(B) \in Nat
  BY BearersFinite
<1>2. /\ \A j \in DOMAIN waiting' : \E k \in DOMAIN waiting \ {i} : waiting'[j] = waiting[k]
      /\ \A k \in DOMAIN waiting \ {i} : \E j \in DOMAIN waiting' : waiting'[j] = waiting[k]
      /\ \A j, k \in DOMAIN waiting : waiting[j].by = waiting[k].by => j = k
  BY PublishEffect DEF FeedsTypeOK
<1>3. ASSUME NEW f \in Relays
      PROVE  (\E j \in DOMAIN waiting' :
                waiting'[j].by = f /\ waiting'[j].rank = r /\ waiting'[j].era >= e)
               <=> \E k \in DOMAIN waiting \ {i} : waiting[k].by = f /\ Due(k)
  BY <1>2
<1>4. ASSUME NEW f \in Relays
      PROVE  (\E k \in DOMAIN waiting \ {i} : waiting[k].by = f /\ Due(k))
               <=> (\E k \in DOMAIN waiting : waiting[k].by = f /\ Due(k)) /\ ~(f = g /\ Due(i))
  <2> HIDE DEF Due
  <2> QED
    BY <1>2
<1>5. B' = IF Due(i) THEN B \ {g} ELSE B
  BY <1>3, <1>4 DEF Bearers
<1>6. Due(i) => g \in B
  BY PublishEffect DEF Bearers
<1>7. g \in B => Cardinality(B \ {g}) = Cardinality(B) - 1
  BY <1>1, FS_RemoveElement
<1> HIDE DEF B, Due
<1>8. Cardinality(B') = Cardinality(B) - (IF Due(i) THEN 1 ELSE 0)
  BY <1>1, <1>5, <1>6, <1>7
<1> QED
  BY <1>8 DEF B, Due

LEMMA PaidForFacts ==
  ASSUME FeedsTypeOK, PaidFor, NEW r \in Severity
  PROVE  /\ r \in 1..3 /\ seen \in -1..3 /\ forgotten \in Nat /\ recalled \in 0..forgotten
         /\ said[r] \in Nat /\ late[r] \in Nat /\ Bit(r) \in {0, 1}
         /\ \A e \in 0..forgotten : Cardinality(Bearers(r, e)) <= forgotten - e + Bit(r)
         /\ said[r] - late[r] + Cardinality(Bearers(r, recalled)) <= forgotten - recalled + Bit(r)
         /\ \A e : Cardinality(Bearers(r, e)) \in Nat
<1>1. /\ r \in 1..3 /\ seen \in -1..3 /\ forgotten \in Nat /\ recalled \in Nat
      /\ said[r] \in Nat /\ late[r] \in Nat
  BY DEF FeedsTypeOK, Severity, Warning, Critical, Emergency, Unseen
<1>2. recalled \in 0..forgotten
  BY <1>1 DEF PaidFor
<1> QED
  BY <1>1, <1>2, BearersFinite DEF PaidFor, Bit

LEMMA PaidForRead ==
  ASSUME FeedsTypeOK, PaidFor, NEW f \in Relays, Read(f)
  PROVE  PaidFor'
<1>1. PICK rep \in Reports, v \in [seen : Severity \cup {Unseen}, out : BOOLEAN, rank : 0..3] :
         /\ rep.cancel \in BOOLEAN
         /\ seen' = v.seen
         /\ waiting' = IF v.out THEN Append(waiting, [by |-> f, rank |-> v.rank, era |-> forgotten']) ELSE waiting
         /\ forgotten' = forgotten + (IF rep.cancel THEN 1 ELSE 0) /\ forgotten' \in Nat
         /\ rep.cancel => v.seen = Unseen /\ v.out /\ v.rank = 0
         /\ ~rep.cancel =>
              /\ v.rank \in Severity
              /\ v.out => v.rank > seen /\ v.seen = v.rank
              /\ ~v.out => v.seen = seen
         /\ UNCHANGED <<said, late, recalled>>
  BY ReadEffect DEF planeVars
<1>2. \A i \in DOMAIN waiting : waiting[i].by # f
  BY DEF Read, Busy
<1>3. forgotten \in Nat /\ recalled \in Nat /\ recalled <= forgotten /\ seen \in -1..3 /\ v.seen \in -1..3
  BY DEF FeedsTypeOK, PaidFor, Severity, Warning, Critical, Emergency, Unseen
<1>4. \A i \in DOMAIN waiting' : waiting'[i].era <= forgotten'
  <2>1. ASSUME NEW i \in DOMAIN waiting'
        PROVE  \/ i \in DOMAIN waiting /\ waiting'[i] = waiting[i]
               \/ waiting'[i] = [by |-> f, rank |-> v.rank, era |-> forgotten']
    BY <1>1 DEF FeedsTypeOK
  <2>2. ASSUME NEW i \in DOMAIN waiting PROVE waiting[i].era \in Nat /\ waiting[i].era <= forgotten
    <3>1. waiting[i] \in Event
      BY DEF FeedsTypeOK
    <3> QED
      BY <3>1 DEF PaidFor, Event
  <2>3. forgotten <= forgotten'
    BY <1>1, <1>3
  <2> QED
    BY <1>1, <1>3, <2>1, <2>2, <2>3
<1>5. ASSUME NEW r \in Severity, NEW e \in 0..forgotten'
      PROVE  Cardinality(Bearers(r, e)') = Cardinality(Bearers(r, e)) + (IF v.out /\ v.rank = r THEN 1 ELSE 0)
  <2>1. CASE v.out
    <3>1. waiting' = Append(waiting, [by |-> f, rank |-> v.rank, era |-> forgotten'])
      BY <1>1, <2>1
    <3>2. Cardinality(Bearers(r, e)') =
            Cardinality(Bearers(r, e)) + (IF v.rank = r /\ forgotten' >= e THEN 1 ELSE 0)
      BY <1>2, <3>1, BearersRead
    <3>3. forgotten' >= e
      BY <1>1
    <3> QED
      BY <2>1, <3>2, <3>3
  <2>2. CASE ~v.out
    <3>1. Bearers(r, e)' = Bearers(r, e)
      BY <1>1, <2>2 DEF Bearers
    <3>2. Cardinality(Bearers(r, e)) \in Nat
      BY BearersFinite
    <3> QED
      BY <2>2, <3>1, <3>2
  <2> QED
    BY <2>1, <2>2
<1>6. ASSUME NEW r \in Severity
      PROVE  /\ forgotten + Bit(r) + (IF v.out /\ v.rank = r THEN 1 ELSE 0) <= forgotten' + Bit(r)'
             /\ Bit(r) \in 0..1 /\ Bit(r)' \in 0..1
             /\ v.rank = r => forgotten' = forgotten
  <2>1. r \in 1..3
    BY DEF Severity, Warning, Critical, Emergency
  <2>2. CASE rep.cancel
    BY <1>1, <1>3, <2>1, <2>2 DEF Bit, Unseen
  <2>3. CASE ~rep.cancel
    BY <1>1, <1>3, <2>1, <2>3 DEF Bit, Severity, Warning, Critical, Emergency
  <2> QED
    BY <1>1, <2>2, <2>3
<1>7. ASSUME NEW r \in Severity, NEW e \in 0..forgotten'
      PROVE  Cardinality(Bearers(r, e)') <= forgotten' - e + Bit(r)'
  <2> DEFINE C == Cardinality(Bearers(r, e))
  <2>1. C \in Nat
    BY BearersFinite
  <2>2. Cardinality(Bearers(r, e)') = C + (IF v.out /\ v.rank = r THEN 1 ELSE 0)
    BY <1>5
  <2>3. CASE e <= forgotten
    <3>1. C <= forgotten - e + Bit(r)
      BY <2>3, <1>3, PaidForFacts
    <3> HIDE DEF C
    <3> QED
      BY <1>1, <1>3, <1>6, <2>1, <2>2, <3>1
  <2>4. CASE e > forgotten
    <3>1. e = forgotten' /\ rep.cancel
      BY <1>1, <1>3, <2>4
    <3>2. Bearers(r, e) = {}
      <4>1. ASSUME NEW i \in DOMAIN waiting PROVE ~(waiting[i].era >= e)
        <5>1. waiting[i].era \in Nat /\ waiting[i].era <= forgotten
          <6>1. waiting[i] \in Event
            BY DEF FeedsTypeOK
          <6> QED
            BY <6>1 DEF PaidFor, Event
        <5> QED
          BY <1>3, <2>4, <5>1
      <4> QED
        BY <4>1 DEF Bearers
    <3>3. C = 0
      BY <3>2, FS_EmptySet
    <3>4. ~(v.out /\ v.rank = r)
      BY <1>1, <3>1 DEF Severity, Warning, Critical, Emergency
    <3> HIDE DEF C
    <3> QED
      BY <1>1, <1>6, <2>2, <3>1, <3>3, <3>4
  <2> QED
    BY <1>1, <1>3, <2>3, <2>4
<1>8. ASSUME NEW r \in Severity
      PROVE  said'[r] - late'[r] + Cardinality(Bearers(r, recalled)') <= forgotten' - recalled' + Bit(r)'
  <2> DEFINE C == Cardinality(Bearers(r, recalled))
  <2>1. /\ said[r] - late[r] + C <= forgotten - recalled + Bit(r)
        /\ said[r] \in Nat /\ late[r] \in Nat /\ C \in Nat
    BY PaidForFacts
  <2>2. Cardinality(Bearers(r, recalled)') = C + (IF v.out /\ v.rank = r THEN 1 ELSE 0)
    <3>1. recalled \in 0..forgotten'
      BY <1>1, <1>3
    <3>2. \A e \in 0..forgotten' :
            Cardinality(Bearers(r, e)') = Cardinality(Bearers(r, e)) + (IF v.out /\ v.rank = r THEN 1 ELSE 0)
      BY <1>5
    <3>3. recalled' = recalled
      BY <1>1
    <3>4. Bearers(r, recalled)' = {g \in Relays : \E i \in DOMAIN waiting' :
             waiting'[i].by = g /\ waiting'[i].rank = r /\ waiting'[i].era >= recalled}
      BY <3>3 DEF Bearers
    <3> QED
      BY <3>1, <3>2, <3>4 DEF Bearers
  <2> DEFINE D == Cardinality(Bearers(r, recalled)')
             w == IF v.out /\ v.rank = r THEN 1 ELSE 0
  <2>3. D = C + w /\ w \in {0, 1}
    BY <2>2
  <2>4. forgotten + Bit(r) + w <= forgotten' + Bit(r)' /\ Bit(r) \in 0..1 /\ Bit(r)' \in 0..1
    BY <1>6
  <2>5. said' = said /\ late' = late /\ recalled' = recalled /\ forgotten' \in Nat
    BY <1>1
  <2> HIDE DEF C, D, w
  <2>6. said[r] - late[r] + D <= forgotten' - recalled + Bit(r)'
    BY <1>3, <2>1, <2>3, <2>4, <2>5
  <2> QED
    BY <2>5, <2>6 DEF D
<1>9. recalled' <= forgotten'
  BY <1>1, <1>3
<1> QED
  BY <1>1, <1>4, <1>7, <1>8, <1>9 DEF PaidFor

LEMMA PaidForPublish ==
  ASSUME FeedsTypeOK, PaidFor, NEW i \in DOMAIN waiting, Publish(i)
  PROVE  PaidFor'
<1> DEFINE ev == waiting[i]
<1>1. /\ ev \in Event /\ ev.rank \in 0..3 /\ ev.era \in Nat
      /\ \A j \in DOMAIN waiting' : \E k \in DOMAIN waiting \ {i} : waiting'[j] = waiting[k]
      /\ UNCHANGED <<seen, forgotten>>
      /\ Counted(ev) \/ UNCHANGED <<said, late, recalled>>
  BY PublishEffect
<1>2. /\ forgotten \in Nat /\ recalled \in Nat /\ recalled <= forgotten
      /\ ev.era <= forgotten
  BY DEF FeedsTypeOK, PaidFor
<1>3. \A j \in DOMAIN waiting' : waiting'[j].era <= forgotten'
  BY <1>1 DEF PaidFor
<1>4. recalled' <= forgotten' /\ recalled' \in Nat
  BY <1>1, <1>2 DEF Counted
<1>5. ASSUME NEW r \in Severity, NEW e \in 0..forgotten
      PROVE  /\ Cardinality(Bearers(r, e)') =
                  Cardinality(Bearers(r, e)) - (IF ev.rank = r /\ ev.era >= e THEN 1 ELSE 0)
             /\ Cardinality(Bearers(r, e)) \in Nat
  BY BearersPublish, BearersFinite
<1>6. \A r : Bit(r)' = Bit(r)
  BY <1>1 DEF Bit
<1>7. ASSUME NEW r \in Severity, NEW e \in 0..forgotten'
      PROVE  Cardinality(Bearers(r, e)') <= forgotten' - e + Bit(r)'
  <2> DEFINE C == Cardinality(Bearers(r, e))
             D == Cardinality(Bearers(r, e)')
  <2>1. e \in 0..forgotten
    BY <1>1
  <2>2. C <= forgotten - e + Bit(r) /\ Bit(r) \in {0, 1}
    BY <2>1, PaidForFacts
  <2>3. C \in Nat /\ D = C - (IF ev.rank = r /\ ev.era >= e THEN 1 ELSE 0)
    BY <1>5, <2>1
  <2> HIDE DEF C, D, ev
  <2>4. D <= forgotten' - e + Bit(r)'
    BY <1>1, <1>2, <1>6, <2>1, <2>2, <2>3
  <2> QED
    BY <2>4 DEF D
<1>8. ASSUME NEW r \in Severity
      PROVE  said'[r] - late'[r] + Cardinality(Bearers(r, recalled)') <= forgotten' - recalled' + Bit(r)'
  <2> DEFINE at(e) == {g \in Relays : \E j \in DOMAIN waiting' :
                         waiting'[j].by = g /\ waiting'[j].rank = r /\ waiting'[j].era >= e}
  <2>1. \A e \in 0..forgotten :
          /\ Cardinality(at(e)) =
               Cardinality(Bearers(r, e)) - (IF ev.rank = r /\ ev.era >= e THEN 1 ELSE 0)
          /\ Cardinality(Bearers(r, e)) \in Nat
    BY <1>5 DEF Bearers
  <2>2. Bearers(r, recalled)' = at(recalled')
    BY DEF Bearers
  <2>3. /\ r \in 1..3 /\ said[r] \in Nat /\ late[r] \in Nat /\ Bit(r) \in {0, 1}
        /\ recalled \in 0..forgotten
        /\ \A e \in 0..forgotten : Cardinality(Bearers(r, e)) <= forgotten - e + Bit(r)
        /\ said[r] - late[r] + Cardinality(Bearers(r, recalled)) <= forgotten - recalled + Bit(r)
    BY PaidForFacts
  <2>4. said \in [Severity -> Nat] /\ late \in [Severity -> Nat]
    BY DEF FeedsTypeOK
  <2>5. CASE UNCHANGED <<said, late, recalled>>
    <3> DEFINE C == Cardinality(Bearers(r, recalled))
               D == Cardinality(at(recalled))
    <3> DEFINE w == IF ev.rank = r /\ ev.era >= recalled THEN 1 ELSE 0
    <3>0. C \in Nat /\ D = C - w
      BY <2>1, <2>3
    <3> HIDE DEF C, D
    <3>1. C \in Nat /\ (D = C \/ D = C - 1)
      BY <3>0
    <3>2. said[r] - late[r] + C <= forgotten - recalled + Bit(r)
      BY <2>3 DEF C
    <3>3. said[r] - late[r] + D <= forgotten - recalled + Bit(r)
      BY <1>2, <2>3, <3>1, <3>2
    <3> QED
      BY <1>1, <1>6, <2>2, <2>5, <3>3 DEF D
  <2>6. CASE Counted(ev) /\ ev.rank = 0
    <3>1. said'[r] = 0 /\ late'[r] = 0
      BY <2>6 DEF Counted, None
    <3>2. recalled' \in 0..forgotten
      BY <1>1, <1>4
    <3> DEFINE C == Cardinality(Bearers(r, recalled'))
               D == Cardinality(at(recalled'))
    <3>3. C \in Nat /\ D = C /\ C <= forgotten - recalled' + Bit(r)
      BY <2>1, <2>3, <2>6, <3>2
    <3> HIDE DEF C, D
    <3>4. 0 - 0 + D <= forgotten - recalled' + Bit(r)
      BY <1>2, <2>3, <3>2, <3>3
    <3> QED
      BY <1>1, <1>6, <2>2, <3>1, <3>4 DEF D
  <2>7. CASE Counted(ev) /\ ev.rank # 0
    <3>1. recalled' = recalled /\ ev.rank \in Severity
      BY <1>1, <2>7 DEF Counted, Severity, Warning, Critical, Emergency
    <3>2. said' = [said EXCEPT ![ev.rank] = @ + 1]
      BY <2>7 DEF Counted
    <3>3. late' = IF ev.era < recalled THEN [late EXCEPT ![ev.rank] = @ + 1] ELSE late
      BY <2>7 DEF Counted
    <3> DEFINE C == Cardinality(Bearers(r, recalled))
               D == Cardinality(at(recalled))
    <3>4. C \in Nat /\ D = C - (IF ev.rank = r /\ ev.era >= recalled THEN 1 ELSE 0)
      BY <2>1, <2>3
    <3>5. said[r] - late[r] + C <= forgotten - recalled + Bit(r)
      BY <2>3
    <3>6. /\ said'[r] = said[r] + (IF ev.rank = r THEN 1 ELSE 0)
          /\ late'[r] = late[r] + (IF ev.rank = r /\ ev.era < recalled THEN 1 ELSE 0)
      BY <2>4, <3>1, <3>2, <3>3
    <3> HIDE DEF C, D, ev
    <3>7. said'[r] - late'[r] + D <= forgotten - recalled + Bit(r)
      BY <1>1, <1>2, <2>3, <3>4, <3>5, <3>6
    <3> QED
      BY <1>1, <1>6, <2>2, <3>1, <3>7 DEF D
  <2> QED
    BY <1>1, <2>5, <2>6, <2>7
<1> QED
  BY <1>1, <1>3, <1>4, <1>7, <1>8 DEF PaidFor

LEMMA PaidForStep ==
  ASSUME FeedsTypeOK, PaidFor, [FeedsNext]_feedsVars
  PROVE  PaidFor'
<1>1. CASE UNCHANGED <<said, late, recalled, waiting, forgotten, seen>>
  BY <1>1 DEF PaidFor, Bearers, Bit
<1> QED
  BY <1>1, PaidForRead, PaidForPublish DEF FeedsNext, Report, Break, Miss, Dial, relayVars,
     planeVars, feedsVars

LEMMA PaidForInit == FeedsInit => PaidFor
<1> SUFFICES ASSUME FeedsInit PROVE PaidFor
  OBVIOUS
<1>1. forgotten = 0 /\ recalled = 0 /\ DOMAIN waiting = {}
  BY DEF FeedsInit
<1>2. ASSUME NEW r \in Severity, NEW e PROVE Cardinality(Bearers(r, e)) = 0
  <2>1. Bearers(r, e) = {}
    BY <1>1 DEF Bearers
  <2> QED
    BY <2>1, FS_EmptySet
<1>3. ASSUME NEW r \in Severity PROVE said[r] = 0 /\ late[r] = 0 /\ Bit(r) = 0
  BY DEF FeedsInit, None, Bit, Unseen, Severity, Warning, Critical, Emergency
<1> QED
  BY <1>1, <1>2, <1>3 DEF PaidFor

\* dedup.go:31-44 and the callback in main.go: after a recall a severity goes out
\* once, and once more for each recall that is not out yet and each broadcast that
\* the recall overtook, for any number of relays, reports and refused broadcasts.
THEOREM OneAlarm == FeedsSpec => []OneAlarmEach
<1>1. FeedsTypeOK /\ PaidFor => OneAlarmEach
  <2> SUFFICES ASSUME FeedsTypeOK, PaidFor, NEW r \in Severity
               PROVE  said[r] <= 1 + late[r] + (forgotten - recalled)
    BY DEF OneAlarmEach, Unheard
  <2> DEFINE C == Cardinality(Bearers(r, recalled))
  <2>1. /\ forgotten \in Nat /\ recalled \in 0..forgotten
        /\ said[r] \in Nat /\ late[r] \in Nat /\ Bit(r) \in {0, 1}
        /\ said[r] - late[r] + C <= forgotten - recalled + Bit(r)
        /\ C \in Nat
    BY PaidForFacts
  <2> HIDE DEF C
  <2> QED
    BY <2>1
<1> QED
  BY <1>1, PaidForInit, PaidForStep, FeedsTypeCorrect, PTL DEF FeedsSpec

-----------------------------------------------------------------------------
(* A recall is not undone by what relays still have in hand *)

LEMMA FeedsFacts ==
  ASSUME FeedsTypeOK
  PROVE  /\ series \in Seq(Reports) /\ Len(series) \in Nat
         /\ Len(waiting) \in Nat /\ DOMAIN waiting = 1..Len(waiting)
         /\ \A i \in DOMAIN waiting : waiting[i].by \in Relays /\ waiting[i].rank \in 0..3
         /\ \A f \in Relays : read[f] \in Nat /\ read[f] <= Len(series)
         /\ failures \in Nat /\ wire \in 0..3 /\ seen \in Severity \cup {Unseen}
<1>1. /\ series \in Seq(Reports) /\ waiting \in Seq(Event)
      /\ read \in [Relays -> 0..MaxReports] /\ \A f \in Relays : read[f] <= Len(series)
      /\ failures \in 0..MaxFailures /\ wire \in 0..3 /\ seen \in Severity \cup {Unseen}
  BY DEF FeedsTypeOK
<1>2. MaxReports \in Nat /\ MaxFailures \in Nat
  BY BoundsAreNat
<1>3. Len(series) \in Nat /\ Len(waiting) \in Nat /\ DOMAIN waiting = 1..Len(waiting)
  BY <1>1
<1>4. ASSUME NEW i \in DOMAIN waiting
      PROVE  waiting[i].by \in Relays /\ waiting[i].rank \in 0..3
  <2>1. waiting[i] \in Event
    BY <1>1
  <2> QED
    BY <2>1 DEF Event
<1>5. ASSUME NEW f \in Relays PROVE read[f] \in Nat
  BY <1>1, <1>2
<1>6. failures \in Nat
  BY <1>1, <1>2
<1> QED
  BY <1>1, <1>3, <1>4, <1>5, <1>6

LEMMA BearersStep ==
  ASSUME FeedsTypeOK, BearersOK, [FeedsNext]_feedsVars
  PROVE  BearersOK'
<1>0. /\ Len(series) \in Nat /\ series \in Seq(Reports)
      /\ \A i \in DOMAIN waiting : waiting[i].by \in Relays
      /\ \A f \in Relays : read[f] \in Nat /\ read[f] <= Len(series)
  BY FeedsFacts
<1>1. CASE Report
  <2>1. PICK rep \in Reports : series' = Append(series, rep)
    BY <1>1 DEF Report
  <2>2. \A k \in 1..Len(series) : series'[k] = series[k]
    BY <1>0, <2>1
  <2> QED
    BY <1>0, <1>1, <2>2 DEF Report, BearersOK, relayVars
<1>2. ASSUME NEW f \in Relays, Break(f) PROVE BearersOK'
  BY <1>2 DEF Break, Busy, BearersOK
<1>3. ASSUME NEW f \in Relays, Miss(f) PROVE BearersOK'
  BY <1>0, <1>3 DEF Miss, BearersOK, FeedsTypeOK
<1>4. ASSUME NEW f \in Relays, Dial(f) PROVE BearersOK'
  BY <1>4 DEF Dial, BearersOK
<1>5. ASSUME NEW f \in Relays, Read(f) PROVE BearersOK'
  <2>1. PICK rep \in Reports, v \in [seen : Severity \cup {Unseen}, out : BOOLEAN, rank : 0..3] :
           /\ rep = series[read[f] + 1] /\ rep.cancel \in BOOLEAN
           /\ read' = [read EXCEPT ![f] = read[f] + 1]
           /\ waiting' = IF v.out THEN Append(waiting, [by |-> f, rank |-> v.rank, era |-> forgotten']) ELSE waiting
           /\ rep.cancel => v.rank = 0
           /\ UNCHANGED <<series, up>>
    BY <1>5, ReadEffect
  <2>2. f \in up /\ \A i \in DOMAIN waiting : waiting[i].by # f
    BY <1>5 DEF Read, Busy
  <2>3. /\ \A i \in DOMAIN waiting : read'[waiting[i].by] = read[waiting[i].by]
        /\ read'[f] = read[f] + 1 /\ read'[f] # 0
    BY <1>0, <2>1, <2>2 DEF FeedsTypeOK
  <2>4. ASSUME NEW i \in DOMAIN waiting'
        PROVE  \/ i \in DOMAIN waiting /\ waiting'[i] = waiting[i]
               \/ waiting'[i] = [by |-> f, rank |-> v.rank, era |-> forgotten']
    BY <2>1 DEF FeedsTypeOK
  <2> QED
    BY <2>1, <2>2, <2>3, <2>4 DEF BearersOK
<1>6. ASSUME NEW i \in DOMAIN waiting, Publish(i) PROVE BearersOK'
  <2>1. /\ \A j \in DOMAIN waiting' : \E k \in DOMAIN waiting \ {i} : waiting'[j] = waiting[k]
        /\ UNCHANGED <<series, read, up>>
    BY <1>6, PublishEffect
  <2> QED
    BY <2>1 DEF BearersOK
<1>7. CASE UNCHANGED feedsVars
  BY <1>7 DEF feedsVars, relayVars, BearersOK
<1> QED
  BY <1>1, <1>2, <1>3, <1>4, <1>5, <1>6, <1>7 DEF FeedsNext

LEMMA RecallStep ==
  ASSUME FeedsTypeOK, BearersOK, RecallUnderWay, [FeedsNext]_feedsVars
  PROVE  RecallUnderWay'
<1> DEFINE Over == /\ \A f \in Relays : read[f] = Len(series)
                   /\ series # << >> /\ Last(series).cancel
                   /\ missed = {} /\ failures = 0
<1>0. /\ Len(series) \in Nat /\ series \in Seq(Reports)
      /\ \A f \in Relays : read[f] \in Nat /\ read[f] <= Len(series)
      /\ \A i \in DOMAIN waiting : waiting[i].by \in Relays
      /\ failures \in Nat
  BY FeedsFacts
<1>1. CASE Report
  <2>1. PICK rep \in Reports : series' = Append(series, rep)
    BY <1>1 DEF Report
  <2>2. Len(series') = Len(series) + 1
    BY <1>0, <2>1
  <2>3. UNCHANGED <<read, live, waiting>>
    BY <1>1 DEF Report, relayVars, planeVars
  <2>4. ASSUME NEW f \in Relays PROVE read'[f] # Len(series')
    BY <1>0, <2>2, <2>3
  <2>5. CASE Relays = {}
    BY <2>3, <2>5 DEF RecallUnderWay
  <2>6. CASE Relays # {}
    BY <2>4, <2>6 DEF RecallUnderWay
  <2> QED
    BY <2>5, <2>6
<1>2. ASSUME NEW f \in Relays, Break(f) \/ Dial(f) PROVE RecallUnderWay'
  BY <1>2 DEF Break, Dial, RecallUnderWay, planeVars
<1>3. ASSUME NEW f \in Relays, Miss(f) PROVE RecallUnderWay'
  BY <1>3 DEF Miss, RecallUnderWay, planeVars
<1>4. ASSUME NEW f \in Relays, Read(f) PROVE RecallUnderWay'
  <2>1. PICK rep \in Reports, v \in [seen : Severity \cup {Unseen}, out : BOOLEAN, rank : 0..3] :
           /\ rep = series[read[f] + 1] /\ rep.cancel \in BOOLEAN
           /\ read' = [read EXCEPT ![f] = read[f] + 1]
           /\ waiting' = IF v.out THEN Append(waiting, [by |-> f, rank |-> v.rank, era |-> forgotten']) ELSE waiting
           /\ rep.cancel => v.out
           /\ UNCHANGED <<series, missed, live>>
    BY <1>4, ReadEffect DEF planeVars
  <2>2. read'[f] = read[f] + 1
    BY <2>1 DEF FeedsTypeOK
  <2>3. ASSUME read'[f] = Len(series), Last(series).cancel PROVE waiting' # << >>
    <3>1. v.out
      BY <2>1, <2>2, <2>3 DEF Last
    <3>2. waiting \in Seq(Event) /\ waiting' = Append(waiting, [by |-> f, rank |-> v.rank, era |-> forgotten'])
      BY <2>1, <3>1 DEF FeedsTypeOK
    <3> QED
      BY <3>2
  <2> QED
    BY <2>1, <2>3 DEF RecallUnderWay
<1>5. ASSUME NEW i \in DOMAIN waiting, Publish(i) PROVE RecallUnderWay'
  <2> DEFINE f == waiting[i].by
  <2>1. /\ f \in Relays /\ waiting[i].rank \in 0..3
        /\ UNCHANGED <<series, read, missed>>
        /\ \/ live' = InForce(waiting[i].rank) /\ failures' = failures
           \/ failures' = failures + 1
    BY <1>5, PublishEffect
  <2>2. SUFFICES ASSUME Over' PROVE live' = 0
    BY <2>1 DEF RecallUnderWay
  <2>3. Over /\ live' = InForce(waiting[i].rank)
    BY <1>0, <2>1, <2>2
  <2>4. waiting[i].rank = 0
    BY <2>1, <2>3 DEF BearersOK, Last
  <2> QED
    BY <2>3, <2>4 DEF InForce
<1>6. CASE UNCHANGED feedsVars
  BY <1>6 DEF feedsVars, relayVars, planeVars, RecallUnderWay
<1> QED
  BY <1>1, <1>2, <1>3, <1>4, <1>5, <1>6 DEF FeedsNext

\* p2pquake.go:138-144: once every relay has passed a cancellation on, nothing is
\* in force, although the deduper forgets before the recall goes out and relays
\* that lag announce again what is already withdrawn.
THEOREM RecallsSettle == FeedsSpec => []RecallSettles
<1>1. FeedsInit => BearersOK /\ RecallUnderWay
  BY DEF FeedsInit, BearersOK, RecallUnderWay
<1>2. FeedsTypeOK /\ BearersOK /\ RecallUnderWay /\ [FeedsNext]_feedsVars
        => BearersOK' /\ RecallUnderWay'
  BY BearersStep, RecallStep
<1>3. RecallUnderWay => RecallSettles
  BY DEF RecallUnderWay, RecallSettles, Quiet
<1> QED
  BY <1>1, <1>2, <1>3, FeedsTypeCorrect, PTL DEF FeedsSpec

-----------------------------------------------------------------------------
(* Severities climb *)

LEMMA ClimbingStep ==
  ASSUME FeedsTypeOK, Climbing, [FeedsNext]_feedsVars
  PROVE  Climbing'
<1>0. /\ Len(waiting) \in Nat /\ DOMAIN waiting = 1..Len(waiting)
      /\ \A i \in 1..Len(waiting) : waiting[i].rank \in 0..3
      /\ wire \in 0..3 /\ failures \in Nat
      /\ seen \in Severity \cup {Unseen}
  BY FeedsFacts
<1>1. ASSUME NEW f \in Relays, Read(f) PROVE Climbing'
  <2>1. PICK rep \in Reports, v \in [seen : Severity \cup {Unseen}, out : BOOLEAN, rank : 0..3] :
           /\ rep.cancel \in BOOLEAN
           /\ seen' = v.seen
           /\ waiting' = IF v.out THEN Append(waiting, [by |-> f, rank |-> v.rank, era |-> forgotten']) ELSE waiting
           /\ forgotten' \in Nat
           /\ rep.cancel => v.seen = Unseen /\ v.out /\ v.rank = 0
           /\ ~rep.cancel =>
                /\ v.rank \in Severity
                /\ v.out => v.rank > seen /\ v.seen = v.rank
                /\ ~v.out => v.seen = seen
           /\ UNCHANGED <<wire, failures, crossed>>
    BY <1>1, ReadEffect DEF planeVars
  <2>2. CASE ~v.out
    BY <2>1, <2>2 DEF Climbing, LastWord, Remembered
  <2>3. CASE v.out
    <3>1. /\ Len(waiting') = Len(waiting) + 1 /\ waiting' # << >>
          /\ \A i \in 1..Len(waiting) : waiting'[i] = waiting[i]
          /\ waiting'[Len(waiting) + 1].rank = v.rank
      <4> DEFINE e == [by |-> f, rank |-> v.rank, era |-> forgotten']
      <4>1. e \in Event /\ e.rank = v.rank
        BY <2>1 DEF Event
      <4> HIDE DEF e
      <4>2. waiting' = Append(waiting, e)
        BY <2>1, <2>3 DEF e
      <4>3. waiting \in Seq(Event)
        BY DEF FeedsTypeOK
      <4> QED
        BY <4>1, <4>2, <4>3
    <3>2. LastWord' = v.rank
      BY <1>0, <3>1 DEF LastWord
    <3>3. Remembered' = v.rank
      BY <2>1, <2>3 DEF Remembered, Severity, Warning, Critical, Emergency, Unseen
    <3>4. v.rank = 0 \/ v.rank > Remembered
      BY <1>0, <2>1, <2>3 DEF Remembered, Severity, Warning, Critical, Emergency, Unseen
    <3> SUFFICES ASSUME ~crossed, failures = 0
                 PROVE  /\ waiting'[1].rank = 0 \/ waiting'[1].rank > wire
                        /\ \A i \in 1..Len(waiting) :
                             waiting'[i + 1].rank = 0 \/ waiting'[i + 1].rank > waiting'[i].rank
      BY <1>0, <2>1, <3>1, <3>2, <3>3 DEF Climbing
    <3>5. /\ LastWord = Remembered
          /\ waiting # << >> => waiting[1].rank = 0 \/ waiting[1].rank > wire
          /\ \A i \in 1..(Len(waiting) - 1) :
               waiting[i + 1].rank = 0 \/ waiting[i + 1].rank > waiting[i].rank
      BY DEF Climbing
    <3>6. CASE waiting = << >>
      BY <1>0, <3>1, <3>4, <3>5, <3>6 DEF LastWord
    <3>7. CASE waiting # << >>
      <4>1. Len(waiting) >= 1 /\ LastWord = waiting[Len(waiting)].rank
        BY <3>7 DEF LastWord, FeedsTypeOK
      <4>2. waiting'[1].rank = 0 \/ waiting'[1].rank > wire
        BY <1>0, <3>1, <3>5, <3>7, <4>1
      <4>3. ASSUME NEW i \in 1..Len(waiting)
            PROVE  waiting'[i + 1].rank = 0 \/ waiting'[i + 1].rank > waiting'[i].rank
        <5>1. CASE i = Len(waiting)
          BY <1>0, <3>1, <3>4, <3>5, <4>1, <5>1
        <5>2. CASE i < Len(waiting)
          <6>1. i \in 1..(Len(waiting) - 1) /\ i + 1 \in 1..Len(waiting)
            BY <1>0, <5>2
          <6> QED
            BY <3>1, <3>5, <6>1
        <5>3. i = Len(waiting) \/ i < Len(waiting)
          <6>1. i \in Int /\ Len(waiting) \in Int /\ i <= Len(waiting)
            BY <1>0
          <6> QED
            BY <6>1
        <5> QED
          BY <5>1, <5>2, <5>3
      <4> QED
        BY <4>2, <4>3
    <3> QED
      BY <3>6, <3>7
  <2> QED
    BY <2>2, <2>3
<1>2. ASSUME NEW i \in DOMAIN waiting, Publish(i) PROVE Climbing'
  <2>1. /\ i \in 1..Len(waiting) /\ seen' = seen
        /\ Len(waiting') = Len(waiting) - 1
        /\ \A j \in 1..(Len(waiting) - 1) :
             waiting'[j] = IF j < i THEN waiting[j] ELSE waiting[j + 1]
        /\ waiting' \in Seq(Event)
        /\ \/ wire' = waiting[i].rank /\ failures' = failures
           \/ failures' = failures + 1
    BY <1>2, PublishEffect
  <2>2. crossed' <=> (crossed \/ i # 1)
    BY <1>2, Zenon DEF Publish
  <2> SUFFICES ASSUME ~crossed', failures' = 0 PROVE Climbing'
    BY DEF Climbing
  <2>3. /\ i = 1 /\ ~crossed /\ failures = 0 /\ wire' = waiting[1].rank
        /\ \A j \in 1..(Len(waiting) - 1) : waiting'[j] = waiting[j + 1]
    BY <1>0, <2>1, <2>2
  <2>4. /\ LastWord = Remembered
        /\ \A k \in 1..(Len(waiting) - 1) :
             waiting[k + 1].rank = 0 \/ waiting[k + 1].rank > waiting[k].rank
    BY <2>3 DEF Climbing
  <2>5. waiting # << >> /\ LastWord = waiting[Len(waiting)].rank
    BY <1>0, <2>1 DEF LastWord
  <2>6. LastWord' = LastWord
    <3>1. CASE Len(waiting) = 1
      BY <2>1, <2>3, <2>5, <3>1 DEF LastWord
    <3>2. CASE Len(waiting) > 1
      <4>1. waiting' # << >> /\ waiting'[Len(waiting')] = waiting[Len(waiting)]
        BY <1>0, <2>1, <2>3, <3>2
      <4> QED
        BY <2>5, <4>1 DEF LastWord
    <3> QED
      BY <1>0, <2>1, <3>1, <3>2
  <2>7. Remembered' = Remembered
    BY <2>1 DEF Remembered
  <2>8. waiting' # << >> => waiting'[1].rank = 0 \/ waiting'[1].rank > wire'
    <3> SUFFICES ASSUME waiting' # << >> PROVE waiting'[1].rank = 0 \/ waiting'[1].rank > wire'
      OBVIOUS
    <3>1. 1 \in 1..(Len(waiting) - 1)
      BY <1>0, <2>1
    <3> QED
      BY <2>3, <2>4, <3>1
  <2>9. ASSUME NEW k \in 1..(Len(waiting') - 1)
        PROVE  waiting'[k + 1].rank = 0 \/ waiting'[k + 1].rank > waiting'[k].rank
    <3>1. /\ k \in 1..(Len(waiting) - 1) /\ k + 1 \in 1..(Len(waiting) - 1)
      BY <1>0, <2>1
    <3>2. waiting'[k] = waiting[k + 1] /\ waiting'[k + 1] = waiting[k + 1 + 1]
      BY <2>3, <3>1
    <3> QED
      BY <2>4, <3>1, <3>2
  <2> QED
    BY <2>4, <2>6, <2>7, <2>8, <2>9 DEF Climbing
<1>3. CASE UNCHANGED <<wire, waiting, seen, crossed, failures>>
  BY <1>3 DEF Climbing, LastWord, Remembered
<1> QED
  BY <1>1, <1>2, <1>3 DEF FeedsNext, Report, Break, Miss, Dial, relayVars, planeVars, feedsVars

LEMMA QuieterStep ==
  ASSUME FeedsTypeOK, Climbing, FeedsNext, wire' # 0, wire' < wire
  PROVE  crossed' \/ failures > 0
<1>1. ASSUME NEW i \in DOMAIN waiting, Publish(i)
      PROVE  crossed' \/ failures > 0
  <2>1. /\ i \in 1..Len(waiting) /\ waiting[i].rank \in 0..3 /\ wire \in 0..3 /\ failures \in Nat
        /\ wire' = waiting[i].rank \/ wire' = wire
    BY <1>1, PublishEffect, BoundsAreNat DEF FeedsTypeOK
  <2>2. crossed' <=> (crossed \/ i # 1)
    BY <1>1, Zenon DEF Publish
  <2>3. CASE ~crossed /\ i = 1 /\ failures = 0
    <3>1. waiting # << >> /\ (waiting[1].rank = 0 \/ waiting[1].rank > wire)
      BY <2>1, <2>3 DEF Climbing
    <3> QED
      BY <2>1, <2>3, <3>1
  <2> QED
    BY <2>1, <2>2, <2>3
<1>2. CASE UNCHANGED wire
  <2>1. wire \in 0..3
    BY DEF FeedsTypeOK
  <2> QED
    BY <1>2, <2>1
<1>3. FeedsNext => UNCHANGED wire \/ \E i \in DOMAIN waiting : Publish(i)
  BY DEF FeedsNext, Report, Break, Miss, Dial, Read, planeVars
<1> QED
  BY <1>1, <1>2, <1>3

\* dedup.go:31-44, main.go's callback: a broadcast is quieter than the one before
\* it only if a relay was overtaken between its decision and its publish, or a
\* broadcast was refused.
THEOREM QuieterIsOvertaken == FeedsSpec => QuieterOnlyOvertaken
<1>1. FeedsInit => Climbing
  BY DEF FeedsInit, Climbing, LastWord, Remembered
<1>2. FeedsTypeOK /\ Climbing /\ [FeedsNext]_feedsVars => Climbing'
  BY ClimbingStep
<1>3. FeedsTypeOK /\ Climbing /\ [FeedsNext]_feedsVars
        => [wire' # 0 /\ wire' < wire => crossed' \/ failures > 0]_feedsVars
  BY QuieterStep
<1> QED
  BY <1>1, <1>2, <1>3, FeedsTypeCorrect, PTL DEF FeedsSpec, QuieterOnlyOvertaken

-----------------------------------------------------------------------------
(* Client *)

\* No id is twice on the fullscreen list.
OnceOnTop ==
  \A i, j \in DOMAIN activeFs : activeFs[i].id = activeFs[j].id => i = j

\* What is under way was sent, and not later than now.
SentBefore ==
  /\ \A no \in 1..MaxSent : pool[no] > 0 => no <= Len(sent)
  /\ \A no \in 1..Len(sent) : sent[no].issued <= now

\* What was acted on is remembered until it is too old to be accepted: the message
\* by its nonce, and an alert by an issue of its id that is no older.
ActedOn ==
  /\ \A id \in Ids : memory[id] # 0 => sent[memory[id]].id = id
  /\ \A k \in DOMAIN handled :
       LET no == handled[k]
           id == sent[no].id
       IN  Fresh(no) =>
             /\ no \in nonces
             /\ sent[no].kind = "alert" =>
                  memory[id] # 0 /\ sent[no].issued <= sent[memory[id]].issued

\* A timer is due when the window of something that was acted on is over.
TimersOK ==
  \A t \in timers : \E k \in DOMAIN handled :
    sent[handled[k]].id = t.id /\ Until(handled[k]) = t.at

\* While an id counts as recalled nothing of it is on screen.
RecalledGone == \A id \in cancelled : ~OnTop(id) /\ ToastsOf(id) = {}

\* Does the message go back to before a recall of its id that was acted on?
Outdated(no) ==
  \E k \in DOMAIN handled :
    /\ sent[handled[k]].kind = "cancel"
    /\ sent[handled[k]].id = sent[no].id
    /\ no <= handled[k]

\* The slot never holds what was sent before a recall of its id, and such a message
\* is on its way to the page only while the page counts the id as recalled: what
\* forgets the recall, a reload, forgets what was on its way as well.
SlotIsLater ==
  slot # 0 =>
    \A c \in 1..Len(sent) :
      sent[c].kind = "cancel" /\ sent[c].id = sent[slot].id => c < slot

PoolIsLater ==
  \A no \in 1..Len(sent) : pool[no] > 0 /\ Outdated(no) => sent[no].id \in cancelled

\* An entry's wording is that of a message of its id, and nothing on screen is
\* outdated.
EntriesOK ==
  \A j \in DOMAIN activeFs :
    activeFs[j].no \in 1..Len(sent) /\ sent[activeFs[j].no].id = activeFs[j].id

ShownIsLater == \A no \in Shown : ~Outdated(no)

ClientInv ==
  /\ TypeOK /\ SentBefore /\ OnceOnTop /\ ActedOn /\ ActedInOrder /\ TimersOK
  /\ RecalledGone /\ SlotIsLater /\ PoolIsLater /\ EntriesOK /\ ShownIsLater

-----------------------------------------------------------------------------
(* Types *)

LEMMA FsWithoutFacts ==
  ASSUME NEW E, activeFs \in Seq(E), OnceOnTop, NEW id
  PROVE  /\ FsWithout(id) \in Seq(E)
         /\ \A j \in DOMAIN FsWithout(id) :
              /\ FsWithout(id)[j].id # id
              /\ \E k \in DOMAIN activeFs : FsWithout(id)[j] = activeFs[k]
         /\ \A k \in DOMAIN activeFs : activeFs[k].id # id =>
              \E j \in DOMAIN FsWithout(id) : FsWithout(id)[j] = activeFs[k]
         /\ \A j, k \in DOMAIN FsWithout(id) :
              FsWithout(id)[j].id = FsWithout(id)[k].id => j = k
<1> DEFINE I == {i \in 1..Len(activeFs) : activeFs[i].id = id}
           n == SelectInSeq(activeFs, LAMBDA e : e.id = id)
<1>0. Len(activeFs) \in Nat /\ DOMAIN activeFs = 1..Len(activeFs)
  OBVIOUS
<1>1. n = IF I # {} THEN Min(I) ELSE 0
  BY DEF SelectInSeq
<1>2. CASE I = {}
  <2>1. FsWithout(id) = activeFs
    BY <1>1, <1>2 DEF FsWithout
  <2>2. \A k \in DOMAIN activeFs : activeFs[k].id # id
    BY <1>0, <1>2
  <2> QED
    BY <2>1, <2>2 DEF OnceOnTop
<1>3. CASE I # {}
  <2>1. PICK i \in I : TRUE
    BY <1>3
  <2>2. I = {i}
    BY <1>0, <2>1 DEF OnceOnTop
  <2>3. Min(I) = i
    <3>1. i <= i
      BY <2>1
    <3> QED
      BY <2>2, <3>1 DEF Min
  <2>4. n = i /\ i # 0 /\ i \in DOMAIN activeFs
    BY <1>0, <1>1, <1>3, <2>1, <2>3
  <2>5. FsWithout(id) = RemoveAt(activeFs, i)
    BY <2>4 DEF FsWithout
  <2>6. /\ RemoveAt(activeFs, i) \in Seq(E)
        /\ \A j \in DOMAIN RemoveAt(activeFs, i) :
             \E k \in DOMAIN activeFs \ {i} : RemoveAt(activeFs, i)[j] = activeFs[k]
        /\ \A k \in DOMAIN activeFs \ {i} :
             \E j \in DOMAIN RemoveAt(activeFs, i) : RemoveAt(activeFs, i)[j] = activeFs[k]
    BY <1>0, <2>4, RemoveAtFacts, OthersStay
  <2>7. \A k \in DOMAIN activeFs \ {i} : activeFs[k].id # id
    BY <1>0, <2>2
  <2>8. activeFs[i].id = id
    BY <2>1
  <2>9. ASSUME NEW j, NEW k, j \in DOMAIN RemoveAt(activeFs, i), k \in DOMAIN RemoveAt(activeFs, i),
               RemoveAt(activeFs, i)[j].id = RemoveAt(activeFs, i)[k].id
        PROVE  j = k
    <3>1. /\ Len(RemoveAt(activeFs, i)) = Len(activeFs) - 1
          /\ \A l \in 1..(Len(activeFs) - 1) :
               RemoveAt(activeFs, i)[l] = IF l < i THEN activeFs[l] ELSE activeFs[l + 1]
      BY <1>0, <2>4, RemoveAtFacts
    <3>2. j \in 1..(Len(activeFs) - 1) /\ k \in 1..(Len(activeFs) - 1)
      <4>1. DOMAIN RemoveAt(activeFs, i) = 1..Len(RemoveAt(activeFs, i))
        BY <2>6
      <4> QED
        BY <2>9, <3>1, <4>1
    <3> DEFINE P(l) == IF l < i THEN l ELSE l + 1
    <3>3. /\ RemoveAt(activeFs, i)[j] = activeFs[P(j)] /\ P(j) \in 1..Len(activeFs)
          /\ RemoveAt(activeFs, i)[k] = activeFs[P(k)] /\ P(k) \in 1..Len(activeFs)
      BY <1>0, <2>4, <3>1, <3>2
    <3>4. P(j) = P(k)
      BY <1>0, <2>9, <3>3 DEF OnceOnTop
    <3> QED
      BY <1>0, <2>4, <3>2, <3>4
  <2> DEFINE w == RemoveAt(activeFs, i)
  <2>10. /\ w \in Seq(E)
         /\ \A j \in DOMAIN w : w[j].id # id /\ \E k \in DOMAIN activeFs : w[j] = activeFs[k]
         /\ \A k \in DOMAIN activeFs : activeFs[k].id # id => \E j \in DOMAIN w : w[j] = activeFs[k]
         /\ \A j, k \in DOMAIN w : w[j].id = w[k].id => j = k
    <3>1. ASSUME NEW j \in DOMAIN w
          PROVE  w[j].id # id /\ \E k \in DOMAIN activeFs : w[j] = activeFs[k]
      <4>1. PICK k \in DOMAIN activeFs \ {i} : w[j] = activeFs[k]
        BY <2>6
      <4> QED
        BY <2>7, <4>1
    <3>2. ASSUME NEW k \in DOMAIN activeFs, activeFs[k].id # id
          PROVE  \E j \in DOMAIN w : w[j] = activeFs[k]
      BY <2>6, <2>8, <3>2
    <3> QED
      BY <2>6, <2>9, <3>1, <3>2
  <2> HIDE DEF w
  <2>11. FsWithout(id) = w
    BY <2>5 DEF w
  <2> QED
    BY <2>10, <2>11
<1> QED
  BY <1>2, <1>3

LEMMA AppendFacts ==
  ASSUME NEW S, NEW s \in Seq(S), NEW e \in S
  PROVE  /\ Append(s, e) \in Seq(S)
         /\ Len(Append(s, e)) = Len(s) + 1 /\ Len(s) \in Nat
         /\ DOMAIN s = 1..Len(s) /\ DOMAIN Append(s, e) = 1..(Len(s) + 1)
         /\ \A i \in 1..Len(s) : Append(s, e)[i] = s[i]
         /\ Append(s, e)[Len(s) + 1] = e
OBVIOUS

-----------------------------------------------------------------------------
(* What the types say *)

LEMMA BoundsAreNats ==
  /\ MaxSkew \in Nat /\ MaxTime \in Nat /\ MaxSent \in Nat
  /\ MaxConnects \in Nat /\ MaxReloads \in Nat /\ MaxPresses \in Nat
  /\ \A o \in Offers : o[1] \in 0..3 /\ o[2] \in Nat
BY ClientAssumption

LEMMA ClientFacts ==
  ASSUME TypeOK
  PROVE  /\ now \in Nat /\ Len(sent) \in Nat
         /\ \A no \in 1..Len(sent) :
              /\ sent[no].kind \in {"alert", "cancel"}
              /\ sent[no].id \in Ids /\ sent[no].rank \in 0..3
              /\ sent[no].issued \in Nat /\ sent[no].ttl \in Nat
              /\ Until(no) \in Nat
         /\ \A k \in DOMAIN handled : handled[k] \in 1..Len(sent)
         /\ \A id \in Ids : memory[id] \in 0..Len(sent)
<1>1. now \in Nat /\ Len(sent) \in Nat
  BY BoundsAreNats DEF TypeOK
<1>2. ASSUME NEW no \in 1..Len(sent)
      PROVE  /\ sent[no].kind \in {"alert", "cancel"}
             /\ sent[no].id \in Ids /\ sent[no].rank \in 0..3
             /\ sent[no].issued \in Nat /\ sent[no].ttl \in Nat
             /\ Until(no) \in Nat
  <2>1. sent[no] \in Message
    BY DEF TypeOK
  <2>2. /\ sent[no].kind \in {"alert", "cancel"}
        /\ sent[no].id \in Ids /\ sent[no].rank \in 0..3
        /\ sent[no].issued \in Nat /\ sent[no].ttl \in Nat
    BY <2>1 DEF Message
  <2> QED
    BY <2>2 DEF Until
<1>3. /\ \A k \in DOMAIN handled : handled[k] \in 1..Len(sent)
      /\ \A id \in Ids : memory[id] \in 0..Len(sent)
  BY DEF TypeOK
<1> QED
  BY <1>1, <1>2, <1>3

LEMMA OnTopFacts ==
  ASSUME NEW id
  PROVE  /\ OnTop(id) <=> \E k \in DOMAIN activeFs : activeFs[k].id = id
         /\ OnTop(id)' <=> \E k \in DOMAIN activeFs' : activeFs'[k].id = id
<1>1. OnTop(id) <=> \E k \in DOMAIN activeFs : activeFs[k].id = id
  BY DEF OnTop, Range
<1>2. OnTop(id)' <=> \E k \in DOMAIN activeFs' : activeFs'[k].id = id
  BY DEF OnTop, Range
<1> QED
  BY <1>1, <1>2

-----------------------------------------------------------------------------
(* What a step does to the messages *)

LEMMA ServerEffect ==
  ASSUME TypeOK, SentBefore, Issue \/ Recall
  PROVE  /\ sent' \in Seq(Message) /\ Len(sent') = Len(sent) + 1 /\ Len(sent') <= MaxSent
         /\ \A no \in 1..Len(sent) : sent'[no] = sent[no]
         /\ sent'[Len(sent) + 1].issued = now
         /\ slot' \in 0..Len(sent')
         /\ pool' \in [1..MaxSent -> Nat]
         /\ \A no \in 1..MaxSent : pool'[no] > 0 => pool[no] > 0 \/ no = Len(sent) + 1
         /\ activeFs' = activeFs \/ (activeFs' = << >> /\ slot # 0 /\ slot' = 0)
         /\ UNCHANGED <<now, online, gate, cancelled, toasts, timers, acks, count>>
<1>0. /\ sent \in Seq(Message) /\ Len(sent) \in Nat /\ slot \in 0..Len(sent)
      /\ pool \in [1..MaxSent -> Nat]
  BY DEF TypeOK
<1>1. /\ Len(sent) < MaxSent
      /\ \E m \in Message : m.issued = now /\ sent' = Append(sent, m)
      /\ slot' \in {0, slot, Len(sent) + 1}
      /\ \E c \in {1, 2} : Arrive(Len(sent) + 1, c)
      /\ activeFs' = activeFs \/ (activeFs' = << >> /\ slot # 0 /\ slot' = 0)
      /\ UNCHANGED <<now, online, gate, cancelled, toasts, timers, acks, count>>
  <2>1. CASE Issue
    <3>1. PICK id \in Ids, offer \in Offers :
            /\ sent' = Append(sent, [kind |-> "alert", id |-> id, rank |-> offer[1],
                                     issued |-> now, ttl |-> offer[2]])
            /\ slot' = IF TakesSlot(offer[1]) THEN Len(sent) + 1 ELSE slot
            /\ Arrive(Len(sent) + 1, IF TakesSlot(offer[1]) THEN 2 ELSE 1)
      BY <2>1 DEF Issue
    <3>2. [kind |-> "alert", id |-> id, rank |-> offer[1], issued |-> now, ttl |-> offer[2]] \in Message
      BY BoundsAreNats, ClientFacts DEF Message
    <3>3. \E m \in Message : m.issued = now /\ sent' = Append(sent, m)
      BY <3>1, <3>2
    <3>4. (IF TakesSlot(offer[1]) THEN 2 ELSE 1) \in {1, 2}
      OBVIOUS
    <3> QED
      BY <2>1, <3>1, <3>3, <3>4 DEF Issue, screen
  <2>2. CASE Recall
    <3>1. PICK id \in Ids :
            /\ sent' = Append(sent, [kind |-> "cancel", id |-> id, rank |-> 0,
                                     issued |-> now, ttl |-> MaxSkew])
            /\ IF slot # 0 /\ sent[slot].id = id
                 THEN SlotEmptied ELSE UNCHANGED <<slot, activeFs>>
      BY <2>2 DEF Recall
    <3>2. [kind |-> "cancel", id |-> id, rank |-> 0, issued |-> now, ttl |-> MaxSkew] \in Message
      BY BoundsAreNats, ClientFacts DEF Message
    <3>3. \E m \in Message : m.issued = now /\ sent' = Append(sent, m)
      BY <3>1, <3>2
    <3> QED
      BY <2>2, <3>1, <3>3 DEF Recall, SlotEmptied
  <2> QED
    BY <2>1, <2>2
<1>2. PICK m \in Message : m.issued = now /\ sent' = Append(sent, m)
  BY <1>1
<1>3. /\ sent' \in Seq(Message) /\ Len(sent') = Len(sent) + 1
      /\ \A no \in 1..Len(sent) : sent'[no] = sent[no]
      /\ sent'[Len(sent) + 1] = m
  BY <1>0, <1>2, AppendFacts
<1>4. Len(sent') <= MaxSent /\ slot' \in 0..Len(sent')
  BY <1>0, <1>1, <1>3, BoundsAreNats
<1>5. /\ pool' \in [1..MaxSent -> Nat]
      /\ \A no \in 1..MaxSent : pool'[no] > 0 => pool[no] > 0 \/ no = Len(sent) + 1
  <2>1. PICK c \in {1, 2} : Arrive(Len(sent) + 1, c)
    BY <1>1
  <2>2. \/ pool' = pool
        \/ pool' = [pool EXCEPT ![Len(sent) + 1] = c]
    BY <2>1 DEF Arrive
  <2>3. c \in Nat
    OBVIOUS
  <2>4. pool' \in [1..MaxSent -> Nat]
    BY <1>0, <2>2, <2>3
  <2>5. ASSUME NEW no \in 1..MaxSent, no # Len(sent) + 1 PROVE pool'[no] = pool[no]
    BY <1>0, <2>2, <2>5
  <2> QED
    BY <2>4, <2>5
<1> QED
  BY <1>1, <1>2, <1>3, <1>4, <1>5

LEMMA HandleEffect ==
  ASSUME TypeOK, SentBefore, NEW no \in 1..MaxSent, Handle(no)
  PROVE  /\ no \in 1..Len(sent)
         /\ pool' \in [1..MaxSent -> Nat]
         /\ \A m \in 1..MaxSent : pool'[m] > 0 => pool[m] > 0
         /\ UNCHANGED <<now, sent, slot, online, acks, count>>
         /\ \/ UNCHANGED <<gate, cancelled, screen>>
            \/ Accepts(no) /\ Remember(no) /\ Present(no)
<1>0. pool \in [1..MaxSent -> Nat] /\ pool[no] > 0 /\ Len(sent) \in Nat
  BY ClientFacts DEF TypeOK, Handle
<1>1. pool' = [pool EXCEPT ![no] = pool[no] - 1] /\ pool[no] - 1 \in Nat
  BY <1>0 DEF Handle
<1>2. no \in 1..Len(sent)
  BY <1>0, BoundsAreNats DEF SentBefore
<1>3. pool' \in [1..MaxSent -> Nat]
  BY <1>0, <1>1
<1>4. ASSUME NEW m \in 1..MaxSent, pool'[m] > 0 PROVE pool[m] > 0
  BY <1>0, <1>1, <1>4
<1> QED
  BY <1>2, <1>3, <1>4 DEF Handle, broker

LEMMA CountGrows ==
  ASSUME TypeOK
  PROVE  /\ count.connects < MaxConnects => [count EXCEPT !.connects = @ + 1] \in
              [connects : 0..MaxConnects, reloads : 0..MaxReloads, presses : 0..MaxPresses]
         /\ count.reloads < MaxReloads => [count EXCEPT !.reloads = @ + 1] \in
              [connects : 0..MaxConnects, reloads : 0..MaxReloads, presses : 0..MaxPresses]
         /\ count.presses < MaxPresses => [count EXCEPT !.presses = @ + 1] \in
              [connects : 0..MaxConnects, reloads : 0..MaxReloads, presses : 0..MaxPresses]
<1>1. /\ count \in [connects : 0..MaxConnects, reloads : 0..MaxReloads, presses : 0..MaxPresses]
      /\ count.connects \in 0..MaxConnects /\ count.reloads \in 0..MaxReloads
      /\ count.presses \in 0..MaxPresses
  BY DEF TypeOK
<1>2. /\ count.connects < MaxConnects => count.connects + 1 \in 0..MaxConnects
      /\ count.reloads < MaxReloads => count.reloads + 1 \in 0..MaxReloads
      /\ count.presses < MaxPresses => count.presses + 1 \in 0..MaxPresses
  BY <1>1, BoundsAreNats
<1>3. ASSUME count.connects < MaxConnects
      PROVE  [count EXCEPT !.connects = @ + 1] \in
              [connects : 0..MaxConnects, reloads : 0..MaxReloads, presses : 0..MaxPresses]
  BY <1>1, <1>2, <1>3
<1>4. ASSUME count.reloads < MaxReloads
      PROVE  [count EXCEPT !.reloads = @ + 1] \in
              [connects : 0..MaxConnects, reloads : 0..MaxReloads, presses : 0..MaxPresses]
  BY <1>1, <1>2, <1>4
<1>5. ASSUME count.presses < MaxPresses
      PROVE  [count EXCEPT !.presses = @ + 1] \in
              [connects : 0..MaxConnects, reloads : 0..MaxReloads, presses : 0..MaxPresses]
  BY <1>1, <1>2, <1>5
<1> QED
  BY <1>3, <1>4, <1>5

\* Time goes on, what was sent stays as it was, and only what was sent is under way.
LEMMA MessagesKept ==
  ASSUME TypeOK, SentBefore, [Next]_vars
  PROVE  /\ now' \in 0..MaxTime /\ now <= now'
         /\ sent' \in Seq(Message) /\ Len(sent) <= Len(sent') /\ Len(sent') <= MaxSent
         /\ \A no \in 1..Len(sent) : sent'[no] = sent[no]
         /\ slot' \in 0..Len(sent') /\ online' \in BOOLEAN
         /\ pool' \in [1..MaxSent -> Nat]
         /\ acks' \subseteq Ids
         /\ count' \in [connects : 0..MaxConnects, reloads : 0..MaxReloads, presses : 0..MaxPresses]
         /\ SentBefore'
<1>0. /\ now \in 0..MaxTime /\ now \in Nat /\ sent \in Seq(Message)
      /\ Len(sent) \in Nat /\ Len(sent) <= MaxSent /\ slot \in 0..Len(sent)
      /\ online \in BOOLEAN /\ pool \in [1..MaxSent -> Nat] /\ acks \subseteq Ids
      /\ count \in [connects : 0..MaxConnects, reloads : 0..MaxReloads, presses : 0..MaxPresses]
      /\ \A no \in 1..Len(sent) : sent[no].issued \in Nat
  BY ClientFacts DEF TypeOK
<1>1. CASE Issue \/ Recall
  <2>1. /\ sent' \in Seq(Message) /\ Len(sent') = Len(sent) + 1 /\ Len(sent') <= MaxSent
        /\ \A no \in 1..Len(sent) : sent'[no] = sent[no]
        /\ sent'[Len(sent) + 1].issued = now
        /\ slot' \in 0..Len(sent')
        /\ pool' \in [1..MaxSent -> Nat]
        /\ \A no \in 1..MaxSent : pool'[no] > 0 => pool[no] > 0 \/ no = Len(sent) + 1
        /\ UNCHANGED <<now, online, acks, count>>
    BY <1>1, ServerEffect
  <2>2. \A no \in 1..MaxSent : pool'[no] > 0 => no <= Len(sent')
    BY <1>0, <2>1 DEF SentBefore
  <2>3. ASSUME NEW no \in 1..Len(sent') PROVE sent'[no].issued <= now'
    <3>1. no \in 1..Len(sent) \/ no = Len(sent) + 1
      BY <1>0, <2>1
    <3>2. CASE no \in 1..Len(sent)
      BY <2>1, <3>2 DEF SentBefore
    <3>3. CASE no = Len(sent) + 1
      BY <1>0, <2>1, <3>3
    <3> QED
      BY <3>1, <3>2, <3>3
  <2> QED
    <3>1. SentBefore'
      BY <2>2, <2>3 DEF SentBefore
    <3>2. /\ now' \in 0..MaxTime /\ now <= now' /\ online' \in BOOLEAN /\ acks' \subseteq Ids
          /\ count' \in [connects : 0..MaxConnects, reloads : 0..MaxReloads, presses : 0..MaxPresses]
      BY <1>0, <2>1
    <3>3. Len(sent) <= Len(sent')
      BY <1>0, <2>1
    <3> QED
      BY <2>1, <3>1, <3>2, <3>3
<1>2. CASE SlotExpired
  BY <1>0, <1>2 DEF SlotExpired, SlotEmptied, SentBefore
<1>3. ASSUME NEW no \in 1..MaxSent, Handle(no)
      PROVE  /\ now' = now /\ sent' = sent /\ slot' = slot /\ online' = online
             /\ acks' = acks /\ count' = count /\ pool' \in [1..MaxSent -> Nat]
             /\ SentBefore'
  BY <1>3, HandleEffect DEF SentBefore
<1>4. ASSUME NEW t \in timers, Fire(t)
      PROVE  UNCHANGED <<now, broker, online, pool, acks, count>>
  BY <1>4 DEF Fire
<1>5. CASE Confirm
  <2>1. /\ UNCHANGED <<now, broker, online, pool>>
        /\ count' = [count EXCEPT !.presses = @ + 1] /\ count.presses < MaxPresses
        /\ acks' \subseteq acks \cup {Last(activeFs).id} /\ activeFs # << >>
    BY <1>5 DEF Confirm
  <2>2. Last(activeFs).id \in Ids
    <3>1. Len(activeFs) \in DOMAIN activeFs /\ \A i \in DOMAIN activeFs : activeFs[i] \in Entry
      BY <2>1 DEF TypeOK
    <3> QED
      BY <3>1 DEF Last, Entry
  <2>3. count' \in [connects : 0..MaxConnects, reloads : 0..MaxReloads, presses : 0..MaxPresses]
    BY <2>1, CountGrows
  <2> QED
    BY <1>0, <2>1, <2>2, <2>3 DEF broker, SentBefore
<1>6. CASE Connect
  <2>1. /\ UNCHANGED <<now, broker, acks>> /\ online' = TRUE
        /\ pool' = IF slot = 0 THEN pool ELSE [pool EXCEPT ![slot] = @ + 1]
        /\ count' = [count EXCEPT !.connects = @ + 1] /\ count.connects < MaxConnects
    BY <1>6 DEF Connect
  <2>2. count' \in [connects : 0..MaxConnects, reloads : 0..MaxReloads, presses : 0..MaxPresses]
    BY <2>1, CountGrows
  <2>3. /\ pool' \in [1..MaxSent -> Nat]
        /\ \A no \in 1..MaxSent : pool'[no] > 0 => no <= Len(sent)
    <3>1. CASE slot = 0
      BY <1>0, <2>1, <3>1 DEF SentBefore
    <3>2. CASE slot # 0
      <4>1. slot \in 1..MaxSent
        BY <1>0, <3>2, BoundsAreNats
      <4>2. pool[slot] + 1 \in Nat
        BY <1>0, <4>1
      <4>3. pool' = [pool EXCEPT ![slot] = pool[slot] + 1]
        BY <2>1, <3>2
      <4>4. pool' \in [1..MaxSent -> Nat]
        BY <1>0, <4>2, <4>3
      <4>5. ASSUME NEW no \in 1..MaxSent, pool'[no] > 0 PROVE no <= Len(sent)
        BY <1>0, <4>3, <4>5 DEF SentBefore
      <4> QED
        BY <4>4, <4>5
    <3> QED
      BY <3>1, <3>2
  <2> QED
    BY <1>0, <2>1, <2>2, <2>3 DEF broker, SentBefore
<1>7. CASE Disconnect
  <2>1. UNCHANGED <<now, sent, slot, pool, acks, count>> /\ online' = FALSE
    BY <1>7 DEF Disconnect, broker
  <2>2. SentBefore'
    BY <2>1 DEF SentBefore
  <2>3. online' \in BOOLEAN
    BY <2>1
  <2> QED
    BY <1>0, <2>1, <2>2, <2>3
<1>8. CASE Reload
  <2>1. /\ UNCHANGED <<now, broker, acks>> /\ online' = FALSE
        /\ pool' = [no \in 1..MaxSent |-> 0]
        /\ count' = [count EXCEPT !.reloads = @ + 1] /\ count.reloads < MaxReloads
    BY <1>8 DEF Reload
  <2>2. count' \in [connects : 0..MaxConnects, reloads : 0..MaxReloads, presses : 0..MaxPresses]
    BY <2>1, CountGrows
  <2>3. pool' \in [1..MaxSent -> Nat] /\ \A no \in 1..MaxSent : ~(pool'[no] > 0)
    BY <2>1
  <2>4. UNCHANGED <<now, sent, slot, acks>>
    BY <2>1 DEF broker
  <2>5. SentBefore'
    BY <2>3, <2>4 DEF SentBefore
  <2>6. online' \in BOOLEAN
    BY <2>1
  <2> QED
    BY <1>0, <2>2, <2>3, <2>4, <2>5, <2>6
<1>9. CASE Tick
  <2>1. /\ UNCHANGED <<broker, online, pool, acks, count>> /\ now' = now + 1 /\ now < MaxTime
    BY <1>9 DEF Tick
  <2>2. \A no \in 1..Len(sent) : sent[no].issued <= now + 1
    BY <1>0 DEF SentBefore
  <2> QED
    BY <1>0, <2>1, <2>2, BoundsAreNats DEF broker, SentBefore
<1>10. CASE UNCHANGED vars
  BY <1>0, <1>10 DEF vars, broker, SentBefore
<1>11. ASSUME NEW t \in timers, Fire(t)
       PROVE  UNCHANGED <<now, sent, slot, online, pool, acks, count>> /\ SentBefore'
  BY <1>4, <1>11 DEF broker, SentBefore
<1> QED
  BY <1>0, <1>1, <1>2, <1>3, <1>5, <1>6, <1>7, <1>8, <1>9, <1>10, <1>11 DEF Next, Server, Page

-----------------------------------------------------------------------------
(* The gate *)

\* What was issued later stays fresh for longer.
LEMMA FreshLonger ==
  ASSUME TypeOK, NEW n \in 1..Len(sent), NEW m \in 1..Len(sent),
         Fresh(n), sent[n].issued <= sent[m].issued
  PROVE  Fresh(m)
<1>1. now \in Nat /\ MaxSkew \in Nat /\ sent[n].issued \in Nat /\ sent[m].issued \in Nat
  BY ClientFacts, BoundsAreNats
<1>2. now - sent[n].issued <= MaxSkew
  BY DEF Fresh
<1>3. now - sent[m].issued <= MaxSkew
  BY <1>1, <1>2
<1> QED
  BY <1>3 DEF Fresh

\* A step either leaves the gate alone or lets one message through.
LEMMA GateOpens ==
  ASSUME TypeOK, SentBefore, [Next]_vars
  PROVE  \/ UNCHANGED gate
         \/ \E no \in 1..Len(sent) :
              Accepts(no) /\ Remember(no) /\ Present(no) /\ now' = now /\ sent' = sent
<1>1. ASSUME NEW no \in 1..MaxSent, Handle(no)
      PROVE  \/ UNCHANGED gate
             \/ \E n \in 1..Len(sent) :
                  Accepts(n) /\ Remember(n) /\ Present(n) /\ now' = now /\ sent' = sent
  BY <1>1, HandleEffect
<1>2. CASE Server \/ Page \/ Tick \/ UNCHANGED vars \/ \E t \in timers : Fire(t)
  BY <1>2 DEF Server, Issue, Recall, SlotExpired, Page, Confirm, Connect, Disconnect, Reload,
     Tick, Fire, vars
<1> QED
  BY <1>1, <1>2 DEF Next

\* What an accepted message leaves behind.
LEMMA RememberEffect ==
  ASSUME TypeOK, NEW no \in 1..Len(sent), Accepts(no), Remember(no), now' = now, sent' = sent
  PROVE  /\ Fresh(no) /\ no \notin nonces
         /\ nonces' = {n \in nonces \cup {no} : Fresh(n)}
         /\ \/ sent[no].kind = "cancel"
            \/ memory[sent[no].id] = 0
            \/ sent[no].issued > sent[memory[sent[no].id]].issued
         /\ memory' \in [Ids -> 0..Len(sent)]
         /\ \A id \in Ids :
              /\ sent[no].kind = "alert" /\ sent[no].id = id => memory'[id] = no
              /\ ~(sent[no].kind = "alert" /\ sent[no].id = id)
                   => memory'[id] = IF Fresh(memory[id]) THEN memory[id] ELSE 0
         /\ handled' = Append(handled, no)
<1>1. no # 0 /\ now - sent[no].issued <= MaxSkew
  BY DEF Accepts
<1>2. Fresh(no)
  BY <1>1 DEF Fresh
<1>3. ASSUME NEW id \in Ids
      PROVE  /\ memory'[id] \in 0..Len(sent)
             /\ sent[no].kind = "alert" /\ sent[no].id = id => memory'[id] = no
             /\ ~(sent[no].kind = "alert" /\ sent[no].id = id)
                  => memory'[id] = IF Fresh(memory[id]) THEN memory[id] ELSE 0
  <2>1. memory[id] \in 0..Len(sent) /\ Len(sent) \in Nat
    BY ClientFacts
  <2>2. CASE sent[no].kind = "alert" /\ sent[no].id = id
    <3>1. memory'[id] = no
      BY <1>2, <2>2 DEF Remember
    <3> QED
      BY <2>1, <2>2, <3>1
  <2>3. CASE ~(sent[no].kind = "alert" /\ sent[no].id = id)
    <3>1. memory'[id] = IF Fresh(memory[id]) THEN memory[id] ELSE 0
      BY <2>3 DEF Remember
    <3> QED
      BY <2>1, <2>3, <3>1
  <2> QED
    BY <2>2, <2>3
<1>4. memory' \in [Ids -> 0..Len(sent)]
  <2>1. memory' = [id \in Ids |-> memory'[id]]
    BY DEF Remember
  <2> QED
    BY <1>3, <2>1
<1> QED
  BY <1>2, <1>3, <1>4 DEF Remember, Accepts, IsNew

LEMMA GateStep ==
  ASSUME TypeOK, SentBefore, ActedOn, ActedInOrder, [Next]_vars
  PROVE  /\ nonces' \subseteq 1..Len(sent')
         /\ memory' \in [Ids -> 0..Len(sent')]
         /\ handled' \in Seq(1..Len(sent'))
         /\ \A k \in DOMAIN handled : k \in DOMAIN handled' /\ handled'[k] = handled[k]
         /\ ActedOn' /\ ActedInOrder'
<1>0. /\ now \in Nat /\ now' \in Nat /\ now <= now' /\ MaxSkew \in Nat
      /\ Len(sent) \in Nat /\ Len(sent') \in Nat /\ Len(sent) <= Len(sent')
      /\ \A no \in 1..Len(sent) : sent'[no] = sent[no]
      /\ \A no \in 1..Len(sent) :
           sent[no].issued \in Nat /\ sent[no].id \in Ids /\ sent[no].kind \in {"alert", "cancel"}
      /\ \A k \in DOMAIN handled : handled[k] \in 1..Len(sent)
      /\ \A id \in Ids : memory[id] \in 0..Len(sent)
      /\ nonces \subseteq 1..Len(sent) /\ memory \in [Ids -> 0..Len(sent)]
      /\ handled \in Seq(1..Len(sent))
  <2>1. now' \in Nat /\ Len(sent') \in Nat
    BY MessagesKept, BoundsAreNats
  <2> QED
    BY <2>1, MessagesKept, ClientFacts, BoundsAreNats DEF TypeOK
<1>1. CASE UNCHANGED gate
  <2>0. nonces' = nonces /\ memory' = memory /\ handled' = handled
    BY <1>1 DEF gate
  <2>1. 1..Len(sent) \subseteq 1..Len(sent') /\ 0..Len(sent) \subseteq 0..Len(sent')
    BY <1>0
  <2>2. handled' \in Seq(1..Len(sent'))
    BY <1>0, <2>0, <2>1, SeqMonotonic
  <2>3. ASSUME NEW id \in Ids, memory'[id] # 0 PROVE sent'[memory'[id]].id = id
    BY <1>0, <2>0, <2>3 DEF ActedOn
  <2>4. ASSUME NEW k \in DOMAIN handled', handled'[k] # 0,
               now' - sent'[handled'[k]].issued <= MaxSkew
        PROVE  /\ handled'[k] \in nonces'
               /\ sent'[handled'[k]].kind = "alert" =>
                    /\ memory'[sent'[handled'[k]].id] # 0
                    /\ sent'[handled'[k]].issued <= sent'[memory'[sent'[handled'[k]].id]].issued
    <3> DEFINE no == handled[k]
    <3>1. handled'[k] = no /\ no \in 1..Len(sent) /\ sent'[no] = sent[no] /\ k \in DOMAIN handled
      BY <1>0, <2>0
    <3>2. now - sent[no].issued <= MaxSkew
      <4>1. sent[no].issued \in Nat /\ now' - sent[no].issued <= MaxSkew
        BY <1>0, <2>4, <3>1
      <4>2. now \in Nat /\ now' \in Nat /\ now <= now' /\ MaxSkew \in Nat
        BY <1>0
      <4> QED
        BY <4>1, <4>2
    <3>3. Fresh(no)
      BY <3>1, <3>2 DEF Fresh
    <3>4. /\ no \in nonces
          /\ sent[no].kind = "alert" =>
               memory[sent[no].id] # 0 /\ sent[no].issued <= sent[memory[sent[no].id]].issued
      BY <3>1, <3>3 DEF ActedOn
    <3>5. ASSUME sent[no].kind = "alert"
          PROVE  sent'[memory[sent[no].id]] = sent[memory[sent[no].id]]
      BY <1>0, <3>1, <3>4, <3>5
    <3> QED
      BY <2>0, <3>1, <3>4, <3>5
  <2>5. ActedOn'
    BY <2>3, <2>4 DEF ActedOn, Fresh
  <2>6. ActedInOrder'
    <3>1. \A k \in DOMAIN handled : handled'[k] = handled[k] /\ sent'[handled[k]] = sent[handled[k]]
      BY <1>0, <2>0
    <3>2. ASSUME NEW i \in DOMAIN handled, NEW j \in DOMAIN handled, i < j
          PROVE  /\ handled'[i] # handled'[j]
                 /\ \/ sent'[handled'[i]].id # sent'[handled'[j]].id
                    \/ "cancel" \in {sent'[handled'[i]].kind, sent'[handled'[j]].kind}
                    \/ sent'[handled'[i]].issued < sent'[handled'[j]].issued
      BY <3>1, <3>2 DEF ActedInOrder
    <3> QED
      BY <2>0, <3>2 DEF ActedInOrder
  <2> QED
    BY <1>0, <2>0, <2>1, <2>2, <2>5, <2>6
<1>2. CASE ~UNCHANGED gate
  <2>1. PICK no \in 1..Len(sent) :
          Accepts(no) /\ Remember(no) /\ Present(no) /\ now' = now /\ sent' = sent
    BY <1>2, GateOpens
  <2>2. /\ Fresh(no) /\ no \notin nonces
        /\ nonces' = {n \in nonces \cup {no} : Fresh(n)}
        /\ \/ sent[no].kind = "cancel"
           \/ memory[sent[no].id] = 0
           \/ sent[no].issued > sent[memory[sent[no].id]].issued
        /\ memory' \in [Ids -> 0..Len(sent)]
        /\ \A id \in Ids :
             /\ sent[no].kind = "alert" /\ sent[no].id = id => memory'[id] = no
             /\ ~(sent[no].kind = "alert" /\ sent[no].id = id)
                  => memory'[id] = IF Fresh(memory[id]) THEN memory[id] ELSE 0
        /\ handled' = Append(handled, no)
    BY <2>1, RememberEffect
  <2>3. /\ handled' \in Seq(1..Len(sent))
        /\ DOMAIN handled = 1..Len(handled) /\ DOMAIN handled' = 1..(Len(handled) + 1)
        /\ Len(handled) \in Nat
        /\ \A k \in 1..Len(handled) : handled'[k] = handled[k]
        /\ handled'[Len(handled) + 1] = no
    BY <1>0, <2>2, AppendFacts
  <2>4. \A n : Fresh(n)' <=> Fresh(n)
    BY <2>1 DEF Fresh
  <2>5. ASSUME NEW id \in Ids, memory'[id] # 0 PROVE sent[memory'[id]].id = id
    BY <2>2, <2>5 DEF ActedOn
  \* An earlier alert of the same id was issued before this one.
  <2>6. ASSUME NEW k \in 1..Len(handled), sent[handled[k]].kind = "alert",
               sent[no].kind = "alert", sent[handled[k]].id = sent[no].id
        PROVE  sent[handled[k]].issued < sent[no].issued
    <3> DEFINE n == handled[k]
    <3>1. n \in 1..Len(sent) /\ sent[n].issued \in Nat /\ sent[no].issued \in Nat
      BY <1>0, <2>3
    <3>2. CASE Fresh(n)
      <4>1. memory[sent[n].id] # 0 /\ sent[n].issued <= sent[memory[sent[n].id]].issued
        BY <2>3, <2>6, <3>2 DEF ActedOn
      <4>2. memory[sent[n].id] \in 1..Len(sent)
        BY <1>0, <3>1, <4>1
      <4> DEFINE m == sent[memory[sent[n].id]].issued
      <4>3. sent[no].issued > m
        BY <2>2, <2>6, <4>1
      <4>4. m \in Nat /\ sent[n].issued <= m
        BY <1>0, <4>1, <4>2
      <4> HIDE DEF m
      <4>5. sent[n].issued < sent[no].issued
        BY <3>1, <4>3, <4>4
      <4> QED
        BY <4>5
    <3>3. CASE ~Fresh(n)
      <4>1. ~(sent[no].issued <= sent[n].issued)
        BY <2>2, <3>1, <3>3, FreshLonger
      <4> QED
        BY <3>1, <4>1
    <3> QED
      BY <3>2, <3>3
  <2>7. ASSUME NEW k \in 1..Len(handled) PROVE handled[k] # no
    BY <2>2, <2>3, <2>7 DEF ActedOn
  <2>8. ASSUME NEW k \in DOMAIN handled', Fresh(handled'[k])
        PROVE  /\ handled'[k] \in nonces'
               /\ sent[handled'[k]].kind = "alert" =>
                    /\ memory'[sent[handled'[k]].id] # 0
                    /\ sent[handled'[k]].issued <= sent[memory'[sent[handled'[k]].id]].issued
    <3>1. CASE k = Len(handled) + 1
      BY <1>0, <2>2, <2>3, <3>1
    <3>2. CASE k \in 1..Len(handled)
      <4> DEFINE n  == handled[k]
                 id == sent[n].id
      <4>1. /\ handled'[k] = n /\ n \in 1..Len(sent) /\ id \in Ids /\ Fresh(n)
            /\ sent[n].issued \in Nat /\ sent[no].issued \in Nat
        BY <1>0, <2>3, <2>8, <3>2
      <4>2. /\ n \in nonces
            /\ sent[n].kind = "alert" => memory[id] # 0 /\ sent[n].issued <= sent[memory[id]].issued
        BY <2>3, <3>2, <4>1 DEF ActedOn
      <4>3. n \in nonces'
        BY <2>2, <4>1, <4>2
      <4>4. ASSUME sent[n].kind = "alert"
            PROVE  memory'[id] # 0 /\ sent[n].issued <= sent[memory'[id]].issued
        <5>1. CASE sent[no].kind = "alert" /\ sent[no].id = id
          <6>1. memory'[id] = no
            BY <2>2, <4>1, <5>1
          <6>2. sent[n].issued < sent[no].issued
            BY <2>6, <3>2, <4>4, <5>1
          <6> QED
            BY <4>1, <6>1, <6>2
        <5>2. CASE ~(sent[no].kind = "alert" /\ sent[no].id = id)
          <6>1. memory[id] \in 1..Len(sent) /\ sent[memory[id]].issued \in Nat
            BY <1>0, <4>1, <4>2, <4>4
          <6>2. Fresh(memory[id])
            BY <4>1, <4>2, <4>4, <6>1, FreshLonger
          <6>3. memory'[id] = memory[id]
            BY <2>2, <4>1, <5>2, <6>2
          <6> QED
            BY <4>2, <4>4, <6>3
        <5> QED
          BY <5>1, <5>2
      <4> QED
        BY <4>1, <4>3, <4>4
    <3> QED
      BY <2>3, <3>1, <3>2
  <2>9. ActedOn'
    BY <2>1, <2>4, <2>5, <2>8 DEF ActedOn
  <2>10. ASSUME NEW i \in DOMAIN handled', NEW j \in DOMAIN handled', i < j
         PROVE  /\ handled'[i] # handled'[j]
                /\ \/ sent[handled'[i]].id # sent[handled'[j]].id
                   \/ "cancel" \in {sent[handled'[i]].kind, sent[handled'[j]].kind}
                   \/ sent[handled'[i]].issued < sent[handled'[j]].issued
    <3>1. i \in 1..Len(handled) /\ handled'[i] = handled[i] /\ handled[i] \in 1..Len(sent)
      BY <1>0, <2>3, <2>10
    <3>2. CASE j \in 1..Len(handled)
      BY <2>3, <2>10, <3>1, <3>2 DEF ActedInOrder
    <3>3. CASE j = Len(handled) + 1
      <4>1. handled'[j] = no
        BY <2>3, <3>3
      <4>2. sent[no].kind \in {"alert", "cancel"} /\ sent[handled[i]].kind \in {"alert", "cancel"}
        BY <1>0, <3>1
      <4> QED
        BY <2>6, <2>7, <3>1, <4>1, <4>2
    <3> QED
      BY <2>3, <3>2, <3>3
  <2>11. ActedInOrder'
    BY <2>1, <2>10 DEF ActedInOrder
  <2>12. nonces' \subseteq 1..Len(sent)
    BY <1>0, <2>2
  <2> QED
    BY <2>1, <2>2, <2>3, <2>9, <2>11, <2>12
<1> QED
  BY <1>1, <1>2

-----------------------------------------------------------------------------
(* The screen *)

LEMMA PushedFacts ==
  ASSUME TypeOK, OnceOnTop, NEW no \in 1..Len(sent), Fullscreen(no)
  PROVE  /\ Pushed(no) \in Seq(Entry)
         /\ \A j \in DOMAIN Pushed(no) :
              Pushed(no)[j].id = sent[no].id \/ \E k \in DOMAIN activeFs : Pushed(no)[j] = activeFs[k]
         /\ \A k \in DOMAIN activeFs : k \in DOMAIN Pushed(no) /\ Pushed(no)[k] = activeFs[k]
         /\ \A j, k \in DOMAIN Pushed(no) : Pushed(no)[j].id = Pushed(no)[k].id => j = k
<1> DEFINE e == EntryFor(no)
<1>1. e \in Entry /\ e.id = sent[no].id
  <2>1. sent[no].id \in Ids /\ sent[no].rank \in 2..3 /\ no \in Nat
    BY ClientFacts DEF Fullscreen
  <2> QED
    BY <2>1 DEF EntryFor, Entry
<1>2. activeFs \in Seq(Entry)
  BY DEF TypeOK
<1> HIDE DEF e
<1>3. CASE OnTop(sent[no].id)
  <2>1. Pushed(no) = activeFs
    BY <1>3 DEF Pushed
  <2> QED
    BY <1>2, <2>1 DEF OnceOnTop
<1>4. CASE ~OnTop(sent[no].id)
  <2>1. Pushed(no) = Append(activeFs, e)
    BY <1>4 DEF Pushed, e
  <2>2. \A k \in DOMAIN activeFs : activeFs[k].id # sent[no].id
    BY <1>4, OnTopFacts
  <2> DEFINE w == Append(activeFs, e)
  <2>3. /\ w \in Seq(Entry) /\ Len(activeFs) \in Nat
        /\ DOMAIN activeFs = 1..Len(activeFs) /\ DOMAIN w = 1..(Len(activeFs) + 1)
        /\ \A i \in 1..Len(activeFs) : w[i] = activeFs[i]
        /\ w[Len(activeFs) + 1] = e
    BY <1>1, <1>2, AppendFacts
  <2> HIDE DEF w
  <2>4. \A j \in DOMAIN w : j \in DOMAIN activeFs \/ j = Len(activeFs) + 1
    BY <2>3
  <2>5. \A j, k \in DOMAIN w : w[j].id = w[k].id => j = k
    BY <1>1, <2>2, <2>3, <2>4 DEF OnceOnTop
  <2>6. \A j \in DOMAIN w : w[j].id = sent[no].id \/ \E k \in DOMAIN activeFs : w[j] = activeFs[k]
    BY <1>1, <2>3, <2>4
  <2>7. \A k \in DOMAIN activeFs : k \in DOMAIN w /\ w[k] = activeFs[k]
    BY <2>3
  <2>8. Pushed(no) = w
    BY <2>1 DEF w
  <2> QED
    BY <2>3, <2>5, <2>6, <2>7, <2>8
<1> QED
  BY <1>3, <1>4

LEMMA ExtendEffect ==
  ASSUME TypeOK, NEW no \in 1..Len(sent), Extend(no)
  PROVE  /\ activeFs' \in Seq(Entry) /\ DOMAIN activeFs' = DOMAIN activeFs
         /\ \A i \in DOMAIN activeFs : activeFs'[i].id = activeFs[i].id
<1>1. activeFs \in Seq(Entry) /\ Len(activeFs) \in Nat /\ DOMAIN activeFs = 1..Len(activeFs)
  BY DEF TypeOK
<1>2. ASSUME NEW i \in DOMAIN activeFs
      PROVE  /\ (IF activeFs[i].id = sent[no].id
                   THEN [activeFs[i] EXCEPT !.no = no] ELSE activeFs[i]) \in Entry
             /\ (IF activeFs[i].id = sent[no].id
                   THEN [activeFs[i] EXCEPT !.no = no] ELSE activeFs[i]).id = activeFs[i].id
  <2>1. activeFs[i] \in Entry /\ no \in Nat
    BY <1>1
  <2> QED
    BY <2>1 DEF Entry
<1>3. activeFs' = [i \in DOMAIN activeFs |->
                    IF activeFs[i].id = sent[no].id
                      THEN [activeFs[i] EXCEPT !.no = no] ELSE activeFs[i]]
  BY DEF Extend
<1>4. activeFs' \in [1..Len(activeFs) -> Entry]
  BY <1>1, <1>2, <1>3
<1>5. activeFs' \in Seq(Entry)
  BY <1>1, <1>4, SeqDef
<1> QED
  BY <1>2, <1>3, <1>5

LEMMA FrontFacts ==
  ASSUME NEW S, NEW s \in Seq(S), s # << >>
  PROVE  /\ Front(s) \in Seq(S)
         /\ \A j \in DOMAIN Front(s) : j \in DOMAIN s /\ Front(s)[j] = s[j]
         /\ \A k \in DOMAIN s : k \in DOMAIN Front(s) \/ s[k] = Last(s)
<1>1. Len(s) \in Nat \ {0} /\ DOMAIN s = 1..Len(s)
  OBVIOUS
<1>2. /\ SubSeq(s, 1, Len(s) - 1) \in Seq(S)
      /\ Len(SubSeq(s, 1, Len(s) - 1)) = Len(s) - 1
      /\ \A j \in 1..(Len(s) - 1) : SubSeq(s, 1, Len(s) - 1)[j] = s[j]
  BY <1>1
<1>3. Front(s) = SubSeq(s, 1, Len(s) - 1) /\ Last(s) = s[Len(s)]
  BY DEF Front, Last
<1> HIDE DEF Front
<1>4. DOMAIN Front(s) = 1..(Len(s) - 1)
  BY <1>2, <1>3
<1>5. \A j \in DOMAIN Front(s) : j \in DOMAIN s /\ Front(s)[j] = s[j]
  BY <1>1, <1>2, <1>3, <1>4
<1>6. \A k \in DOMAIN s : k \in DOMAIN Front(s) \/ k = Len(s)
  BY <1>1, <1>4
<1> QED
  BY <1>2, <1>3, <1>5, <1>6

\* A message that was let through: a recall withdraws its alert, and an alert that
\* is not recalled is shown, as a new entry, a toast, or a longer window.
LEMMA PresentEffect ==
  ASSUME TypeOK, NEW no \in 1..Len(sent), Present(no)
  PROVE  LET id == sent[no].id IN
         \/ /\ cancelled' = cancelled \cup {id} /\ timers' = timers
            /\ activeFs' = FsWithout(id) /\ toasts' = ToastsWithout(id)
         \/ UNCHANGED <<cancelled, screen>>
         \/ /\ cancelled' = cancelled /\ id \notin cancelled
            /\ timers' = timers \/ timers' = timers \cup {[id |-> id, at |-> Until(no)]}
            /\ \/ toasts' = toasts \cup {no} /\ activeFs' = activeFs
               \/ toasts' = toasts /\ Fullscreen(no) /\ activeFs' = Pushed(no)
               \/ toasts' = toasts /\ Extend(no)
<1> DEFINE id == sent[no].id
<1>1. CASE sent[no].kind = "cancel" /\ Withdraw(id)
  BY <1>1 DEF Withdraw
<1>2. CASE UNCHANGED <<cancelled, screen>>
  BY <1>2
<1>3. CASE id \notin cancelled /\ cancelled' = cancelled
             /\ IF IsRenewal(no) /\ OnTop(id) THEN Extend(no) ELSE Render(no)
  <2>1. CASE Extend(no)
    BY <1>3, <2>1 DEF Extend, Scheduled
  <2>2. CASE Render(no)
    <3>1. timers' = timers \/ timers' = timers \cup {[id |-> id, at |-> Until(no)]}
      BY <2>2 DEF Render, Scheduled
    <3>2. \/ toasts' = toasts \cup {no} /\ activeFs' = activeFs
          \/ toasts' = toasts /\ Fullscreen(no) /\ activeFs' = Pushed(no)
      BY <2>2 DEF Render
    <3> QED
      BY <1>3, <3>1, <3>2
  <2> QED
    BY <1>3, <2>1, <2>2
<1> QED
  BY <1>1, <1>2, <1>3 DEF Present

\* The fullscreen list after a step: an id once, none that is recalled, and what is
\* gone is gone for a reason.
LEMMA FullscreenStep ==
  ASSUME TypeOK, SentBefore, OnceOnTop, TimersOK, RecalledGone, [Next]_vars
  PROVE  /\ activeFs' \in Seq(Entry) /\ OnceOnTop' /\ cancelled' \subseteq Ids
         /\ \A j \in DOMAIN activeFs' : activeFs'[j].id \notin cancelled'
         /\ \A k \in DOMAIN activeFs :
              \/ \E j \in DOMAIN activeFs' : activeFs'[j].id = activeFs[k].id
              \/ activeFs[k] = Last(activeFs) /\ count'.presses # count.presses
              \/ activeFs[k].id \in cancelled'
              \/ RunOut(activeFs[k].id)
              \/ slot' = 0 /\ slot # 0
              \/ count'.reloads # count.reloads
<1> DEFINE Gone(id) ==
             \/ id \in cancelled'
             \/ RunOut(id)
             \/ slot' = 0 /\ slot # 0
             \/ count'.reloads # count.reloads
           Sound ==
             /\ activeFs' \in Seq(Entry) /\ cancelled' \subseteq Ids
             /\ \A i, j \in DOMAIN activeFs' : activeFs'[i].id = activeFs'[j].id => i = j
             /\ \A j \in DOMAIN activeFs' : activeFs'[j].id \notin cancelled'
             /\ \A k \in DOMAIN activeFs :
                  \/ \E j \in DOMAIN activeFs' : activeFs'[j].id = activeFs[k].id
                  \/ activeFs[k] = Last(activeFs) /\ count'.presses # count.presses
                  \/ Gone(activeFs[k].id)
<1> SUFFICES Sound
  BY DEF OnceOnTop
<1>0. /\ activeFs \in Seq(Entry) /\ cancelled \subseteq Ids
      /\ \A i, j \in DOMAIN activeFs : activeFs[i].id = activeFs[j].id => i = j
      /\ \A k \in DOMAIN activeFs : activeFs[k].id \notin cancelled
  BY OnTopFacts DEF TypeOK, OnceOnTop, RecalledGone
<1>1. CASE activeFs' = activeFs /\ cancelled' = cancelled
  BY <1>0, <1>1
<1>2. CASE /\ activeFs' = << >> /\ cancelled' \subseteq cancelled
           /\ (slot' = 0 /\ slot # 0) \/ count'.reloads # count.reloads
  BY <1>0, <1>2
<1>3. ASSUME NEW id, activeFs' = FsWithout(id), cancelled' \subseteq Ids,
             cancelled' \subseteq cancelled \cup {id}, id \in cancelled' \/ RunOut(id)
      PROVE  Sound
  <2>1. /\ FsWithout(id) \in Seq(Entry)
        /\ \A j \in DOMAIN FsWithout(id) :
             /\ FsWithout(id)[j].id # id
             /\ \E k \in DOMAIN activeFs : FsWithout(id)[j] = activeFs[k]
        /\ \A k \in DOMAIN activeFs : activeFs[k].id # id =>
             \E j \in DOMAIN FsWithout(id) : FsWithout(id)[j] = activeFs[k]
        /\ \A j, k \in DOMAIN FsWithout(id) :
             FsWithout(id)[j].id = FsWithout(id)[k].id => j = k
    BY <1>0, FsWithoutFacts
  <2>2. \A j \in DOMAIN activeFs' : activeFs'[j].id \notin cancelled'
    BY <1>0, <1>3, <2>1
  <2>3. ASSUME NEW k \in DOMAIN activeFs
        PROVE  \/ \E j \in DOMAIN activeFs' : activeFs'[j].id = activeFs[k].id
               \/ Gone(activeFs[k].id)
    BY <1>3, <2>1
  <2> QED
    BY <1>3, <2>1, <2>2, <2>3
<1>4. ASSUME NEW no \in 1..MaxSent, Handle(no) PROVE Sound
  <2>1. no \in 1..Len(sent)
    BY <1>4, HandleEffect
  <2>2. CASE UNCHANGED <<gate, cancelled, screen>>
    BY <1>1, <2>2 DEF screen
  <2>3. CASE Accepts(no) /\ Remember(no) /\ Present(no)
    <3> DEFINE id == sent[no].id
    <3>1. id \in Ids
      BY <2>1, ClientFacts
    <3>2. CASE cancelled' = cancelled \cup {id} /\ activeFs' = FsWithout(id)
      BY <1>0, <1>3, <3>1, <3>2
    <3>3. CASE UNCHANGED <<cancelled, screen>>
      BY <1>1, <3>3 DEF screen
    <3>4. CASE cancelled' = cancelled /\ id \notin cancelled /\ activeFs' = activeFs
      BY <1>1, <3>4
    <3>5. CASE cancelled' = cancelled /\ id \notin cancelled /\ Fullscreen(no) /\ activeFs' = Pushed(no)
      <4>1. /\ Pushed(no) \in Seq(Entry)
            /\ \A j \in DOMAIN Pushed(no) :
                 Pushed(no)[j].id = id \/ \E k \in DOMAIN activeFs : Pushed(no)[j] = activeFs[k]
            /\ \A k \in DOMAIN activeFs : k \in DOMAIN Pushed(no) /\ Pushed(no)[k] = activeFs[k]
            /\ \A j, k \in DOMAIN Pushed(no) : Pushed(no)[j].id = Pushed(no)[k].id => j = k
        BY <2>1, <3>5, PushedFacts
      <4> QED
        BY <1>0, <3>5, <4>1
    <3>6. CASE cancelled' = cancelled /\ Extend(no)
      BY <1>0, <2>1, <3>6, ExtendEffect
    <3> QED
      BY <2>1, <2>3, <3>2, <3>3, <3>4, <3>5, <3>6, PresentEffect
  <2> QED
    BY <1>4, <2>2, <2>3, HandleEffect
<1>5. ASSUME NEW t \in timers, Fire(t) PROVE Sound
  <2>1. activeFs' = FsWithout(t.id) /\ cancelled' = cancelled /\ now >= t.at
    BY <1>5 DEF Fire
  <2>2. PICK k \in DOMAIN handled : sent[handled[k]].id = t.id /\ Until(handled[k]) = t.at
    BY DEF TimersOK
  <2>3. RunOut(t.id)
    BY <2>1, <2>2 DEF RunOut, Range
  <2> QED
    BY <1>0, <1>3, <2>1, <2>3
<1>6. CASE Confirm
  <2>1. /\ activeFs # << >> /\ activeFs' = Front(activeFs) /\ cancelled' = cancelled
        /\ count' = [count EXCEPT !.presses = @ + 1]
    BY <1>6 DEF Confirm
  <2>2. count'.presses # count.presses
    <3>1. count.presses \in 0..MaxPresses
      BY DEF TypeOK
    <3>2. count'.presses = count.presses + 1
      BY <2>1 DEF TypeOK
    <3> QED
      BY <3>1, <3>2
  <2>3. /\ Front(activeFs) \in Seq(Entry)
        /\ \A j \in DOMAIN Front(activeFs) : j \in DOMAIN activeFs /\ Front(activeFs)[j] = activeFs[j]
        /\ \A k \in DOMAIN activeFs : k \in DOMAIN Front(activeFs) \/ activeFs[k] = Last(activeFs)
    BY <1>0, <2>1, FrontFacts
  <2> QED
    BY <1>0, <2>1, <2>2, <2>3
<1>7. CASE Issue \/ Recall
  <2>1. /\ cancelled' = cancelled
        /\ activeFs' = activeFs \/ (activeFs' = << >> /\ slot # 0 /\ slot' = 0)
    BY <1>7, ServerEffect
  <2> QED
    BY <1>1, <1>2, <2>1
<1>8. CASE SlotExpired
  <2>1. /\ cancelled' = cancelled /\ slot # 0 /\ slot' = 0
        /\ activeFs' = activeFs \/ activeFs' = << >>
    BY <1>8 DEF SlotExpired, SlotEmptied
  <2> QED
    BY <1>1, <1>2, <2>1
<1>9. CASE Reload
  <2>1. activeFs' = << >> /\ cancelled' = {} /\ count' = [count EXCEPT !.reloads = @ + 1]
    BY <1>9 DEF Reload
  <2>2. count'.reloads # count.reloads
    <3>1. count.reloads \in 0..MaxReloads
      BY DEF TypeOK
    <3>2. count'.reloads = count.reloads + 1
      BY <2>1 DEF TypeOK
    <3> QED
      BY <3>1, <3>2
  <2> QED
    BY <1>2, <2>1, <2>2
<1>10. CASE Connect \/ Disconnect \/ Tick \/ UNCHANGED vars
  BY <1>1, <1>10 DEF Connect, Disconnect, Tick, vars, screen
<1> QED
  BY <1>4, <1>5, <1>6, <1>7, <1>8, <1>9, <1>10 DEF Next, Server, Page

\* Toasts and timers after a step: no toast of a recalled alert, and every timer
\* stands for something acted on.
LEMMA ToastStep ==
  ASSUME TypeOK, SentBefore, OnceOnTop, ActedOn, ActedInOrder, TimersOK, RecalledGone,
         [Next]_vars
  PROVE  /\ toasts' \subseteq 1..Len(sent') /\ timers' \subseteq Timer
         /\ \A no \in toasts' : sent'[no].id \notin cancelled'
         /\ TimersOK'
<1>0. /\ toasts \subseteq 1..Len(sent) /\ timers \subseteq Timer
      /\ \A no \in toasts : sent[no].id \notin cancelled
      /\ Len(sent) \in Nat
      /\ \A k \in DOMAIN handled : handled[k] \in 1..Len(sent)
  BY ClientFacts DEF TypeOK, RecalledGone, ToastsOf
<1>1. /\ 1..Len(sent) \subseteq 1..Len(sent')
      /\ \A no \in 1..Len(sent) : sent'[no] = sent[no]
      /\ \A k \in DOMAIN handled : k \in DOMAIN handled' /\ handled'[k] = handled[k]
  <2>1. Len(sent) <= Len(sent') /\ Len(sent') \in Nat
    BY MessagesKept
  <2> QED
    BY <1>0, <2>1, MessagesKept, GateStep
<1>2. ASSUME NEW t \in timers
      PROVE  \E k \in DOMAIN handled' :
               sent'[handled'[k]].id = t.id /\ sent'[handled'[k]].issued + sent'[handled'[k]].ttl = t.at
  <2>1. PICK k \in DOMAIN handled : sent[handled[k]].id = t.id /\ Until(handled[k]) = t.at
    BY DEF TimersOK
  <2>2. sent'[handled'[k]] = sent[handled[k]] /\ k \in DOMAIN handled'
    BY <1>0, <1>1
  <2> QED
    BY <2>1, <2>2 DEF Until
<1>3. CASE toasts' \subseteq toasts /\ timers' \subseteq timers /\ cancelled' \subseteq cancelled
  <2>1. \A no \in toasts' : sent'[no].id \notin cancelled'
    BY <1>0, <1>1, <1>3
  <2> QED
    BY <1>0, <1>1, <1>2, <1>3, <2>1 DEF TimersOK, Until
<1>4. ASSUME NEW id, cancelled' \subseteq cancelled \cup {id}, timers' \subseteq timers,
             toasts' = ToastsWithout(id)
      PROVE  /\ toasts' \subseteq 1..Len(sent') /\ timers' \subseteq Timer
             /\ \A no \in toasts' : sent'[no].id \notin cancelled'
             /\ TimersOK'
  <2>1. \A no \in toasts' : no \in toasts /\ sent[no].id # id
    BY <1>4 DEF ToastsWithout, ToastsOf
  <2>2. \A no \in toasts' : sent'[no].id \notin cancelled'
    BY <1>0, <1>1, <1>4, <2>1
  <2> QED
    BY <1>0, <1>1, <1>2, <1>4, <2>1, <2>2 DEF TimersOK, Until
<1>5. ASSUME NEW no \in 1..MaxSent, Handle(no)
      PROVE  /\ toasts' \subseteq 1..Len(sent') /\ timers' \subseteq Timer
             /\ \A n \in toasts' : sent'[n].id \notin cancelled'
             /\ TimersOK'
  <2>1. no \in 1..Len(sent) /\ sent' = sent
    BY <1>5, HandleEffect
  <2>2. CASE UNCHANGED <<gate, cancelled, screen>>
    BY <1>3, <2>2 DEF screen
  <2>3. CASE Accepts(no) /\ Remember(no) /\ Present(no)
    <3> DEFINE id == sent[no].id
               t  == [id |-> id, at |-> Until(no)]
    <3>1. CASE /\ cancelled' = cancelled \cup {id} /\ timers' = timers
               /\ toasts' = ToastsWithout(id)
      BY <1>4, <3>1
    <3>2. CASE UNCHANGED <<cancelled, screen>>
      BY <1>3, <3>2 DEF screen
    <3>3. CASE /\ cancelled' = cancelled /\ id \notin cancelled
               /\ timers' = timers \/ timers' = timers \cup {t}
               /\ toasts' = toasts \cup {no} \/ toasts' = toasts
      <4>1. t \in Timer
        BY <2>1, ClientFacts DEF Timer
      <4>2. \E k \in DOMAIN handled' :
              sent'[handled'[k]].id = t.id /\ sent'[handled'[k]].issued + sent'[handled'[k]].ttl = t.at
        <5>1. handled \in Seq(1..Len(sent)) /\ handled' = Append(handled, no)
          BY <2>3 DEF TypeOK, Remember
        <5>2. Len(handled) + 1 \in DOMAIN handled' /\ handled'[Len(handled) + 1] = no
          BY <2>1, <5>1, AppendFacts
        <5> QED
          BY <2>1, <5>2 DEF Until
      <4>3. \A n \in toasts' : sent'[n].id \notin cancelled'
        BY <1>0, <2>1, <3>3
      <4>4. toasts' \subseteq 1..Len(sent') /\ timers' \subseteq Timer
        BY <1>0, <2>1, <3>3, <4>1
      <4>5. ASSUME NEW u \in timers'
            PROVE  \E k \in DOMAIN handled' :
                     sent'[handled'[k]].id = u.id /\ sent'[handled'[k]].issued + sent'[handled'[k]].ttl = u.at
        BY <1>2, <3>3, <4>2
      <4> HIDE DEF t
      <4> QED
        BY <4>3, <4>4, <4>5 DEF TimersOK, Until
    <3>4. ASSUME Extend(no) PROVE toasts' = toasts
      BY <3>4 DEF Extend
    <3> QED
      BY <2>1, <2>3, <3>1, <3>2, <3>3, <3>4, PresentEffect
  <2> QED
    BY <1>5, <2>2, <2>3, HandleEffect
<1>6. ASSUME NEW t \in timers, Fire(t)
      PROVE  /\ toasts' = ToastsWithout(t.id) /\ timers' \subseteq timers /\ cancelled' = cancelled
  BY <1>6 DEF Fire
<1>7. CASE Server \/ Confirm \/ Connect \/ Disconnect \/ Tick \/ UNCHANGED vars
  BY <1>3, <1>7 DEF Server, Issue, Recall, SlotExpired, Confirm, Connect, Disconnect, Tick,
     vars, screen
<1>8. CASE Reload
  BY <1>3, <1>8 DEF Reload
<1> QED
  BY <1>4, <1>5, <1>6, <1>7, <1>8 DEF Next, Page

-----------------------------------------------------------------------------
(* What was sent before a recall stays away *)

\* Publishing leaves in the slot what is newer than every recall of its id.
LEMMA SlotLaterStep ==
  ASSUME TypeOK, SlotIsLater, [Next]_vars
  PROVE  SlotIsLater'
<1>0. sent \in Seq(Message) /\ Len(sent) \in Nat /\ slot \in 0..Len(sent)
  BY DEF TypeOK
<1>1. CASE Issue \/ Recall
  <2>1. PICK m \in Message :
          /\ sent' = Append(sent, m)
          /\ \/ slot' = 0
             \/ slot' = Len(sent) + 1 /\ m.kind = "alert"
             \/ slot' = slot /\ (m.kind = "cancel" => slot = 0 \/ sent[slot].id # m.id)
    <3>1. CASE Issue
      <4>1. PICK id \in Ids, offer \in Offers :
              /\ sent' = Append(sent, [kind |-> "alert", id |-> id, rank |-> offer[1],
                                       issued |-> now, ttl |-> offer[2]])
              /\ slot' = Len(sent) + 1 \/ slot' = slot
        BY <3>1 DEF Issue
      <4> DEFINE m == [kind |-> "alert", id |-> id, rank |-> offer[1], issued |-> now, ttl |-> offer[2]]
      <4>2. m \in Message /\ m.kind = "alert"
        BY BoundsAreNats, ClientFacts DEF Message
      <4> HIDE DEF m
      <4>3. sent' = Append(sent, m)
        BY <4>1 DEF m
      <4> QED
        BY <4>1, <4>2, <4>3
    <3>2. CASE Recall
      <4>1. PICK id \in Ids :
              /\ sent' = Append(sent, [kind |-> "cancel", id |-> id, rank |-> 0,
                                       issued |-> now, ttl |-> MaxSkew])
              /\ slot' = 0 \/ (slot' = slot /\ (slot = 0 \/ sent[slot].id # id))
        BY <3>2 DEF Recall, SlotEmptied
      <4> DEFINE m == [kind |-> "cancel", id |-> id, rank |-> 0, issued |-> now, ttl |-> MaxSkew]
      <4>2. m \in Message /\ m.id = id
        BY BoundsAreNats, ClientFacts DEF Message
      <4> HIDE DEF m
      <4>3. sent' = Append(sent, m)
        BY <4>1 DEF m
      <4> QED
        BY <4>1, <4>2, <4>3
    <3> QED
      BY <1>1, <3>1, <3>2
  <2>2. /\ Len(sent') = Len(sent) + 1
        /\ \A n \in 1..Len(sent) : sent'[n] = sent[n]
        /\ sent'[Len(sent) + 1] = m
    BY <1>0, <2>1, AppendFacts
  <2> SUFFICES ASSUME slot' # 0, NEW c \in 1..Len(sent'),
                      sent'[c].kind = "cancel", sent'[c].id = sent'[slot'].id
               PROVE  c < slot'
    BY DEF SlotIsLater
  <2>3. c \in 1..Len(sent) \/ c = Len(sent) + 1
    BY <1>0, <2>2
  <2>4. CASE slot' = Len(sent) + 1 /\ m.kind = "alert"
    <3>1. c # Len(sent) + 1
      BY <2>2, <2>4
    <3> QED
      BY <1>0, <2>3, <2>4, <3>1
  <2>5. CASE slot' = slot /\ (m.kind = "cancel" => slot = 0 \/ sent[slot].id # m.id)
    <3>1. slot \in 1..Len(sent) /\ sent'[slot'] = sent[slot]
      BY <1>0, <2>2, <2>5
    <3>2. c # Len(sent) + 1
      BY <2>2, <2>5, <3>1
    <3>3. sent[c].kind = "cancel" /\ sent[c].id = sent[slot].id /\ c \in 1..Len(sent)
      BY <2>2, <2>3, <3>1, <3>2
    <3> QED
      BY <2>5, <3>1, <3>3 DEF SlotIsLater
  <2> QED
    BY <2>1, <2>4, <2>5
<1>2. CASE sent' = sent /\ slot' \in {0, slot}
  BY <1>2 DEF SlotIsLater
<1>3. Next /\ ~(Issue \/ Recall) => sent' = sent /\ slot' \in {0, slot}
  BY DEF Next, Server, Page, SlotExpired, SlotEmptied, Handle, Fire, Confirm, Connect, Disconnect,
     Reload, Tick, broker
<1> QED
  BY <1>1, <1>2, <1>3 DEF vars, broker

\* What becomes outdated in a step does so because the page acts on its recall.
LEMMA OutdatedStep ==
  ASSUME TypeOK, SentBefore, [Next]_vars, NEW no \in 1..Len(sent), Outdated(no)'
  PROVE  \/ Outdated(no)
         \/ /\ sent[no].id \in cancelled'
            /\ toasts' = ToastsWithout(sent[no].id) /\ activeFs' = FsWithout(sent[no].id)
<1>0. /\ Len(sent) \in Nat
      /\ \A k \in DOMAIN handled : handled[k] \in 1..Len(sent)
      /\ \A n \in 1..Len(sent) : sent'[n] = sent[n]
  BY ClientFacts, MessagesKept
<1>1. CASE handled' = handled
  BY <1>0, <1>1 DEF Outdated
<1>2. ASSUME NEW n \in 1..MaxSent, Handle(n), Remember(n), Present(n)
      PROVE  \/ Outdated(no)
             \/ /\ sent[no].id \in cancelled'
                /\ toasts' = ToastsWithout(sent[no].id) /\ activeFs' = FsWithout(sent[no].id)
  <2>1. n \in 1..Len(sent) /\ sent' = sent
    BY <1>2, HandleEffect
  <2>2. handled \in Seq(1..Len(sent)) /\ handled' = Append(handled, n)
    BY <1>2 DEF TypeOK, Remember
  <2>3. /\ DOMAIN handled = 1..Len(handled) /\ DOMAIN handled' = 1..(Len(handled) + 1)
        /\ \A k \in 1..Len(handled) : handled'[k] = handled[k]
        /\ handled'[Len(handled) + 1] = n /\ Len(handled) \in Nat
    BY <2>1, <2>2, AppendFacts
  <2>4. PICK k \in DOMAIN handled' :
          sent[handled'[k]].kind = "cancel" /\ sent[handled'[k]].id = sent[no].id /\ no <= handled'[k]
    BY <2>1 DEF Outdated
  <2>5. CASE k \in DOMAIN handled
    BY <2>3, <2>4, <2>5 DEF Outdated
  <2>6. CASE k = Len(handled) + 1
    <3>1. sent[n].kind = "cancel" /\ sent[n].id = sent[no].id
      BY <2>3, <2>4, <2>6
    <3>2. Withdraw(sent[n].id)
      BY <1>2, <3>1 DEF Present
    <3> QED
      BY <3>1, <3>2 DEF Withdraw
  <2> QED
    BY <2>3, <2>5, <2>6
<1>3. ASSUME NEW n \in 1..MaxSent, Handle(n)
      PROVE  handled' = handled \/ (Remember(n) /\ Present(n))
  BY <1>3 DEF Handle, gate
<1>4. Next => handled' = handled \/ \E n \in 1..MaxSent : Handle(n)
  BY DEF Next, Server, Page, Issue, Recall, SlotExpired, Fire, Confirm, Connect, Disconnect,
     Reload, Tick, gate
<1> QED
  BY <1>1, <1>2, <1>3, <1>4 DEF vars, gate

\* What is new on its way to the page is newer than every recall of its id.
LEMMA PoolLaterStep ==
  ASSUME TypeOK, SentBefore, SlotIsLater, PoolIsLater, [Next]_vars
  PROVE  PoolIsLater'
<1>0. /\ Len(sent) \in Nat /\ Len(sent) <= MaxSent /\ MaxSent \in Nat
      /\ slot \in 0..Len(sent) /\ pool \in [1..MaxSent -> Nat]
      /\ \A k \in DOMAIN handled : handled[k] \in 1..Len(sent)
      /\ \A n \in 1..Len(sent) : sent'[n] = sent[n]
  BY ClientFacts, MessagesKept, BoundsAreNats DEF TypeOK
<1> SUFFICES ASSUME NEW no \in 1..Len(sent'), pool'[no] > 0, Outdated(no)'
             PROVE  sent'[no].id \in cancelled'
  BY DEF PoolIsLater
\* Kept: the message was on its way before, and ids are only added to cancelled.
<1>1. ASSUME no \in 1..Len(sent), pool[no] > 0, cancelled \subseteq cancelled'
      PROVE  sent'[no].id \in cancelled'
  <2>1. CASE Outdated(no)
    BY <1>0, <1>1, <2>1 DEF PoolIsLater
  <2>2. CASE sent[no].id \in cancelled'
    BY <1>0, <1>1, <2>2
  <2> QED
    BY <1>1, <2>1, <2>2, OutdatedStep
<1>2. CASE Issue \/ Recall
  <2>1. /\ Len(sent') = Len(sent) + 1 /\ cancelled' = cancelled /\ handled' = handled
        /\ pool'[no] > 0 => pool[no] > 0 \/ no = Len(sent) + 1
    <3>1. no \in 1..MaxSent
      BY <1>0, <1>2, ServerEffect
    <3> QED
      BY <1>2, <3>1, ServerEffect DEF gate
  <2>2. CASE no \in 1..Len(sent)
    <3>1. no # Len(sent) + 1
      BY <1>0, <2>2
    <3> QED
      BY <1>1, <2>1, <2>2, <3>1
  <2>3. CASE no = Len(sent) + 1
    <3>1. PICK k \in DOMAIN handled : no <= handled[k]
      BY <2>1 DEF Outdated
    <3>2. handled[k] \in 1..Len(sent)
      BY <1>0
    <3> QED
      BY <1>0, <2>3, <3>1, <3>2
  <2> QED
    BY <1>0, <2>1, <2>2, <2>3
<1>3. ASSUME NEW n \in 1..MaxSent, Handle(n) PROVE sent'[no].id \in cancelled'
  <2>1. /\ n \in 1..Len(sent) /\ sent' = sent
        /\ \A m \in 1..MaxSent : pool'[m] > 0 => pool[m] > 0
    BY <1>3, HandleEffect
  <2>2. no \in 1..Len(sent) /\ no \in 1..MaxSent
    BY <1>0, <2>1
  <2>3. cancelled \subseteq cancelled'
    BY <1>3 DEF Handle, Present, Withdraw
  <2> QED
    BY <1>1, <2>1, <2>2, <2>3
<1>4. CASE Connect
  <2>1. /\ sent' = sent /\ cancelled' = cancelled /\ handled' = handled
        /\ pool' = IF slot = 0 THEN pool ELSE [pool EXCEPT ![slot] = @ + 1]
    BY <1>4 DEF Connect, broker, gate
  <2>2. no \in 1..Len(sent) /\ no \in 1..MaxSent
    BY <1>0, <2>1
  <2>3. CASE no = slot /\ slot # 0
    <3>1. PICK k \in DOMAIN handled :
            sent[handled[k]].kind = "cancel" /\ sent[handled[k]].id = sent[no].id /\ no <= handled[k]
      BY <2>1 DEF Outdated
    <3>2. handled[k] \in 1..Len(sent)
      BY <1>0
    <3>3. handled[k] < slot
      BY <2>3, <3>1, <3>2 DEF SlotIsLater
    <3> QED
      BY <1>0, <2>3, <3>1, <3>2, <3>3
  <2>4. CASE ~(no = slot /\ slot # 0)
    <3>1. pool'[no] = pool[no]
      BY <1>0, <2>1, <2>2, <2>4
    <3> QED
      BY <1>1, <2>1, <2>2, <3>1
  <2> QED
    BY <2>3, <2>4
<1>5. CASE Reload
  <2>1. sent' = sent /\ pool' = [n \in 1..MaxSent |-> 0]
    BY <1>5 DEF Reload, broker
  <2>2. no \in 1..MaxSent
    BY <1>0, <2>1
  <2> QED
    BY <2>1, <2>2
<1>6. CASE sent' = sent /\ pool' = pool /\ cancelled' = cancelled
  BY <1>1, <1>6
<1>7. Next => \/ Issue \/ Recall \/ Connect \/ Reload
              \/ \E n \in 1..MaxSent : Handle(n)
              \/ sent' = sent /\ pool' = pool /\ cancelled' = cancelled
  BY DEF Next, Server, Page, SlotExpired, SlotEmptied, Fire, Confirm, Disconnect, Tick, broker
<1> QED
  BY <1>2, <1>3, <1>4, <1>5, <1>6, <1>7 DEF vars, broker

\* After a step, an entry is one there was before, or was made or renewed by the
\* alert that has just been let through.
LEMMA EntriesStep ==
  ASSUME TypeOK, SentBefore, OnceOnTop, [Next]_vars, NEW j \in DOMAIN activeFs'
  PROVE  \/ \E k \in DOMAIN activeFs : activeFs'[j] = activeFs[k]
         \/ \E n \in 1..MaxSent :
              /\ Handle(n) /\ n \in 1..Len(sent) /\ sent[n].id \notin cancelled
              /\ activeFs'[j].no = n /\ activeFs'[j].id = sent[n].id
<1>0. activeFs \in Seq(Entry)
  BY DEF TypeOK
<1>1. CASE activeFs' = activeFs \/ activeFs' = << >>
  BY <1>1
<1>2. ASSUME NEW id, activeFs' = FsWithout(id)
      PROVE  \E k \in DOMAIN activeFs : activeFs'[j] = activeFs[k]
  BY <1>0, <1>2, FsWithoutFacts
<1>3. ASSUME activeFs # << >>, activeFs' = Front(activeFs)
      PROVE  \E k \in DOMAIN activeFs : activeFs'[j] = activeFs[k]
  BY <1>0, <1>3, FrontFacts
<1>4. ASSUME NEW n \in 1..MaxSent, Handle(n)
      PROVE  \/ \E k \in DOMAIN activeFs : activeFs'[j] = activeFs[k]
             \/ /\ n \in 1..Len(sent) /\ sent[n].id \notin cancelled
                /\ activeFs'[j].no = n /\ activeFs'[j].id = sent[n].id
  <2>1. n \in 1..Len(sent)
    BY <1>4, HandleEffect
  <2>2. CASE UNCHANGED <<gate, cancelled, screen>>
    BY <1>1, <2>2 DEF screen
  <2>3. CASE Accepts(n) /\ Remember(n) /\ Present(n)
    <3> DEFINE id == sent[n].id
    <3>1. CASE activeFs' = FsWithout(id)
      BY <1>2, <3>1
    <3>2. CASE activeFs' = activeFs
      BY <1>1, <3>2
    <3>3. CASE id \notin cancelled /\ Fullscreen(n) /\ activeFs' = Pushed(n)
      <4>1. activeFs'[j] = EntryFor(n) \/ \E k \in DOMAIN activeFs : activeFs'[j] = activeFs[k]
        <5>1. CASE OnTop(id)
          BY <1>1, <3>3, <5>1 DEF Pushed
        <5>2. CASE ~OnTop(id)
          <6> DEFINE e == EntryFor(n)
          <6>1. sent[n].rank \in 2..3 /\ sent[n].id \in Ids /\ n \in Nat
            BY <2>1, <3>3, ClientFacts DEF Fullscreen
          <6>2. e \in Entry
            BY <6>1 DEF EntryFor, Entry
          <6>3. activeFs' = Append(activeFs, e)
            BY <3>3, <5>2 DEF Pushed
          <6> HIDE DEF e
          <6>4. activeFs'[j] = e \/ \E k \in DOMAIN activeFs : activeFs'[j] = activeFs[k]
            <7>1. /\ DOMAIN activeFs = 1..Len(activeFs) /\ DOMAIN activeFs' = 1..(Len(activeFs) + 1)
                  /\ \A i \in 1..Len(activeFs) : activeFs'[i] = activeFs[i]
                  /\ activeFs'[Len(activeFs) + 1] = e /\ Len(activeFs) \in Nat
              BY <1>0, <6>2, <6>3, AppendFacts
            <7>2. j \in 1..Len(activeFs) \/ j = Len(activeFs) + 1
              BY <7>1
            <7> QED
              BY <7>1, <7>2
          <6> QED
            BY <6>4 DEF e
        <5> QED
          BY <5>1, <5>2
      <4>2. EntryFor(n).no = n /\ EntryFor(n).id = sent[n].id
        BY DEF EntryFor
      <4> QED
        BY <2>1, <3>3, <4>1, <4>2
    <3>4. CASE id \notin cancelled /\ Extend(n)
      <4>1. activeFs' = [i \in DOMAIN activeFs |->
                           IF activeFs[i].id = id
                             THEN [activeFs[i] EXCEPT !.no = n] ELSE activeFs[i]]
        BY <3>4 DEF Extend
      <4>2. j \in DOMAIN activeFs /\ activeFs[j] \in Entry
        BY <1>0, <4>1
      <4>3. CASE activeFs[j].id = id
        <5>1. activeFs'[j] = [activeFs[j] EXCEPT !.no = n]
          BY <4>1, <4>2, <4>3
        <5>2. activeFs'[j].no = n /\ activeFs'[j].id = id
          BY <4>2, <4>3, <5>1 DEF Entry
        <5> QED
          BY <2>1, <3>4, <5>2
      <4>4. CASE activeFs[j].id # id
        BY <4>1, <4>2, <4>4
      <4> QED
        BY <4>3, <4>4
    <3>5. \/ activeFs' = FsWithout(id)
          \/ UNCHANGED <<cancelled, screen>>
          \/ id \notin cancelled /\ activeFs' = activeFs
          \/ id \notin cancelled /\ Fullscreen(n) /\ activeFs' = Pushed(n)
          \/ id \notin cancelled /\ Extend(n)
      BY <2>1, <2>3, PresentEffect
    <3>6. UNCHANGED <<cancelled, screen>> => activeFs' = activeFs
      BY DEF screen
    <3> QED
      BY <3>1, <3>2, <3>3, <3>4, <3>5, <3>6
  <2> QED
    BY <1>4, <2>2, <2>3, HandleEffect
<1>5. CASE Confirm
  BY <1>3, <1>5 DEF Confirm
<1>6. ASSUME NEW t \in timers, Fire(t)
      PROVE  \E k \in DOMAIN activeFs : activeFs'[j] = activeFs[k]
  <2>1. activeFs' = FsWithout(t.id)
    BY <1>6 DEF Fire
  <2> QED
    BY <1>2, <2>1
<1>7. CASE Issue \/ Recall
  BY <1>1, <1>7, ServerEffect
<1>8. CASE SlotExpired \/ Reload \/ Connect \/ Disconnect \/ Tick \/ UNCHANGED vars
  BY <1>1, <1>8 DEF SlotExpired, SlotEmptied, Reload, Connect, Disconnect, Tick, vars, screen
<1> QED
  BY <1>4, <1>5, <1>6, <1>7, <1>8 DEF Next, Server, Page

\* The same of the toasts.
LEMMA ToastsStep ==
  ASSUME TypeOK, SentBefore, [Next]_vars, NEW n \in toasts'
  PROVE  n \in toasts \/ (n \in 1..MaxSent /\ Handle(n) /\ sent[n].id \notin cancelled)
<1>1. ASSUME NEW no \in 1..MaxSent, Handle(no)
      PROVE  n \in toasts \/ (n = no /\ sent[n].id \notin cancelled)
  <2>1. no \in 1..Len(sent)
    BY <1>1, HandleEffect
  <2>2. CASE UNCHANGED <<gate, cancelled, screen>>
    BY <2>2 DEF screen
  <2>3. CASE Accepts(no) /\ Remember(no) /\ Present(no)
    <3>1. CASE toasts' = ToastsWithout(sent[no].id)
      BY <3>1 DEF ToastsWithout
    <3>2. CASE toasts' = toasts
      BY <3>2
    <3>3. CASE sent[no].id \notin cancelled /\ toasts' = toasts \cup {no}
      BY <3>3
    <3> QED
      BY <2>1, <2>3, <3>1, <3>2, <3>3, PresentEffect DEF screen
  <2> QED
    BY <1>1, <2>2, <2>3, HandleEffect
<1>2. (\E no \in 1..MaxSent : Handle(no)) \/ toasts' \subseteq toasts
  BY DEF Next, Server, Page, Issue, Recall, SlotExpired, Fire, Confirm, Connect, Disconnect,
     Reload, Tick, screen, vars, ToastsWithout
<1> QED
  BY <1>1, <1>2

\* Nothing that goes back to before a recall is on screen after a step.
LEMMA ShownLaterStep ==
  ASSUME TypeOK, SentBefore, OnceOnTop, PoolIsLater, EntriesOK, ShownIsLater, [Next]_vars
  PROVE  EntriesOK' /\ ShownIsLater'
<1>0. /\ Len(sent) \in Nat /\ Len(sent) <= Len(sent') /\ Len(sent') \in Nat
      /\ \A n \in 1..Len(sent) : sent'[n] = sent[n]
      /\ toasts \subseteq 1..Len(sent)
      /\ pool \in [1..MaxSent -> Nat] /\ activeFs \in Seq(Entry)
  <2>1. /\ sent' \in Seq(Message) /\ Len(sent) <= Len(sent')
        /\ \A n \in 1..Len(sent) : sent'[n] = sent[n]
    BY MessagesKept
  <2>2. Len(sent') \in Nat
    BY <2>1
  <2> QED
    BY <2>1, <2>2 DEF TypeOK
\* A message that is presented now is not outdated.
<1>1. ASSUME NEW n \in 1..MaxSent, Handle(n), sent[n].id \notin cancelled
      PROVE  n \in 1..Len(sent) /\ ~Outdated(n)
  <2>1. n \in 1..Len(sent) /\ pool[n] > 0
    BY <1>1, HandleEffect DEF Handle
  <2> QED
    BY <1>1, <2>1 DEF PoolIsLater
<1>2. ASSUME NEW j \in DOMAIN activeFs'
      PROVE  /\ activeFs'[j].no \in 1..Len(sent')
             /\ sent'[activeFs'[j].no].id = activeFs'[j].id
             /\ \A n : n = activeFs'[j].no => ~Outdated(n)'
  <2> DEFINE no == activeFs'[j].no
  <2>1. no \in 1..Len(sent) /\ sent[no].id = activeFs'[j].id /\ ~Outdated(no)
    <3>1. CASE \E k \in DOMAIN activeFs : activeFs'[j] = activeFs[k]
      <4>1. PICK k \in DOMAIN activeFs : activeFs'[j] = activeFs[k]
        BY <3>1
      <4>2. activeFs[k].no \in 1..Len(sent) /\ sent[activeFs[k].no].id = activeFs[k].id
        BY DEF EntriesOK
      <4>3. activeFs[k].no \in Shown
        BY DEF Shown, Range
      <4> QED
        BY <4>1, <4>2, <4>3 DEF ShownIsLater
    <3>2. ASSUME NEW n \in 1..MaxSent, Handle(n), sent[n].id \notin cancelled,
                 activeFs'[j].no = n, activeFs'[j].id = sent[n].id
          PROVE  no \in 1..Len(sent) /\ sent[no].id = activeFs'[j].id /\ ~Outdated(no)
      BY <1>1, <3>2
    <3> QED
      BY <3>1, <3>2, EntriesStep
  <2>2. ASSUME NEW n \in 1..Len(sent), n = no, Outdated(n)' PROVE FALSE
    <3>1. activeFs' = FsWithout(activeFs'[j].id)
      BY <2>1, <2>2, OutdatedStep
    <3> DEFINE id == activeFs'[j].id
    <3>2. FsWithout(id)[j].id # id
      BY <1>0, <3>1, FsWithoutFacts
    <3> QED
      BY <3>1, <3>2
  <2> QED
    BY <1>0, <2>1, <2>2
<1>3. ASSUME NEW n \in toasts' PROVE ~Outdated(n)'
  <2>1. n \in 1..Len(sent) /\ ~Outdated(n)
    <3>1. CASE n \in toasts
      BY <1>0, <3>1 DEF ShownIsLater, Shown
    <3>2. CASE n \in 1..MaxSent /\ Handle(n) /\ sent[n].id \notin cancelled
      BY <1>1, <3>2
    <3> QED
      BY <3>1, <3>2, ToastsStep
  <2>2. ASSUME Outdated(n)' PROVE FALSE
    <3>1. toasts' = ToastsWithout(sent[n].id)
      BY <2>1, <2>2, OutdatedStep
    <3> QED
      BY <3>1, <2>1 DEF ToastsWithout, ToastsOf
  <2> QED
    BY <2>2
<1>4. EntriesOK'
  BY <1>2 DEF EntriesOK
<1>5. ShownIsLater'
  <2> SUFFICES ASSUME NEW n \in Shown' PROVE ~Outdated(n)'
    BY DEF ShownIsLater
  <2>1. CASE n \in toasts'
    BY <1>3, <2>1
  <2>2. CASE \E j \in DOMAIN activeFs' : n = activeFs'[j].no
    <3>1. PICK j \in DOMAIN activeFs' : n = activeFs'[j].no
      BY <2>2
    <3> QED
      BY <1>2, <3>1 DEF Outdated
  <2> QED
    BY <2>1, <2>2 DEF Shown, Range
<1> QED
  BY <1>4, <1>5

-----------------------------------------------------------------------------
(* The theorems *)

LEMMA ClientStarts == Init => ClientInv
<1> SUFFICES ASSUME Init PROVE ClientInv
  OBVIOUS
<1>1. TypeOK
  <2>1. << >> \in Seq(Message) /\ << >> \in Seq(1..0) /\ << >> \in Seq(Entry) /\ Len(<< >>) = 0
    OBVIOUS
  <2>2. count \in [connects : 0..MaxConnects, reloads : 0..MaxReloads, presses : 0..MaxPresses]
    BY BoundsAreNats DEF Init
  <2>3. now \in 0..MaxTime /\ Len(sent) <= MaxSent /\ slot \in 0..Len(sent)
    BY <2>1, BoundsAreNats DEF Init
  <2>4. pool \in [1..MaxSent -> Nat] /\ memory \in [Ids -> 0..Len(sent)]
    BY <2>1 DEF Init
  <2>5. handled \in Seq(1..Len(sent))
    BY <2>1 DEF Init
  <2> QED
    BY <2>1, <2>2, <2>3, <2>4, <2>5 DEF Init, TypeOK
<1>2. SentBefore
  BY BoundsAreNats DEF Init, SentBefore
<1>3. OnceOnTop /\ ActedOn /\ ActedInOrder /\ TimersOK
  BY DEF Init, OnceOnTop, ActedOn, ActedInOrder, TimersOK
<1>4. RecalledGone /\ SlotIsLater /\ EntriesOK
  BY DEF Init, RecalledGone, SlotIsLater, EntriesOK
<1>5. PoolIsLater
  BY DEF Init, PoolIsLater
<1>6. ShownIsLater
  BY DEF Init, ShownIsLater, Outdated
<1> QED
  BY <1>1, <1>2, <1>3, <1>4, <1>5, <1>6 DEF ClientInv

LEMMA ClientStep == ClientInv /\ [Next]_vars => ClientInv'
<1> SUFFICES ASSUME ClientInv, [Next]_vars PROVE ClientInv'
  OBVIOUS
<1>0. /\ TypeOK /\ SentBefore /\ OnceOnTop /\ ActedOn /\ ActedInOrder /\ TimersOK
      /\ RecalledGone /\ SlotIsLater /\ PoolIsLater /\ EntriesOK /\ ShownIsLater
  BY DEF ClientInv
<1>1. TypeOK'
  BY <1>0, MessagesKept, GateStep, FullscreenStep, ToastStep DEF TypeOK
<1>2. RecalledGone'
  <2>1. \A id \in cancelled' : ~OnTop(id)'
    BY <1>0, FullscreenStep, OnTopFacts
  <2>2. \A id \in cancelled' : ~\E no \in toasts' : sent'[no].id = id
    BY <1>0, ToastStep
  <2> QED
    BY <2>1, <2>2 DEF RecalledGone, ToastsOf
<1>3. SlotIsLater' /\ PoolIsLater' /\ EntriesOK' /\ ShownIsLater'
  BY <1>0, SlotLaterStep, PoolLaterStep, ShownLaterStep
<1> QED
  BY <1>0, <1>1, <1>2, <1>3, MessagesKept, GateStep, FullscreenStep, ToastStep DEF ClientInv

\* What the gate remembers, what is on screen and which timers run agree with what
\* was acted on, whatever is lost, duplicated, delayed or reloaded.
THEOREM ClientKeepsInv == Spec => []ClientInv
BY ClientStarts, ClientStep, PTL DEF Spec

\* web/app.js onMessage: every variable has its type for any ids, offers and bounds.
THEOREM ClientTypeCorrect == Spec => []TypeOK
<1>1. ClientInv => TypeOK
  BY DEF ClientInv
<1> QED
  BY <1>1, ClientKeepsInv, PTL

\* app.js accept gate: nothing is acted on twice, and issues of an alert are acted on
\* in the order they were issued, though the gate forgets what max_skew has passed.
THEOREM GateKeepsOrder == Spec => []ActedInOrder
<1>1. ClientInv => ActedInOrder
  BY DEF ClientInv
<1> QED
  BY <1>1, ClientKeepsInv, PTL

\* app.js handleCancel: nothing sent under an id before a recall the page acted on
\* is on screen, however late it is verified and whatever was reloaded since.
THEOREM RecallsStick == Spec => []RecallSticks
<1>1. ClientInv => RecallSticks
  <2> SUFFICES ASSUME ClientInv, NEW k \in DOMAIN handled, NEW no \in Shown,
                      sent[handled[k]].kind = "cancel", sent[no].id = sent[handled[k]].id
               PROVE  no > handled[k]
    BY DEF RecallSticks, Range
  <2>1. ~(no <= handled[k])
    BY DEF ClientInv, ShownIsLater, Outdated
  <2>2. no \in Nat /\ handled[k] \in Nat
    <3>1. handled[k] \in 1..Len(sent) /\ toasts \subseteq 1..Len(sent)
      BY ClientFacts DEF ClientInv, TypeOK
    <3>2. \A j \in DOMAIN activeFs : activeFs[j].no \in 1..Len(sent)
      BY DEF ClientInv, EntriesOK
    <3>3. no \in 1..Len(sent)
      BY <3>1, <3>2 DEF Shown, Range
    <3> QED
      BY <3>1, <3>3
  <2> QED
    BY <2>1, <2>2
<1> QED
  BY <1>1, ClientKeepsInv, PTL

\* app.js removeFs and its callers: a fullscreen alert goes for a reason that the
\* user or the server gave.
THEOREM NothingVanishes == Spec => NoSilentLoss
<1>1. ClientInv /\ [Next]_vars =>
        [ \A e \in Range(activeFs) : ~OnTop(e.id)' =>
            \/ e = Last(activeFs) /\ count'.presses # count.presses
            \/ e.id \in cancelled'
            \/ RunOut(e.id)
            \/ slot' = 0 /\ slot # 0
            \/ count'.reloads # count.reloads ]_vars
  <2> SUFFICES ASSUME ClientInv, [Next]_vars, NEW e \in Range(activeFs), ~OnTop(e.id)'
               PROVE  \/ e = Last(activeFs) /\ count'.presses # count.presses
                      \/ e.id \in cancelled'
                      \/ RunOut(e.id)
                      \/ slot' = 0 /\ slot # 0
                      \/ count'.reloads # count.reloads
    OBVIOUS
  <2>1. PICK k \in DOMAIN activeFs : e = activeFs[k]
    BY DEF Range
  <2>2. ~\E j \in DOMAIN activeFs' : activeFs'[j].id = e.id
    BY OnTopFacts
  <2> QED
    BY <2>1, <2>2, FullscreenStep DEF ClientInv
<1> QED
  BY <1>1, ClientKeepsInv, PTL DEF Spec, NoSilentLoss
=============================================================================
