----------------------------- MODULE Escalation -----------------------------
(***************************************************************************)
(* The escalation ladder (server/internal/api/escalation.go) over the ack  *)
(* roster (acks.go, store/acks.go) and the presence map (presence.go).     *)
(*                                                                         *)
(* TrackForAck replaces an alert's EscalationState by a new object while a *)
(* running evaluation keeps pointers to old ones, so objects have          *)
(* identities here: numbers, handed out in order.  Time is kept as ages    *)
(* that saturate, so it may go on for ever in a finite state space.        *)
(***************************************************************************)
EXTENDS Naturals, FiniteSets

CONSTANTS
  Alerts,        \* ids of alerts that demand an acknowledgement
  Devices,       \* device ids
  T1, T2, T3,    \* escalationSchedule of their severity
  TTLs,          \* validity windows an alert may be given
  Period,        \* the ticker's: the next evaluation starts that late at most
  MaxLag,        \* bound on the time one evaluation takes
  MaxTracks,     \* bound on the calls of TrackForAck
  MaxFaults      \* bound on failed reads of the roster and on restarts

ASSUME EscalationAssumption ==
  /\ {T1, T2, T3} \subseteq Nat /\ T1 <= T2 /\ T2 <= T3
  /\ TTLs \subseteq Nat /\ IsFiniteSet(TTLs)
  /\ {MaxLag, MaxTracks, MaxFaults} \subseteq Nat
  /\ Period \in Nat \ {0}

VARIABLES
  items,     \* escalator.items: per alert, its object, 0 for none
  obj,       \* the objects made so far
  tracks,    \* how many there are
  eval,      \* how far the running evalEscalations is
  since,     \* time since the last evaluation started, or the server did
  acks,      \* alert_acks
  online,    \* devices whose presence is online
  ignored,   \* <<object, device>>: online, silent, and the ladder neither stopped
             \* nor replaced, ever since the object was made (history)
  faults     \* failed reads and restarts so far

vars == <<items, obj, tracks, eval, since, acks, online, ignored, faults>>

-----------------------------------------------------------------------------

Refs == 1..MaxTracks

\* Far enough that a saturated age still tells every deadline apart.
Grace == IF Period >= MaxLag THEN Period ELSE MaxLag

Horizon ==
  MaxLag + 1 + CHOOSE m \in TTLs \cup {T3} : \A t \in TTLs \cup {T3} : t <= m

Object == [id : Alerts, ttl : TTLs, age : 0..Horizon, phase : 0..3,
           done : BOOLEAN, unreached : SUBSET Devices]

\* ref is the object being judged, 0 between two; raced are the objects that
\* were stopped since the evaluation took its list.
Idle == [todo |-> {}, ref |-> 0, silent |-> {}, raced |-> {}]

Running == eval.todo # {} \/ eval.ref # 0

\* The evaluation reads the clock once, when it has taken its list.
Elapsed(r) == obj[r].age - since

Expired(r) == Elapsed(r) > obj[r].ttl

Tracked(id) == items[id] # 0

-----------------------------------------------------------------------------
(* What the alert plane and the broker call *)

\* ListAcks
ListAcks(id) == {d \in Devices : <<id, d>> \in acks}

\* A new object whatever was there before, started at the alert's issue.
TrackForAck(id) ==
  /\ tracks < MaxTracks
  /\ tracks' = tracks + 1
  /\ \E ttl \in TTLs :
       obj' = [r \in 1..tracks + 1 |->
                 IF r <= tracks THEN obj[r]
                 ELSE [id |-> id, ttl |-> ttl, age |-> 0, phase |-> 0,
                       done |-> FALSE, unreached |-> {}]]
  /\ items' = [items EXCEPT ![id] = tracks + 1]
  /\ ignored' = {i \in ignored : i[1] # items[id]}
                  \cup {<<tracks + 1, d>> : d \in online \ ListAcks(id)}
  /\ UNCHANGED <<eval, since, acks, online, faults>>

StopEscalation(id) ==
  /\ Tracked(id)
  /\ obj' = [obj EXCEPT ![items[id]].done = TRUE]
  /\ eval' = IF Running THEN [eval EXCEPT !.raced = @ \cup {items[id]}] ELSE eval
  /\ ignored' = {i \in ignored : i[1] # items[id]}
  /\ UNCHANGED <<items, tracks, since, acks, online, faults>>

\* RecordAck: one row per alert id and device, for ever.
RecordAck(d, id) == acks' = acks \cup {<<id, d>>}

\* An acknowledgement may overtake TrackForAck, which comes after the broadcast,
\* and arrive from a device that has gone since.  A write that fails is an ack
\* never received.
OnAck(d, id) ==
  /\ RecordAck(d, id)
  /\ ignored' = {i \in ignored : i # <<items[id], d>>}
  /\ UNCHANGED <<items, obj, tracks, eval, since, online, faults>>

OnPresence(d) ==
  /\ online' = IF d \in online THEN online \ {d} ELSE online \cup {d}
  /\ ignored' = {i \in ignored : i[2] # d}
  /\ UNCHANGED <<items, obj, tracks, eval, since, acks, faults>>

-----------------------------------------------------------------------------
(* evalEscalations *)

\* Fault variant: objects already done are looked at again.
SnapshotAll ==
  /\ ~Running
  /\ eval' = [Idle EXCEPT !.todo = {items[id] : id \in {i \in Alerts : Tracked(i)}}]
  /\ since' = 0
  /\ UNCHANGED <<items, obj, tracks, acks, online, ignored, faults>>

\* Fault variant: only alerts not escalated yet are looked at.
SnapshotFresh ==
  /\ ~Running
  /\ eval' = [Idle EXCEPT !.todo =
                 {items[id] : id \in {i \in Alerts : Tracked(i) /\ ~obj[items[i]].done
                                                   /\ obj[items[i]].phase = 0}}]
  /\ since' = 0
  /\ UNCHANGED <<items, obj, tracks, acks, online, ignored, faults>>

\* The list is taken under the lock; the lock is released before it is used.  A
\* tick that was missed is made up for early, so the period is only a bound.
Snapshot ==
  /\ ~Running
  /\ eval' = [Idle EXCEPT !.todo =
                 {items[id] : id \in {i \in Alerts : Tracked(i) /\ ~obj[items[i]].done}}]
  /\ since' = 0
  /\ UNCHANGED <<items, obj, tracks, acks, online, ignored, faults>>

\* An alert past its validity is done.
Retire ==
  /\ eval.ref = 0
  /\ \E r \in eval.todo :
       /\ Expired(r)
       /\ obj' = [obj EXCEPT ![r].done = TRUE]
       /\ eval' = [eval EXCEPT !.todo = @ \ {r}]
  /\ UNCHANGED <<items, tracks, since, acks, online, ignored, faults>>

\* pendingDevices: when the roster cannot be read, no one has acknowledged.
Roster ==
  /\ eval.ref = 0
  /\ \E r \in eval.todo :
       /\ ~Expired(r)
       /\ \/ /\ eval' = [eval EXCEPT !.todo = @ \ {r}, !.ref = r,
                           !.silent = online \ ListAcks(obj[r].id)]
             /\ UNCHANGED faults
          \/ /\ faults < MaxFaults
             /\ faults' = faults + 1
             /\ eval' = [eval EXCEPT !.todo = @ \ {r}, !.ref = r, !.silent = online]
  /\ UNCHANGED <<items, obj, tracks, since, acks, online, ignored>>

Due(p, elapsed) ==
  \/ p = 1 /\ elapsed >= T1
  \/ p = 2 /\ elapsed >= T2
  \/ p = 3 /\ elapsed >= T3

\* Fault variant: a phase is entered at the deadline of the one before it.
NextPhaseEarly(r) ==
  CHOOSE p \in obj[r].phase..3 :
    /\ p = obj[r].phase \/ Due(p - 1, Elapsed(r))
    /\ \A q \in p + 1..3 : ~Due(q - 1, Elapsed(r))

\* Fault variant: the deadlines passed are added to the phase.
NextPhaseAdded(r) ==
  obj[r].phase + Cardinality({p \in 1..3 : Due(p, Elapsed(r))})

\* The furthest phase whose deadline has passed, though never back.
NextPhase(r) ==
  CHOOSE p \in obj[r].phase..3 :
    /\ p = obj[r].phase \/ Due(p, Elapsed(r))
    /\ \A q \in p + 1..3 : ~Due(q, Elapsed(r))

\* No one silent ends the ladder; otherwise it may climb, and at the top the
\* silent devices are reported.  Done is not looked at again.
Judge ==
  /\ eval.ref # 0
  /\ LET r == eval.ref
         p == NextPhase(r)
     IN  IF eval.silent = {}
           THEN obj' = [obj EXCEPT ![r].done = TRUE]
           ELSE obj' = [obj EXCEPT ![r].phase = p,
                          ![r].unreached = IF p > obj[r].phase /\ p = 3
                                             THEN eval.silent ELSE @]
  /\ eval' = [eval EXCEPT !.ref = 0, !.silent = {}]
  /\ UNCHANGED <<items, tracks, since, acks, online, ignored, faults>>

-----------------------------------------------------------------------------

\* The server restarts: the ladder and the presence map are in memory only.
Restart ==
  /\ faults < MaxFaults
  /\ faults' = faults + 1
  /\ items' = [id \in Alerts |-> 0]
  /\ eval' = Idle
  /\ since' = 0
  /\ online' = {}
  /\ ignored' = {}
  /\ UNCHANGED <<obj, tracks, acks>>

\* Time does not pass an evaluation that is due.
Tick ==
  /\ since < IF Running THEN MaxLag ELSE Period
  /\ since' = since + 1
  /\ obj' = [r \in 1..tracks |-> [obj[r] EXCEPT !.age = IF @ < Horizon THEN @ + 1 ELSE @]]
  /\ UNCHANGED <<items, tracks, eval, acks, online, ignored, faults>>

Init ==
  /\ items = [id \in Alerts |-> 0]
  /\ obj = [r \in 1..0 |-> Idle]
  /\ tracks = 0
  /\ eval = Idle
  /\ since = 0
  /\ acks = {}
  /\ online = {}
  /\ ignored = {}
  /\ faults = 0

EvalEscalations == Snapshot \/ Retire \/ Roster \/ Judge

Next ==
  \/ \E id \in Alerts : TrackForAck(id) \/ StopEscalation(id)
  \/ \E d \in Devices : OnPresence(d) \/ \E id \in Alerts : OnAck(d, id)
  \/ EvalEscalations
  \/ Restart
  \/ Tick

Spec == Init /\ [][Next]_vars

-----------------------------------------------------------------------------
(* Properties *)

TypeOK ==
  /\ tracks \in 0..MaxTracks
  /\ items \in [Alerts -> 0..tracks]
  /\ obj \in [1..tracks -> Object]
  /\ eval \in [todo : SUBSET (1..tracks), ref : 0..tracks, silent : SUBSET Devices,
               raced : SUBSET (1..tracks)]
  /\ since \in 0..Grace /\ (Running => since <= MaxLag)
  /\ \A r \in eval.todo \cup {eval.ref} : r # 0 => since <= obj[r].age
  /\ ignored \subseteq (1..tracks) \X Devices
  /\ acks \subseteq Alerts \X Devices
  /\ online \subseteq Devices
  /\ faults \in 0..MaxFaults

\* No phase is entered before its deadline, counted from the alert the object
\* was made for: a renewal starts the ladder over, and neither a late
\* evaluation nor one that still holds the old object moves it on early.
NeverEarly ==
  [][ \A r \in 1..tracks :
        obj'[r].phase # obj[r].phase =>
          obj'[r].phase > obj[r].phase /\ Due(obj'[r].phase, obj[r].age) ]_vars

\* A ladder that is over gets no louder, except through an evaluation that had
\* the alert on its list when it was stopped.
StopHeeded ==
  [][ \A r \in 1..tracks :
        obj[r].done /\ obj'[r].phase # obj[r].phase => r \in eval.raced ]_vars

\* Someone who ignores an alert is reported in time ("at T3 mark the silent
\* devices UNREACHABLE"): a device that has been online and silent since the
\* alert went out is on the list of the unreached, and the ladder at the top,
\* soon after T3, whoever else answers, comes or goes, whatever roster reads
\* fail and however evaluations lag.  The alert must live that long, and must not
\* be stopped, renewed or forgotten in a restart.
IgnoredIsReported ==
  \A i \in ignored :
    LET o == obj[i[1]] IN
    o.ttl >= T3 + Grace /\ o.age > T3 + Grace + MaxLag =>
      o.phase = 3 /\ i[2] \in o.unreached

\* "Done: everyone acked, or cancelled/expired": an evaluation that ends the
\* ladder of an alert still in force has at least one acknowledgement to show.  Not
\* so when it finds nobody online.
DoneIsAnswered ==
  [][ \A r \in 1..tracks :
        ~obj[r].done /\ obj'[r].done /\ eval.ref = r /\ r \notin eval'.raced =>
          \E d \in Devices : <<obj[r].id, d>> \in acks ]_vars

\* "A recalled alert must not keep nagging": once it is stopped, no phase is
\* entered any more.  Not so: see StopHeeded.
StoppedIsQuiet ==
  [][ \A r \in 1..tracks : obj[r].done => obj'[r].phase = obj[r].phase ]_vars
=============================================================================
