-------------------------- MODULE AlertPlaneProofs --------------------------
(***************************************************************************)
(* Proofs about AlertPlane, for any number of alerts and handlers and any  *)
(* bounds: the types, that the broker's retained message and the server's  *)
(* idea of it agree, that a live alert is never downgraded, that a recall  *)
(* fails in one race only, and that an alert is tracked but for two.       *)
(***************************************************************************)
EXTENDS AlertPlane, TLAPS

\* A handler at work has an alert in hand.
Working == \A h \in Handlers : pc[h] # "idle" => arg[h] \in Alert

Typed == TypeOK /\ Working

LEMMA NoneIsNoAlert == None \notin Alert
BY PlaneAssumption DEF None, Alert

LEMMA SlotFields ==
  ASSUME NEW a \in Slot
  PROVE  a.rank \in 0..3 /\ a.issued \in Nat /\ a.ttl \in Nat
BY DEF Slot, Alert, None

LEMMA InitTyped == Init => Typed
BY PlaneAssumption
   DEF Init, Typed, TypeOK, Working, Slot, None, Envelope, Silent

\* A handler that starts an operation has a well-formed alert or cancel.
LEMMA StartTyped ==
  ASSUME Typed, NEW h \in Handlers, StartPublish(h) \/ StartRecall(h)
  PROVE  Typed'
<1>. USE PlaneAssumption
<1>1. PICK a \in Alert :
        /\ a.issued = now
        /\ arg' = [arg EXCEPT ![h] = a]
  <2>1. now \in Nat
    BY DEF Typed, TypeOK
  <2>2. CASE StartPublish(h)
    <3>1. PICK id \in Ids, rank \in Ranks, ttl \in TTLs :
            arg' = [arg EXCEPT ![h] =
                      [id |-> id, rank |-> rank, issued |-> Stamp, ttl |-> ttl]]
      BY <2>2 DEF StartPublish
    <3>2. [id |-> id, rank |-> rank, issued |-> now, ttl |-> ttl] \in Alert
      BY <2>1 DEF Alert
    <3>3. QED
      BY <3>1, <3>2 DEF Stamp
  <2>3. CASE StartRecall(h)
    <3>1. PICK id \in Ids :
            arg' = [arg EXCEPT ![h] =
                      [id |-> id, rank |-> 0, issued |-> Stamp, ttl |-> MaxSkew]]
      BY <2>3 DEF StartRecall
    <3>2. [id |-> id, rank |-> 0, issued |-> now, ttl |-> MaxSkew] \in Alert
      BY <2>1 DEF Alert
    <3>3. QED
      BY <3>1, <3>2 DEF Stamp
  <2>4. QED
    BY <2>2, <2>3
<1>2. PICK s \in PublishSteps \cup RecallSteps : pc' = [pc EXCEPT ![h] = s]
  BY DEF StartPublish, StartRecall, PublishSteps, RecallSteps
<1>3. ops' \in 0..MaxOps
  BY DEF StartPublish, StartRecall, Typed, TypeOK
<1>4. UNCHANGED <<now, mu, active, retained, wire, outbox, esc, ladder, crossed, exposed>>
  BY DEF StartPublish, StartRecall, slotVars, ladderVars, wireVars
<1>5. arg' \in [Handlers -> Slot] /\ \A g \in Handlers : arg'[g].issued <= MaxTime
  BY <1>1 DEF Typed, TypeOK, Slot
<1>6. pc' \in [Handlers -> {"idle"} \cup PublishSteps \cup RecallSteps]
  BY <1>2 DEF Typed, TypeOK
<1>7. Working'
  BY <1>1, <1>2 DEF Typed, TypeOK, Working
<1>8. QED
  BY <1>3, <1>4, <1>5, <1>6, <1>7 DEF Typed, TypeOK

\* Where a step leaves the handler's control: at another step with the same
\* alert in hand, or idle with none.
LEMMA ControlTyped ==
  ASSUME Typed, NEW h \in Handlers, pc[h] # "idle",
         \/ \E s \in PublishSteps \cup RecallSteps : Goto(h, s)
         \/ Return(h)
  PROVE  /\ pc' \in [Handlers -> {"idle"} \cup PublishSteps \cup RecallSteps]
         /\ arg' \in [Handlers -> Slot]
         /\ \A g \in Handlers : arg'[g].issued <= MaxTime
         /\ Working'
<1>1. CASE \E s \in PublishSteps \cup RecallSteps : Goto(h, s)
  BY <1>1 DEF Goto, Typed, TypeOK, Working
<1>2. CASE Return(h)
  <2>1. arg' = [arg EXCEPT ![h] = None] /\ pc' = [pc EXCEPT ![h] = "idle"]
    BY <1>2 DEF Return
  <2>2. None \in Slot /\ None.issued = 0
    BY DEF Slot, None
  <2>3. QED
    BY <2>1, <2>2, PlaneAssumption DEF Typed, TypeOK, Working
<1>3. QED
  BY <1>1, <1>2

LEMMA PublishTyped ==
  ASSUME Typed, NEW h \in Handlers, Publish(h)
  PROVE  Typed'
<1>. USE PlaneAssumption
<1>1. pc[h] # "idle" /\ arg[h] \in Alert
  BY DEF Publish, Announce, Decide, Retain, Persist, Track, Create, Insert,
         Typed, Working
<1>2. \/ \E s \in PublishSteps \cup RecallSteps : Goto(h, s)
      \/ Return(h)
  BY DEF Publish, Announce, Decide, Retain, Persist, Track, Create, Insert,
         PublishSteps, RecallSteps
<1>3. /\ pc' \in [Handlers -> {"idle"} \cup PublishSteps \cup RecallSteps]
      /\ arg' \in [Handlers -> Slot]
      /\ \A g \in Handlers : arg'[g].issued <= MaxTime
      /\ Working'
  BY <1>1, <1>2, ControlTyped
<1>4. arg[h].id \in Ids /\ arg[h].rank \in 0..3
      /\ arg[h].issued + arg[h].ttl \in Nat /\ arg[h] \in Slot
  BY <1>1 DEF Alert, Slot
<1>5. CASE Announce(h)
  <2>1. wire' \in [Ids -> Envelope] /\ crossed' \subseteq Ids
    BY <1>4, <1>5 DEF Announce, Broadcast, Envelope, wireVars, Typed, TypeOK
  <2>2. QED
    BY <2>1, <1>3, <1>5 DEF Announce, slotVars, ladderVars, wireVars, Typed, TypeOK
<1>6. CASE Decide(h)
  BY <1>3, <1>4, <1>6 DEF Decide, ladderVars, wireVars, Typed, TypeOK
<1>7. CASE Retain(h)
  BY <1>3, <1>4, <1>7 DEF Retain, ladderVars, wireVars, Typed, TypeOK
<1>8. CASE Persist(h)
  BY <1>3, <1>4, <1>8 DEF Persist, slotVars, ladderVars, wireVars, Typed, TypeOK
<1>9. CASE Track(h)
  BY <1>3, <1>9 DEF Track, slotVars, ladderVars, wireVars, Typed, TypeOK
<1>10. CASE Create(h)
  BY <1>3, <1>10 DEF Create, slotVars, wireVars, Typed, TypeOK
<1>11. CASE Insert(h)
  BY <1>3, <1>4, <1>11 DEF Insert, Expose, slotVars, wireVars, Typed, TypeOK
<1>12. QED
  BY <1>5, <1>6, <1>7, <1>8, <1>9, <1>10, <1>11 DEF Publish

LEMMA RecallTyped ==
  ASSUME Typed, NEW h \in Handlers, Recall(h)
  PROVE  Typed'
<1>. USE PlaneAssumption
<1>1. pc[h] # "idle"
  BY DEF Recall, Revoke, Inspect, Clear, Stop
<1>2. \/ \E s \in PublishSteps \cup RecallSteps : Goto(h, s)
      \/ Return(h)
  BY DEF Recall, Revoke, Inspect, Clear, Stop, PublishSteps, RecallSteps
<1>3. /\ pc' \in [Handlers -> {"idle"} \cup PublishSteps \cup RecallSteps]
      /\ arg' \in [Handlers -> Slot]
      /\ \A g \in Handlers : arg'[g].issued <= MaxTime
      /\ Working'
  BY <1>1, <1>2, ControlTyped
<1>4. None \in Slot
  BY DEF Slot
<1>5. CASE Revoke(h)
  <2>1. arg[h].id \in Ids
    BY <1>1 DEF Typed, Working, Alert
  <2>2. wire' \in [Ids -> Envelope] /\ crossed' \subseteq Ids
    BY <1>5, <2>1 DEF Revoke, Broadcast, Recalled, Envelope, wireVars, Typed, TypeOK
  <2>3. QED
    BY <1>3, <1>5, <2>2 DEF Revoke, slotVars, ladderVars, Typed, TypeOK
<1>6. CASE Inspect(h)
  BY <1>3, <1>4, <1>6 DEF Inspect, ladderVars, wireVars, Typed, TypeOK
<1>7. CASE Clear(h)
  BY <1>3, <1>4, <1>7 DEF Clear, ladderVars, wireVars, Typed, TypeOK
<1>8. CASE Stop(h)
  BY <1>3, <1>8 DEF Stop, slotVars, wireVars, Typed, TypeOK
<1>9. QED
  BY <1>5, <1>6, <1>7, <1>8 DEF Recall

LEMMA NextTyped == Typed /\ [Next]_vars => Typed'
<1>. USE PlaneAssumption
<1>1. SUFFICES ASSUME Typed, [Next]_vars PROVE Typed'
  OBVIOUS
<1>2. CASE Sweep
  BY <1>1, <1>2 DEF Sweep, SweepExpired, SweepClear, ladderVars, wireVars, Slot,
                    Typed, TypeOK, Working
<1>3. CASE Tick
  BY <1>1, <1>3 DEF Tick, slotVars, ladderVars, wireVars, Typed, TypeOK, Working
<1>4. CASE UNCHANGED vars
  BY <1>1, <1>4 DEF vars, slotVars, ladderVars, wireVars, Typed, TypeOK, Working
<1>5. QED
  BY <1>1, <1>2, <1>3, <1>4, StartTyped, PublishTyped, RecallTyped DEF Next

\* Every reachable state of the alert plane is well typed, for any sets of
\* alerts, handlers, ranks and validity windows.
THEOREM TypeCorrect == Spec => []TypeOK
<1>1. Typed => TypeOK
  BY DEF Typed
<1>2. QED
  BY InitTyped, NextTyped, <1>1, PTL DEF Spec

-----------------------------------------------------------------------------
(* The slot.  Server.mu is held from the decision about s.active to the    *)
(* retained publish that follows it.                                       *)

\* Who holds the lock, and what became of s.active when it was taken.
LockInv ==
  /\ \A h \in Handlers : mu = h <=> pc[h] \in {"retain", "clear"}
  /\ \A h \in Handlers : pc[h] = "retain" => active = arg[h]
  /\ \A h \in Handlers : pc[h] = "clear" => active = None
  /\ mu = "sweeper" => active = None

\* Why the holder may replace the retained message it is about to replace:
\* the message is still the one the holder decided about, only older.
ReplaceInv ==
  /\ \A h \in Handlers :
       pc[h] = "retain" => ~Valid(retained) \/ arg[h].rank >= retained.rank
  /\ \A h \in Handlers : pc[h] = "clear" => arg[h].id = retained.id
  /\ mu = "sweeper" => ~Valid(retained)

SlotInv == Typed /\ LockInv /\ SlotMirrored /\ ReplaceInv

\* The retained topic accepts what is published to it.
ActiveAccepts == "active" \notin BrokerFails

LEMMA InitSlot == Init => SlotInv
<1>1. Init => Typed
  BY InitTyped
<1>2. Init => LockInv /\ SlotMirrored /\ ReplaceInv
  BY PlaneAssumption DEF Init, LockInv, SlotMirrored, ReplaceInv
<1>3. QED
  BY <1>1, <1>2 DEF SlotInv

\* A step that leaves the lock, both copies of the slot and the clock alone,
\* and neither enters nor leaves a step that runs under the lock, is harmless.
LEMMA OutsideLock ==
  ASSUME SlotInv, Typed', UNCHANGED <<now, slotVars>>, NEW h \in Handlers,
         NEW s \in {"idle", "announce", "decide", "persist", "track", "create",
                    "insert", "revoke", "inspect", "stop"},
         pc[h] \notin {"retain", "clear"},
         pc' = [pc EXCEPT ![h] = s],
         \A g \in Handlers \ {h} : arg'[g] = arg[g]
  PROVE  SlotInv'
<1>1. \A g \in Handlers : pc'[g] \in {"retain", "clear"} =>
        g # h /\ arg'[g] = arg[g] /\ pc'[g] = pc[g]
  BY DEF SlotInv, Typed, TypeOK
<1>2. \A g \in Handlers : pc[g] \in {"retain", "clear"} <=> pc'[g] \in {"retain", "clear"}
  BY DEF SlotInv, Typed, TypeOK
<1>3. Valid(retained)' <=> Valid(retained)
  BY DEF Valid, Expired, slotVars
<1>4. LockInv'
  BY <1>1, <1>2 DEF SlotInv, LockInv, slotVars
<1>5. ReplaceInv'
  BY <1>1, <1>3 DEF SlotInv, ReplaceInv, slotVars
<1>6. SlotMirrored'
  BY DEF SlotInv, SlotMirrored, slotVars
<1>7. QED
  BY <1>4, <1>5, <1>6 DEF SlotInv

LEMMA DecideSlot ==
  ASSUME SlotInv, Typed', NEW h \in Handlers, Decide(h)
  PROVE  SlotInv'
<1>. USE PlaneAssumption
<1>1. CASE TakesSlot(arg[h])
  <2>1. /\ mu = "free" /\ retained = active
        /\ active' = arg[h] /\ mu' = h /\ UNCHANGED <<now, retained, arg>>
        /\ pc' = [pc EXCEPT ![h] = "retain"]
    BY <1>1 DEF Decide, Goto, SlotInv, SlotMirrored
  <2>2. \A g \in Handlers : pc[g] \notin {"retain", "clear"}
    BY <2>1 DEF SlotInv, LockInv
  <2>3. \A g \in Handlers : pc'[g] \in {"retain", "clear"} <=> g = h
    BY <2>1, <2>2 DEF SlotInv, Typed, TypeOK
  <2>4. pc'[h] = "retain"
    BY <2>1 DEF SlotInv, Typed, TypeOK
  <2>5. LockInv'
    BY <2>1, <2>3, <2>4 DEF LockInv
  <2>6. ~Valid(retained)' \/ arg'[h].rank >= retained'.rank
    BY <1>1, <2>1 DEF TakesSlot, Valid, Expired
  <2>7. ReplaceInv'
    BY <2>1, <2>3, <2>4, <2>6 DEF ReplaceInv
  <2>8. SlotMirrored'
    BY <2>1 DEF SlotMirrored
  <2>9. QED
    BY <2>5, <2>7, <2>8 DEF SlotInv
<1>2. CASE ~TakesSlot(arg[h])
  <2>1. /\ UNCHANGED <<now, slotVars, arg>>
        /\ pc[h] = "decide"
        /\ pc' = [pc EXCEPT ![h] = "persist"]
    BY <1>2 DEF Decide, Goto, slotVars
  <2>2. QED
    BY <2>1, OutsideLock
<1>3. QED
  BY <1>1, <1>2

LEMMA RetainSlot ==
  ASSUME ActiveAccepts, SlotInv, Typed', NEW h \in Handlers, Retain(h)
  PROVE  SlotInv'
<1>. USE PlaneAssumption
<1>1. /\ mu = h /\ active = arg[h]
      /\ retained' = arg[h] /\ mu' = "free" /\ UNCHANGED active
      /\ pc' = [pc EXCEPT ![h] = "persist"]
  BY DEF Retain, Goto, SlotInv, LockInv, ActiveAccepts
<1>2. \A g \in Handlers : pc'[g] \notin {"retain", "clear"}
  BY <1>1 DEF SlotInv, LockInv, Typed, TypeOK
<1>3. LockInv' /\ ReplaceInv'
  BY <1>1, <1>2 DEF LockInv, ReplaceInv
<1>4. SlotMirrored'
  BY <1>1 DEF SlotMirrored
<1>5. QED
  BY <1>3, <1>4 DEF SlotInv

LEMMA InspectSlot ==
  ASSUME SlotInv, Typed', NEW h \in Handlers, Inspect(h)
  PROVE  SlotInv'
<1>. USE PlaneAssumption
<1>1. CASE active # None /\ active.id = arg[h].id
  <2>1. /\ mu = "free" /\ retained = active
        /\ active' = None /\ mu' = h /\ UNCHANGED <<now, retained, arg>>
        /\ pc' = [pc EXCEPT ![h] = "clear"]
    BY <1>1 DEF Inspect, Goto, SlotInv, SlotMirrored
  <2>2. \A g \in Handlers : pc[g] \notin {"retain", "clear"}
    BY <2>1 DEF SlotInv, LockInv
  <2>3. \A g \in Handlers : pc'[g] \in {"retain", "clear"} <=> g = h
    BY <2>1, <2>2 DEF SlotInv, Typed, TypeOK
  <2>4. pc'[h] = "clear"
    BY <2>1 DEF SlotInv, Typed, TypeOK
  <2>5. LockInv' /\ ReplaceInv' /\ SlotMirrored'
    BY <1>1, <2>1, <2>3, <2>4 DEF LockInv, ReplaceInv, SlotMirrored
  <2>6. QED
    BY <2>5 DEF SlotInv
<1>2. CASE ~(active # None /\ active.id = arg[h].id)
  <2>1. /\ UNCHANGED <<now, slotVars, arg>>
        /\ pc[h] = "inspect"
        /\ pc' = [pc EXCEPT ![h] = "stop"]
    BY <1>2 DEF Inspect, Goto, slotVars
  <2>2. QED
    BY <2>1, OutsideLock
<1>3. QED
  BY <1>1, <1>2

LEMMA ClearSlot ==
  ASSUME ActiveAccepts, SlotInv, Typed', NEW h \in Handlers, Clear(h)
  PROVE  SlotInv'
<1>. USE PlaneAssumption
<1>1. /\ mu = h /\ active = None
      /\ retained' = None /\ mu' = "free" /\ UNCHANGED active
      /\ pc' = [pc EXCEPT ![h] = "stop"]
  BY DEF Clear, Goto, SlotInv, LockInv, ActiveAccepts
<1>2. \A g \in Handlers : pc'[g] \notin {"retain", "clear"}
  BY <1>1 DEF SlotInv, LockInv, Typed, TypeOK
<1>3. LockInv' /\ ReplaceInv'
  BY <1>1, <1>2 DEF LockInv, ReplaceInv
<1>4. SlotMirrored'
  BY <1>1 DEF SlotMirrored
<1>5. QED
  BY <1>3, <1>4 DEF SlotInv

LEMMA SweepSlot ==
  ASSUME ActiveAccepts, SlotInv, Typed', Sweep
  PROVE  SlotInv'
<1>. USE PlaneAssumption
<1>1. CASE SweepExpired
  <2>1. /\ mu = "free" /\ retained = active /\ Expired(active)
        /\ active' = None /\ mu' = "sweeper" /\ UNCHANGED <<now, retained, pc, arg>>
    BY <1>1 DEF SweepExpired, SlotInv, SlotMirrored
  <2>2. \A g \in Handlers : pc[g] \notin {"retain", "clear"}
    BY <2>1 DEF SlotInv, LockInv
  <2>3. LockInv'
    BY <2>1, <2>2 DEF LockInv
  <2>4. ~Valid(retained)'
    BY <2>1 DEF Valid, Expired
  <2>5. ReplaceInv' /\ SlotMirrored'
    BY <2>1, <2>2, <2>4 DEF ReplaceInv, SlotMirrored
  <2>6. QED
    BY <2>3, <2>5 DEF SlotInv
<1>2. CASE SweepClear
  <2>1. /\ mu = "sweeper" /\ active = None
        /\ retained' = None /\ mu' = "free" /\ UNCHANGED <<active, pc, arg>>
    BY <1>2 DEF SweepClear, SlotInv, LockInv, ActiveAccepts
  <2>2. \A g \in Handlers : pc[g] \notin {"retain", "clear"}
    BY <2>1 DEF SlotInv, LockInv
  <2>3. LockInv' /\ ReplaceInv' /\ SlotMirrored'
    BY <2>1, <2>2 DEF LockInv, ReplaceInv, SlotMirrored
  <2>4. QED
    BY <2>3 DEF SlotInv
<1>3. QED
  BY <1>1, <1>2 DEF Sweep

\* Time passing can only make a retained alert invalid.
LEMMA TickSlot ==
  ASSUME SlotInv, Typed', Tick
  PROVE  SlotInv'
<1>1. UNCHANGED <<slotVars, pc, arg>> /\ now' = now + 1
  BY DEF Tick
<1>2. retained.issued \in Nat /\ retained.ttl \in Nat /\ now \in Nat
  BY SlotFields, PlaneAssumption DEF SlotInv, Typed, TypeOK
<1>3. Valid(retained)' => Valid(retained)
  BY <1>1, <1>2 DEF Valid, Expired, slotVars
<1>4. LockInv' /\ SlotMirrored'
  BY <1>1 DEF SlotInv, LockInv, SlotMirrored, slotVars
<1>5. ReplaceInv'
  BY <1>1, <1>3 DEF SlotInv, ReplaceInv, slotVars
<1>6. QED
  BY <1>4, <1>5 DEF SlotInv

LEMMA NextSlot == ActiveAccepts /\ SlotInv /\ [Next]_vars => SlotInv'
<1>1. SUFFICES ASSUME ActiveAccepts, SlotInv, [Next]_vars PROVE SlotInv'
  OBVIOUS
<1>2. Typed'
  BY <1>1, NextTyped DEF SlotInv
<1>3. ASSUME NEW h \in Handlers, StartPublish(h) \/ StartRecall(h) PROVE SlotInv'
  <2>1. PICK s \in {"announce", "revoke"} : pc' = [pc EXCEPT ![h] = s]
    BY <1>3 DEF StartPublish, StartRecall
  <2>2. /\ UNCHANGED <<now, slotVars>> /\ pc[h] = "idle"
        /\ \A g \in Handlers \ {h} : arg'[g] = arg[g]
    BY <1>1, <1>3 DEF StartPublish, StartRecall, SlotInv, Typed, TypeOK
  <2>3. QED
    BY <1>1, <1>2, <2>1, <2>2, OutsideLock
<1>4. ASSUME NEW h \in Handlers,
             \/ Announce(h) \/ Persist(h) \/ Track(h) \/ Create(h)
             \/ Insert(h) \/ Revoke(h) \/ Stop(h)
      PROVE SlotInv'
  <2>1. PICK s \in {"idle", "decide", "track", "create", "insert", "inspect"} :
          pc' = [pc EXCEPT ![h] = s]
    BY <1>4 DEF Announce, Persist, Track, Create, Insert, Revoke, Stop, Goto, Return
  <2>2. /\ UNCHANGED <<now, slotVars>> /\ pc[h] \notin {"retain", "clear"}
        /\ \A g \in Handlers \ {h} : arg'[g] = arg[g]
    BY <1>1, <1>4 DEF Announce, Persist, Track, Create, Insert, Revoke, Stop,
                      Goto, Return, SlotInv, Typed, TypeOK
  <2>3. QED
    BY <1>1, <1>2, <2>1, <2>2, OutsideLock
<1>5. ASSUME NEW h \in Handlers, Decide(h) \/ Retain(h) \/ Inspect(h) \/ Clear(h)
      PROVE SlotInv'
  BY <1>1, <1>2, <1>5, DecideSlot, RetainSlot, InspectSlot, ClearSlot
<1>6. CASE Sweep
  BY <1>1, <1>2, <1>6, SweepSlot
<1>7. CASE Tick
  BY <1>1, <1>2, <1>7, TickSlot
<1>8. CASE UNCHANGED vars
  BY <1>1, <1>2, <1>8
     DEF vars, slotVars, SlotInv, LockInv, SlotMirrored, ReplaceInv, Valid, Expired
<1>9. QED
  BY <1>1, <1>3, <1>4, <1>5, <1>6, <1>7, <1>8 DEF Next, Publish, Recall

\* A reconnecting client is sent what the server believes is active, for any
\* number of handlers, as long as the broker accepts the retained message.
THEOREM SlotIsMirrored ==
  ASSUME ActiveAccepts
  PROVE  Spec => []SlotMirrored
<1>1. SlotInv /\ [Next]_vars => SlotInv'
  BY NextSlot
<1>2. SlotInv => SlotMirrored
  BY DEF SlotInv
<1>3. QED
  BY InitSlot, <1>1, <1>2, PTL DEF Spec

\* A live retained alert is replaced by one at least as severe or removed by
\* its own recall, for any number of handlers, under the same condition.
THEOREM NeverDowngraded ==
  ASSUME ActiveAccepts
  PROVE  Spec => NoDowngrade
<1> DEFINE Kept == Valid(retained) /\ retained' # retained =>
                     \/ retained' # None /\ retained'.rank >= retained.rank
                     \/ \E h \in Handlers : pc[h] = "clear" /\ arg[h].id = retained.id
<1>1. ASSUME SlotInv, Next PROVE Kept
  <2>1. CASE \E h \in Handlers : Retain(h)
    <3>1. PICK h \in Handlers : Retain(h)
      BY <2>1
    <3>2. pc[h] = "retain" /\ retained' = arg[h]
      BY <1>1, <3>1 DEF Retain, ActiveAccepts
    <3>3. arg[h] # None
      BY <1>1, <3>2, NoneIsNoAlert DEF SlotInv, Typed, Working
    <3>4. QED
      BY <1>1, <3>2, <3>3 DEF SlotInv, ReplaceInv
  <2>2. CASE \E h \in Handlers : Clear(h)
    BY <1>1, <2>2 DEF Clear, SlotInv, ReplaceInv
  <2>3. CASE SweepClear
    BY <1>1, <2>3 DEF SweepClear, SlotInv, ReplaceInv
  <2>4. CASE ~(\E h \in Handlers : Retain(h) \/ Clear(h)) /\ ~SweepClear
    BY <1>1, <2>4 DEF Next, Publish, Recall, Sweep, StartPublish, StartRecall,
         Announce, Decide, Persist, Track, Create, Insert, Revoke, Inspect, Stop,
         SweepExpired, Tick, slotVars
  <2>5. QED
    BY <2>1, <2>2, <2>3, <2>4
<1>2. SlotInv /\ [Next]_vars => [Kept]_vars
  BY <1>1
<1>3. SlotInv /\ [Next]_vars => SlotInv'
  BY NextSlot
<1>4. QED
  BY InitSlot, <1>2, <1>3, PTL DEF Spec, NoDowngrade

-----------------------------------------------------------------------------
(* Recalls and ladders.  A handler leaves what the hub keeps of other ids  *)
(* alone; and as long as no operation of the other kind crosses the last   *)
(* broadcast of an id, what is behind that broadcast finishes what it says.*)

\* What a step of a handler does to its own record, and that it leaves
\* everybody else's alone.
LEMMA HandlerSteps ==
  ASSUME Typed, NEW h \in Handlers, Publish(h) \/ Recall(h)
  PROVE  /\ pc[h] # "idle"
         /\ pc' \in [Handlers -> {"idle"} \cup PublishSteps \cup RecallSteps]
         /\ \A g \in Handlers \ {h} : pc'[g] = pc[g] /\ arg'[g] = arg[g]
         /\ pc'[h] # "idle" => arg'[h] = arg[h]
         /\ pc'[h] = "idle" => arg'[h] = None
         /\ pc'[h] \notin {"announce", "revoke"}
<1>1. pc[h] # "idle"
  BY DEF Publish, Recall, Announce, Decide, Retain, Persist, Track, Create,
         Insert, Revoke, Inspect, Clear, Stop
<1>2. \/ \E s \in Published \cup Revoked : Goto(h, s)
      \/ Return(h)
  BY DEF Publish, Recall, Announce, Decide, Retain, Persist, Track, Create,
         Insert, Revoke, Inspect, Clear, Stop, Published, Revoked
<1>3. QED
  BY <1>1, <1>2 DEF Goto, Return, Typed, TypeOK, Published, Revoked,
                    PublishSteps, RecallSteps

\* Where the handlers of another id are does not depend on a handler's step.
LEMMA OthersAt ==
  ASSUME Typed, NEW h \in Handlers, Publish(h) \/ Recall(h),
         NEW id \in Ids, id # arg[h].id, NEW S
  PROVE  At(id, S)' <=> At(id, S)
<1>1. /\ \A g \in Handlers \ {h} : pc'[g] = pc[g] /\ arg'[g] = arg[g]
      /\ arg'[h] = arg[h] \/ arg'[h] = None
  BY HandlerSteps DEF Typed, TypeOK
<1>2. arg'[h].id # id
  BY <1>1, PlaneAssumption DEF None
<1>3. QED
  BY <1>1, <1>2 DEF At

\* A handler may take other ids out of the slot or out of the ladder, never
\* put them in.
LEMMA OthersKept ==
  ASSUME Typed, NEW h \in Handlers, Publish(h) \/ Recall(h),
         NEW id \in Ids, id # arg[h].id
  PROVE  /\ wire'[id] = wire[id]
         /\ id \in crossed' <=> id \in crossed
         /\ id \in exposed' <=> id \in exposed
         /\ active' = active \/ active'.id # id
         /\ retained' = retained \/ retained'.id # id
         /\ ladder'[id] = ladder[id] \/ (Create(h) /\ ladder'[id] = "none")
<1>1. arg[h].id \in Ids /\ None.id # id
  BY HandlerSteps, PlaneAssumption DEF Typed, Working, Alert, None
<1>2. CASE Announce(h) \/ Revoke(h)
  BY <1>1, <1>2 DEF Announce, Revoke, Broadcast, slotVars, ladderVars, wireVars,
                    Typed, TypeOK
<1>3. CASE Decide(h) \/ Inspect(h)
  BY <1>1, <1>3 DEF Decide, Inspect, ladderVars, wireVars
<1>4. CASE Retain(h) \/ Clear(h)
  BY <1>1, <1>4 DEF Retain, Clear, ladderVars, wireVars
<1>5. CASE Persist(h) \/ Track(h)
  BY <1>5 DEF Persist, Track, slotVars, ladderVars, wireVars
<1>6. CASE Create(h)
  BY <1>6 DEF Create, slotVars, wireVars
<1>7. CASE Insert(h)
  BY <1>1, <1>7 DEF Insert, Expose, slotVars, wireVars, Typed, TypeOK
<1>8. CASE Stop(h)
  BY <1>1, <1>8 DEF Stop, slotVars, wireVars, Typed, TypeOK
<1>9. QED
  BY <1>2, <1>3, <1>4, <1>5, <1>6, <1>7, <1>8 DEF Publish, Recall

\* A start, a tick and the sweeper move no handler behind a broadcast.
LEMMA AtKept ==
  ASSUME Typed, NEW id \in Ids, NEW S, S \subseteq Published \cup Revoked,
         \/ \E h \in Handlers : StartPublish(h) \/ StartRecall(h)
         \/ UNCHANGED <<pc, arg>>
  PROVE  At(id, S)' <=> At(id, S)
<1>1. CASE \E h \in Handlers : StartPublish(h) \/ StartRecall(h)
  <2>1. PICK h \in Handlers : StartPublish(h) \/ StartRecall(h)
    BY <1>1
  <2>2. PICK s \in {"announce", "revoke"} : pc' = [pc EXCEPT ![h] = s]
    BY <2>1 DEF StartPublish, StartRecall
  <2>3. /\ pc[h] \notin S /\ pc'[h] \notin S
        /\ \A g \in Handlers \ {h} : pc'[g] = pc[g] /\ arg'[g] = arg[g]
    BY <2>1, <2>2 DEF StartPublish, StartRecall, Published, Revoked, Typed, TypeOK
  <2>4. QED
    BY <2>3 DEF At
<1>2. CASE UNCHANGED <<pc, arg>>
  BY <1>2 DEF At
<1>3. QED
  BY <1>1, <1>2

-----------------------------------------------------------------------------
(* A recall holds.                                                         *)

\* What is left of an id whose recall was crossed by no publish: what its
\* recalls still have to take away.
Leaving(id) ==
  /\ ~At(id, Published)
  /\ At(id, {"inspect"}) \/ active.id # id
  /\ At(id, {"inspect", "clear"}) \/ retained.id # id
  /\ At(id, Revoked) \/ ladder[id] # "running"

Withdrawn(id) == wire[id].kind = "cancel" /\ id \notin crossed

RecallInv == SlotInv /\ \A id \in Ids : Withdrawn(id) => Leaving(id)

LEMMA InitRecall == Init => RecallInv
<1>1. Init => \A id \in Ids : ~Withdrawn(id)
  BY DEF Init, Withdrawn, Silent
<1>2. QED
  BY <1>1, InitSlot DEF RecallInv

\* Steps of other handlers leave an id that is on its way out on its way out.
LEMMA OthersLeaving ==
  ASSUME RecallInv, NEW h \in Handlers, Publish(h) \/ Recall(h),
         NEW id \in Ids, id # arg[h].id, Withdrawn(id)'
  PROVE  Leaving(id)'
<1>1. Typed
  BY DEF RecallInv, SlotInv
<1>2. Withdrawn(id)
  BY <1>1, OthersKept DEF Withdrawn
<1>3. Leaving(id)
  BY <1>2 DEF RecallInv
<1>4. /\ At(id, Published)' <=> At(id, Published)
      /\ At(id, {"inspect"})' <=> At(id, {"inspect"})
      /\ At(id, {"inspect", "clear"})' <=> At(id, {"inspect", "clear"})
      /\ At(id, Revoked)' <=> At(id, Revoked)
  BY <1>1, OthersAt
<1>5. /\ active.id # id => active'.id # id
      /\ retained.id # id => retained'.id # id
      /\ ladder[id] # "running" => ladder'[id] # "running"
  BY <1>1, OthersKept
<1>6. QED
  BY <1>3, <1>4, <1>5 DEF Leaving

\* The steps of a recall on its own id.
LEMMA RevokeLeaves ==
  ASSUME RecallInv, NEW h \in Handlers, Revoke(h),
         NEW id \in Ids, id = arg[h].id, Withdrawn(id)'
  PROVE  Leaving(id)'
<1>1. Typed /\ pc[h] = "revoke"
  BY DEF RecallInv, SlotInv, Revoke
<1>2. \A g \in Handlers \ {h} : pc'[g] = pc[g] /\ arg'[g] = arg[g]
  BY <1>1, HandlerSteps DEF Recall
<1>3. CASE Broadcast(id, Recalled, Published) /\ Goto(h, "inspect")
  <2>1. ~At(id, Published)
    BY <1>3 DEF Broadcast, Withdrawn
  <2>2. pc'[h] = "inspect" /\ arg'[h].id = id
    BY <1>1, <1>3 DEF Goto, Typed, TypeOK
  <2>3. ~At(id, Published)'
    BY <1>2, <2>1, <2>2 DEF At, Published
  <2>4. At(id, {"inspect"})' /\ At(id, {"inspect", "clear"})' /\ At(id, Revoked)'
    BY <2>2 DEF At, Revoked
  <2>5. QED
    BY <2>3, <2>4 DEF Leaving
<1>4. CASE Return(h) /\ UNCHANGED wireVars
  <2>1. pc'[h] = "idle"
    BY <1>1, <1>4 DEF Return, Typed, TypeOK
  <2>2. /\ At(id, Published)' <=> At(id, Published)
        /\ At(id, {"inspect"})' <=> At(id, {"inspect"})
        /\ At(id, {"inspect", "clear"})' <=> At(id, {"inspect", "clear"})
        /\ At(id, Revoked)' <=> At(id, Revoked)
    BY <1>1, <1>2, <2>1 DEF At, Published, Revoked
  <2>3. Leaving(id) /\ UNCHANGED <<active, retained, ladder>>
    BY <1>4 DEF Revoke, RecallInv, Withdrawn, wireVars, slotVars, ladderVars
  <2>4. QED
    BY <2>2, <2>3 DEF Leaving
<1>5. QED
  BY <1>3, <1>4 DEF Revoke

LEMMA InspectLeaves ==
  ASSUME RecallInv, NEW h \in Handlers, Inspect(h),
         NEW id \in Ids, id = arg[h].id, Withdrawn(id)'
  PROVE  Leaving(id)'
<1>1. Typed /\ SlotInv /\ pc[h] = "inspect"
  BY DEF RecallInv, SlotInv, Inspect
<1>2. \A g \in Handlers \ {h} : pc'[g] = pc[g] /\ arg'[g] = arg[g]
  BY <1>1, HandlerSteps DEF Recall
<1>3. Leaving(id) /\ UNCHANGED <<retained, ladder>> /\ active = retained
  BY <1>1 DEF Inspect, RecallInv, Withdrawn, wireVars, ladderVars, SlotInv, SlotMirrored
<1>4. pc'[h] \in {"clear", "stop"} /\ arg'[h].id = id
  BY <1>1 DEF Inspect, Goto, Typed, TypeOK
<1>5. ~At(id, Published)' /\ At(id, Revoked)'
  BY <1>1, <1>2, <1>3, <1>4 DEF Leaving, At, Published, Revoked
<1>6. CASE active # None /\ active.id = arg[h].id
  <2>1. active' = None /\ pc'[h] = "clear"
    BY <1>1, <1>6 DEF Inspect, Goto, Typed, TypeOK
  <2>2. active'.id # id
    BY <2>1, PlaneAssumption DEF None
  <2>3. At(id, {"inspect", "clear"})'
    BY <1>4, <2>1 DEF At
  <2>4. QED
    BY <1>5, <2>2, <2>3 DEF Leaving
<1>7. CASE ~(active # None /\ active.id = arg[h].id)
  <2>1. UNCHANGED active /\ active.id # id
    BY <1>7, PlaneAssumption DEF Inspect, None
  <2>2. QED
    BY <1>3, <1>5, <2>1 DEF Leaving
<1>8. QED
  BY <1>6, <1>7

LEMMA ClearLeaves ==
  ASSUME ActiveAccepts, RecallInv, NEW h \in Handlers, Clear(h) \/ Stop(h),
         NEW id \in Ids, id = arg[h].id, Withdrawn(id)'
  PROVE  Leaving(id)'
<1>1. Typed /\ SlotInv /\ pc[h] \in {"clear", "stop"}
  BY DEF RecallInv, SlotInv, Clear, Stop
<1>2. /\ \A g \in Handlers \ {h} : pc'[g] = pc[g] /\ arg'[g] = arg[g]
      /\ pc'[h] # "idle" => arg'[h] = arg[h]
  BY <1>1, HandlerSteps DEF Recall
<1>3. Leaving(id) /\ UNCHANGED active
  BY <1>1 DEF Clear, Stop, RecallInv, Withdrawn, wireVars, slotVars
<1>4. CASE Clear(h)
  <2>1. /\ active = None /\ retained' = None /\ UNCHANGED ladder
        /\ pc[h] = "clear" /\ pc'[h] = "stop"
    BY <1>1, <1>4 DEF Clear, Goto, ActiveAccepts, SlotInv, LockInv, ladderVars, Typed, TypeOK
  <2>2. ~At(id, Published)' /\ At(id, Revoked)'
    BY <1>2, <1>3, <2>1 DEF Leaving, At, Published, Revoked
  <2>3. active'.id # id /\ retained'.id # id
    BY <1>3, <2>1, PlaneAssumption DEF None
  <2>4. QED
    BY <2>2, <2>3 DEF Leaving
<1>5. CASE Stop(h)
  <2>1. /\ UNCHANGED retained /\ ladder'[id] # "running"
        /\ pc[h] = "stop" /\ pc'[h] = "idle"
    BY <1>1, <1>5 DEF Stop, Return, slotVars, Typed, TypeOK
  <2>2. /\ At(id, Published)' <=> At(id, Published)
        /\ At(id, {"inspect"})' <=> At(id, {"inspect"})
        /\ At(id, {"inspect", "clear"})' <=> At(id, {"inspect", "clear"})
    BY <1>2, <2>1 DEF At, Published
  <2>3. QED
    BY <1>3, <2>1, <2>2 DEF Leaving
<1>6. QED
  BY <1>4, <1>5

\* A publish takes back its id's recall, or finds it crossed.
LEMMA PublishLeaves ==
  ASSUME RecallInv, NEW h \in Handlers, Publish(h),
         NEW id \in Ids, id = arg[h].id, Withdrawn(id)'
  PROVE  Leaving(id)'
<1>1. Typed
  BY DEF RecallInv, SlotInv
<1>2. \A g \in Handlers \ {h} : pc'[g] = pc[g] /\ arg'[g] = arg[g]
  BY <1>1, HandlerSteps
<1>3. CASE Announce(h)
  <2>1. Return(h) /\ UNCHANGED wireVars
    BY <1>1, <1>3 DEF Announce, Broadcast, Withdrawn, Typed, TypeOK
  <2>2. pc'[h] = "idle" /\ pc[h] = "announce"
    BY <1>1, <1>3, <2>1 DEF Announce, Return, Typed, TypeOK
  <2>3. /\ At(id, Published)' <=> At(id, Published)
        /\ At(id, {"inspect"})' <=> At(id, {"inspect"})
        /\ At(id, {"inspect", "clear"})' <=> At(id, {"inspect", "clear"})
        /\ At(id, Revoked)' <=> At(id, Revoked)
    BY <1>2, <2>2 DEF At, Published, Revoked
  <2>4. Leaving(id) /\ UNCHANGED <<active, retained, ladder>>
    BY <1>3, <2>1 DEF Announce, RecallInv, Withdrawn, wireVars, slotVars, ladderVars
  <2>5. QED
    BY <2>3, <2>4 DEF Leaving
<1>4. CASE ~Announce(h)
  <2>1. pc[h] \in Published /\ UNCHANGED wireVars
    BY <1>4 DEF Publish, Decide, Retain, Persist, Track, Create, Insert, Published
  <2>2. Withdrawn(id) /\ At(id, Published)
    BY <2>1 DEF Withdrawn, wireVars, At
  <2>3. QED
    BY <2>2 DEF RecallInv, Leaving
<1>5. QED
  BY <1>3, <1>4

LEMMA NextRecall == ActiveAccepts /\ RecallInv /\ [Next]_vars => RecallInv'
<1>1. SUFFICES ASSUME ActiveAccepts, RecallInv, [Next]_vars
               PROVE  RecallInv'
  OBVIOUS
<1>2. SlotInv' /\ Typed
  BY <1>1, NextSlot DEF RecallInv, SlotInv
<1>3. SUFFICES ASSUME NEW id \in Ids, Withdrawn(id)' PROVE Leaving(id)'
  BY <1>2 DEF RecallInv
<1>4. ASSUME NEW h \in Handlers, Publish(h) \/ Recall(h) PROVE Leaving(id)'
  <2>1. CASE id # arg[h].id
    BY <1>1, <1>3, <1>4, <2>1, OthersLeaving
  <2>2. CASE id = arg[h].id
    BY <1>1, <1>3, <1>4, <2>2, RevokeLeaves, InspectLeaves, ClearLeaves,
       PublishLeaves DEF Recall
  <2>3. QED
    BY <2>1, <2>2
<1>5. ASSUME \/ \E h \in Handlers : StartPublish(h) \/ StartRecall(h)
             \/ Sweep \/ Tick \/ UNCHANGED vars
      PROVE  Leaving(id)'
  <2>1. /\ UNCHANGED <<wire, crossed, ladder>>
        /\ active' \in {active, None} /\ retained' \in {retained, None}
    BY <1>5 DEF StartPublish, StartRecall, Sweep, SweepExpired, SweepClear, Tick,
                vars, slotVars, wireVars, ladderVars
  <2>2. Leaving(id)
    BY <1>1, <1>3, <2>1 DEF RecallInv, Withdrawn
  <2>3. \/ \E h \in Handlers : StartPublish(h) \/ StartRecall(h)
        \/ UNCHANGED <<pc, arg>>
    BY <1>5 DEF Sweep, SweepExpired, SweepClear, Tick, vars
  <2>4. /\ At(id, Published)' <=> At(id, Published)
        /\ At(id, {"inspect"})' <=> At(id, {"inspect"})
        /\ At(id, {"inspect", "clear"})' <=> At(id, {"inspect", "clear"})
        /\ At(id, Revoked)' <=> At(id, Revoked)
    BY <1>2, <2>3, AtKept DEF Revoked
  <2>5. None.id # id
    BY PlaneAssumption DEF None
  <2>6. QED
    BY <2>1, <2>2, <2>4, <2>5 DEF Leaving
<1>6. QED
  BY <1>1, <1>4, <1>5 DEF Next

\* A recall that was not crossed by a publish of its id holds: nobody who
\* connects is sent the alert and no ladder runs for it, for any number of
\* alerts and handlers and however their operations overlap, on one id or on
\* several, as long as the broker accepts retained publishes.
THEOREM RecallsHold ==
  ASSUME ActiveAccepts
  PROVE  Spec => []RecallHolds
<1>1. RecallInv /\ [Next]_vars => RecallInv'
  BY NextRecall
<1>2. RecallInv => RecallHolds
  BY DEF RecallInv, Withdrawn, Leaving, RecallHolds, Forgotten, Quiet, At,
         Published, Revoked
<1>3. QED
  BY InitRecall, <1>1, <1>2, PTL DEF Spec

-----------------------------------------------------------------------------
(* An alert is tracked.                                                    *)

\* The escalator: nothing is tracked before it exists, and while a handler is
\* about to make one whatever is tracked is marked as exposed to that.
MakerInv ==
  /\ \A h \in Handlers : pc[h] = "insert" => esc = "ready"
  /\ esc = "nil" => \A id \in Ids : ladder[id] = "none"
  /\ \A h \in Handlers : pc[h] = "create" =>
       \A id \in Ids : ladder[id] = "running" => id \in exposed

\* A publish behind its broadcast has yet to track the alert.
Demanding(id) ==
  \E g \in Handlers : arg[g].id = id /\ pc[g] \in Published /\ arg[g].rank >= LadderRank

\* An alert that demands an acknowledgement and was crossed by no recall.
Due(id) ==
  /\ wire[id].kind = "alert" /\ wire[id].rank >= LadderRank
  /\ id \notin crossed

\* No recall is behind its broadcast, and the ladder runs or is about to.
Tracked(id) ==
  /\ ~At(id, Revoked)
  /\ id \notin exposed => Demanding(id) \/ ladder[id] = "running"

TrackInv == Typed /\ MakerInv /\ \A id \in Ids : Due(id) => Tracked(id)

LEMMA InitTrack == Init => TrackInv
<1>1. Init => MakerInv /\ \A id \in Ids : ~Due(id)
  BY DEF Init, MakerInv, Due, Silent
<1>2. QED
  BY <1>1, InitTyped DEF TrackInv

LEMMA HandlerMaker ==
  ASSUME TrackInv, NEW h \in Handlers, Publish(h) \/ Recall(h)
  PROVE  MakerInv'
<1>. USE PlaneAssumption
<1>1. /\ Typed /\ MakerInv
      /\ \A g \in Handlers \ {h} : pc'[g] = pc[g]
      /\ arg[h].id \in Ids
  BY HandlerSteps DEF TrackInv, Typed, Working, Alert
<1>2. CASE Track(h)
  <2>1. UNCHANGED <<esc, ladder, exposed>>
    BY <1>2 DEF Track, ladderVars
  <2>2. /\ pc'[h] = "insert" => esc = "ready"
        /\ pc'[h] = "create" => esc = "nil"
    BY <1>1, <1>2 DEF Track, Goto, Return, Typed, TypeOK
  <2>3. QED
    BY <1>1, <2>1, <2>2 DEF MakerInv
<1>3. CASE Create(h)
  <2>1. esc' = "ready" /\ \A id \in Ids : ladder'[id] = "none"
    BY <1>3 DEF Create
  <2>2. QED
    BY <2>1 DEF MakerInv
<1>4. CASE Insert(h)
  <2>1. esc = "ready" /\ UNCHANGED esc /\ pc'[h] = "idle"
    BY <1>1, <1>4 DEF Insert, Return, MakerInv, Typed, TypeOK
  <2>2. \A id \in Ids : id # arg[h].id =>
          ladder'[id] = ladder[id] /\ (id \in exposed' <=> id \in exposed)
    BY <1>1, <1>4 DEF Insert, Expose, Typed, TypeOK
  <2>3. (\E g \in Handlers : pc'[g] = "create") => arg[h].id \in exposed'
    BY <1>1, <1>4, <2>1 DEF Insert, Expose
  <2>4. QED
    BY <1>1, <2>1, <2>2, <2>3 DEF MakerInv
<1>5. CASE Stop(h)
  <2>1. UNCHANGED <<esc, exposed>> /\ pc'[h] = "idle"
    BY <1>1, <1>5 DEF Stop, Return, Typed, TypeOK
  <2>2. \A id \in Ids : ladder'[id] = ladder[id] \/ (ladder'[id] = "done" /\ ladder[id] = "running")
    BY <1>1, <1>5 DEF Stop, Typed, TypeOK
  <2>3. QED
    BY <1>1, <2>1, <2>2 DEF MakerInv
<1>6. CASE ~(Track(h) \/ Create(h) \/ Insert(h) \/ Stop(h))
  <2>1. UNCHANGED <<esc, ladder, exposed>> /\ pc'[h] \notin {"create", "insert"}
    BY <1>1, <1>6 DEF Publish, Recall, Announce, Decide, Retain, Persist, Revoke,
       Inspect, Clear, Goto, Return, ladderVars, Typed, TypeOK
  <2>2. QED
    BY <1>1, <2>1 DEF MakerInv
<1>7. QED
  BY <1>2, <1>3, <1>4, <1>5, <1>6

\* Steps of the handlers of other alerts.
LEMMA OthersTracked ==
  ASSUME TrackInv, NEW h \in Handlers, Publish(h) \/ Recall(h),
         NEW id \in Ids, id # arg[h].id, Due(id)'
  PROVE  Tracked(id)'
<1>1. Typed
  BY DEF TrackInv
<1>2. Due(id)
  BY <1>1, OthersKept DEF Due
<1>3. Tracked(id)
  BY <1>2 DEF TrackInv
<1>4. At(id, Revoked)' <=> At(id, Revoked)
  BY <1>1, OthersAt
<1>5. /\ \A g \in Handlers \ {h} : pc'[g] = pc[g] /\ arg'[g] = arg[g]
      /\ id \in exposed' <=> id \in exposed
  BY <1>1, HandlerSteps, OthersKept
<1>6. Demanding(id) => Demanding(id)'
  BY <1>5 DEF Demanding
<1>7. CASE Create(h)
  <2>1. ladder[id] = "running" => id \in exposed
    BY <1>7 DEF Create, TrackInv, MakerInv
  <2>2. QED
    BY <1>3, <1>4, <1>5, <1>6, <2>1 DEF Tracked
<1>8. CASE ~Create(h)
  <2>1. ladder'[id] = ladder[id]
    BY <1>1, <1>8, OthersKept
  <2>2. QED
    BY <1>3, <1>4, <1>5, <1>6, <2>1 DEF Tracked
<1>9. QED
  BY <1>7, <1>8

\* Steps of a publish of the alert itself.
LEMMA PublishTracked ==
  ASSUME TrackInv, NEW h \in Handlers, Publish(h),
         NEW id \in Ids, id = arg[h].id, Due(id)'
  PROVE  Tracked(id)'
<1>. USE PlaneAssumption
<1>1. /\ Typed /\ arg[h].id \in Ids /\ arg[h].rank \in 0..3
      /\ \A g \in Handlers \ {h} : pc'[g] = pc[g] /\ arg'[g] = arg[g]
      /\ pc'[h] # "idle" => arg'[h] = arg[h]
  BY HandlerSteps DEF TrackInv, Typed, Working, Alert
<1>2. pc'[h] \notin Revoked
  BY <1>1 DEF Publish, Announce, Decide, Retain, Persist, Track, Create, Insert,
     Goto, Return, Revoked, Typed, TypeOK
<1>3. At(id, Revoked)' => At(id, Revoked)
  BY <1>1, <1>2 DEF At
<1>4. CASE Announce(h)
  <2>1. CASE UNCHANGED wireVars /\ Return(h)
    <3>1. Tracked(id) /\ UNCHANGED <<ladder, exposed>> /\ pc[h] = "announce"
      BY <1>4, <2>1 DEF Announce, TrackInv, Due, wireVars, ladderVars
    <3>2. Demanding(id) => Demanding(id)'
      BY <1>1, <3>1 DEF Demanding, Published
    <3>3. QED
      BY <1>3, <3>1, <3>2 DEF Tracked
  <2>2. CASE ~(UNCHANGED wireVars /\ Return(h))
    <3>1. /\ Broadcast(id, [kind  |-> "alert", rank |-> arg[h].rank,
                            until |-> arg[h].issued + arg[h].ttl], Revoked)
          /\ pc' = [pc EXCEPT ![h] = "decide"] /\ UNCHANGED arg
      BY <1>4, <2>2 DEF Announce, Goto
    <3>2. ~At(id, Revoked) /\ arg[h].rank >= LadderRank
      BY <1>1, <3>1 DEF Broadcast, Due, Typed, TypeOK
    <3>3. Demanding(id)'
      BY <1>1, <3>1, <3>2 DEF Demanding, Published, Typed, TypeOK
    <3>4. QED
      BY <1>3, <3>2, <3>3 DEF Tracked
  <2>3. QED
    BY <2>1, <2>2
<1>5. CASE Insert(h)
  <2>1. ladder'[id] = "running" /\ UNCHANGED wireVars
    BY <1>1, <1>5 DEF Insert, Typed, TypeOK
  <2>2. ~At(id, Revoked)
    BY <2>1 DEF TrackInv, Due, Tracked, wireVars
  <2>3. QED
    BY <1>3, <2>1, <2>2 DEF Tracked
<1>6. CASE Create(h)
  <2>1. /\ UNCHANGED <<wireVars, exposed>> /\ pc[h] = "create"
        /\ pc'[h] = "insert" /\ arg'[h] = arg[h]
    BY <1>1, <1>6 DEF Create, Goto, Typed, TypeOK
  <2>2. Tracked(id) /\ (ladder[id] = "running" => id \in exposed)
    BY <2>1 DEF TrackInv, MakerInv, Due, wireVars
  <2>3. Demanding(id) => Demanding(id)'
    BY <1>1, <2>1 DEF Demanding, Published
  <2>4. QED
    BY <1>3, <2>1, <2>2, <2>3 DEF Tracked
<1>7. CASE ~(Announce(h) \/ Insert(h) \/ Create(h))
  <2>1. UNCHANGED <<wireVars, ladder, exposed>>
    BY <1>7 DEF Publish, Decide, Retain, Persist, Track, ladderVars
  <2>2. Tracked(id)
    BY <2>1 DEF TrackInv, Due, wireVars
  <2>3. arg[h].rank >= LadderRank => pc'[h] \in Published
    BY <1>1, <1>7 DEF Publish, Decide, Retain, Persist, Track, Goto, Published,
                      Typed, TypeOK
  <2>4. pc'[h] \in Published => pc'[h] # "idle"
    BY DEF Published
  <2>5. Demanding(id) => Demanding(id)'
    BY <1>1, <2>3, <2>4 DEF Demanding
  <2>6. QED
    BY <1>3, <2>1, <2>2, <2>5 DEF Tracked
<1>8. QED
  BY <1>4, <1>5, <1>6, <1>7

\* A recall of the alert itself ends its claim, or did not go out.
LEMMA RecallTracked ==
  ASSUME TrackInv, NEW h \in Handlers, Recall(h),
         NEW id \in Ids, id = arg[h].id, Due(id)'
  PROVE  Tracked(id)'
<1>1. /\ Typed /\ arg[h].id \in Ids
      /\ \A g \in Handlers \ {h} : pc'[g] = pc[g] /\ arg'[g] = arg[g]
  BY HandlerSteps DEF TrackInv, Typed, Working, Alert
<1>2. CASE Revoke(h)
  <2>1. UNCHANGED wireVars /\ Return(h) /\ pc[h] = "revoke"
    BY <1>1, <1>2 DEF Revoke, Broadcast, Recalled, Due, Typed, TypeOK
  <2>2. Tracked(id) /\ UNCHANGED <<ladder, exposed>> /\ pc'[h] = "idle"
    BY <1>1, <1>2, <2>1 DEF Revoke, Return, TrackInv, Due, wireVars, ladderVars,
                            Typed, TypeOK
  <2>3. /\ Demanding(id) => Demanding(id)'
        /\ At(id, Revoked)' => At(id, Revoked)
    BY <1>1, <2>1, <2>2 DEF Demanding, Published, At, Revoked
  <2>4. QED
    BY <2>2, <2>3 DEF Tracked
<1>3. CASE ~Revoke(h)
  <2>1. UNCHANGED wireVars /\ pc[h] \in Revoked
    BY <1>3 DEF Recall, Inspect, Clear, Stop, Revoked
  <2>2. Due(id) /\ At(id, Revoked)
    BY <2>1 DEF Due, wireVars, At
  <2>3. QED
    BY <2>2 DEF TrackInv, Tracked
<1>4. QED
  BY <1>2, <1>3

LEMMA NextTrack == TrackInv /\ [Next]_vars => TrackInv'
<1>1. SUFFICES ASSUME TrackInv, [Next]_vars PROVE TrackInv'
  OBVIOUS
<1>2. Typed /\ Typed'
  BY <1>1, NextTyped DEF TrackInv
<1>3. ASSUME NEW h \in Handlers, Publish(h) \/ Recall(h) PROVE TrackInv'
  <2>1. MakerInv'
    BY <1>1, <1>3, HandlerMaker
  <2>2. \A id \in Ids : Due(id)' => Tracked(id)'
    BY <1>1, <1>3, OthersTracked, PublishTracked, RecallTracked
  <2>3. QED
    BY <1>2, <2>1, <2>2 DEF TrackInv
<1>4. ASSUME \/ \E h \in Handlers : StartPublish(h) \/ StartRecall(h)
             \/ Sweep \/ Tick \/ UNCHANGED vars
      PROVE  TrackInv'
  <2>1. UNCHANGED <<wire, crossed, esc, ladder, exposed>>
    BY <1>4 DEF StartPublish, StartRecall, Sweep, SweepExpired, SweepClear, Tick,
                vars, slotVars, wireVars, ladderVars
  <2>2. \/ \E h \in Handlers : StartPublish(h) \/ StartRecall(h)
        \/ UNCHANGED <<pc, arg>>
    BY <1>4 DEF Sweep, SweepExpired, SweepClear, Tick, vars
  <2>3. \A g \in Handlers : pc'[g] \in Published =>
          pc[g] = pc'[g] \/ pc'[g] \notin {"create", "insert"}
    BY <1>2, <2>2 DEF StartPublish, StartRecall, Typed, TypeOK
  <2>4. MakerInv'
    BY <1>1, <2>1, <2>3 DEF TrackInv, MakerInv, Published
  <2>5. ASSUME NEW id \in Ids, Demanding(id) PROVE Demanding(id)'
    <3>1. PICK g \in Handlers : arg[g].id = id /\ pc[g] \in Published /\ arg[g].rank >= LadderRank
      BY <2>5 DEF Demanding
    <3>2. pc'[g] = pc[g] /\ arg'[g] = arg[g]
      BY <1>2, <2>2, <3>1 DEF StartPublish, StartRecall, Published, Typed, TypeOK
    <3>3. QED
      BY <3>1, <3>2 DEF Demanding
  <2>6. \A id \in Ids : At(id, Revoked)' <=> At(id, Revoked)
    BY <1>2, <2>2, AtKept
  <2>7. \A id \in Ids : Due(id)' => Tracked(id)'
    BY <1>1, <2>1, <2>5, <2>6 DEF TrackInv, Due, Tracked
  <2>8. QED
    BY <1>2, <2>4, <2>7 DEF TrackInv
<1>5. QED
  BY <1>1, <1>3, <1>4 DEF Next

\* An alert that went out, demands an acknowledgement and was not recalled is
\* on the ladder when its handlers are done, whatever failed in between, but
\* for the two races LadderRuns names: for any number of alerts and handlers
\* and without any assumption about which operations overlap.
THEOREM LaddersRun == Spec => []LadderRuns
<1>1. TrackInv /\ [Next]_vars => TrackInv'
  BY NextTrack
<1>2. TrackInv => LadderRuns
  BY DEF TrackInv, Due, Tracked, Demanding, LadderRuns, Quiet, Published
<1>3. QED
  BY InitTrack, <1>1, <1>2, PTL DEF Spec
=============================================================================
