----------------------------- MODULE AlertPlane -----------------------------
(***************************************************************************)
(* The server's alert plane: the handlers that publish, renew, recall and  *)
(* expire alerts, running concurrently over the retained slot.             *)
(*                                                                         *)
(* Every HTTP request, every CAP document and every EEW relay runs         *)
(* PublishAlert, RenewAlert or CancelByID in a goroutine of its own        *)
(* (server/internal/api/api.go), so a handler is a process here and each   *)
(* point where another goroutine may run is a separate action.  Only the   *)
(* slot is protected, by Server.mu; it is modelled as the variable mu.     *)
(*                                                                         *)
(* An alert is its id, its severity rank and its validity.  Text, category *)
(* and signature are left out: no decision below reads them.               *)
(***************************************************************************)
EXTENDS Naturals, FiniteSets

CONSTANTS
  Ids,           \* alert ids
  Handlers,      \* goroutines running PublishAlert or CancelByID
  Ranks,         \* severity ranks in use: 0 notice .. 3 emergency
  LadderRank,    \* lowest rank with an escalation schedule (critical)
  TTLs,          \* validity windows an alert may be given
  MaxTime,       \* bound on the clock
  MaxOps,        \* bound on the number of operations started
  MaxSkew,       \* ttl of a cancel envelope
  BrokerFails    \* topics whose Broker.Publish may return an error

ASSUME PlaneAssumption ==
  /\ Ranks \subseteq 0..3
  /\ LadderRank \in 0..3
  /\ TTLs \subseteq Nat
  /\ MaxTime \in Nat
  /\ MaxOps \in Nat
  /\ MaxSkew \in Nat
  /\ BrokerFails \subseteq {"events", "active"}
  /\ "none" \notin Ids
  /\ "free" \notin Handlers
  /\ "sweeper" \notin Handlers

VARIABLES
  now,           \* time.Now().Unix()
  mu,            \* holder of Server.mu: "free", "sweeper" or a handler
  active,        \* Server.active
  retained,      \* the broker's retained message of alerts/active
  wire,          \* per id, the last envelope alerts/events carried about it
  outbox,        \* ids whose jobs delivery_jobs holds
  esc,           \* Server.esc: "nil" until the first TrackForAck
  ladder,        \* per id, the escalation item: "none", "running", "done"
  pc,            \* per handler, the step it takes next
  arg,           \* per handler, the alert it publishes or the cancel it sends
  ops,           \* operations started so far
  \* what the properties remember of a race; no action below reads it
  crossed,       \* ids whose last broadcast met an operation of the other kind
  exposed        \* ids tracked while another handler was making the escalator

slotVars   == <<mu, active, retained>>
ladderVars == <<esc, ladder, exposed>>
wireVars   == <<wire, crossed>>
vars == <<now, slotVars, wireVars, outbox, ladderVars, pc, arg, ops>>

-----------------------------------------------------------------------------

Alert == [id : Ids, rank : 0..3, issued : Nat, ttl : Nat]
None  == [id |-> "none", rank |-> 0, issued |-> 0, ttl |-> 0]
Slot  == Alert \cup {None}

Silent   == [kind |-> "none", rank |-> 0, until |-> 0]
Recalled == [kind |-> "cancel", rank |-> 0, until |-> 0]
Envelope == [kind : {"none", "alert", "cancel"}, rank : 0..3, until : Nat]

PublishSteps == {"announce", "decide", "retain", "persist", "track",
                 "create", "insert"}
RecallSteps  == {"revoke", "inspect", "clear", "stop"}

Expired(a) == now > a.issued + a.ttl
Valid(a)   == a # None /\ ~Expired(a)

Quiet(id) == \A h \in Handlers : arg[h].id = id => pc[h] = "idle"

\* The steps behind a broadcast: what an operation still has to do about it.
Published == {"decide", "retain", "persist", "track", "create", "insert"}
Revoked   == {"inspect", "clear", "stop"}

At(id, steps) == \E g \in Handlers : arg[g].id = id /\ pc[g] \in steps

\* An envelope about id goes out; others says what operations cross it.
Broadcast(id, envelope, others) ==
  /\ wire' = [wire EXCEPT ![id] = envelope]
  /\ crossed' = IF At(id, others) THEN crossed \cup {id} ELSE crossed \ {id}

Goto(h, step) == pc' = [pc EXCEPT ![h] = step] /\ UNCHANGED arg
Return(h)     == pc' = [pc EXCEPT ![h] = "idle"] /\ arg' = [arg EXCEPT ![h] = None]

-----------------------------------------------------------------------------
(* PublishAlert and RenewAlert.  A publish of an id already in use is a    *)
(* renewal: the caller stamps issued_at afresh and calls PublishAlert.     *)

\* Fault variant: a renewal is stamped with the end of its window.
StampEnd == now + MaxSkew

Stamp == now

StartPublish(h) ==
  /\ pc[h] = "idle"
  /\ ops < MaxOps
  /\ \E id \in Ids, rank \in Ranks, ttl \in TTLs :
       arg' = [arg EXCEPT ![h] =
                 [id |-> id, rank |-> rank, issued |-> Stamp, ttl |-> ttl]]
  /\ ops' = ops + 1
  /\ pc' = [pc EXCEPT ![h] = "announce"]
  /\ UNCHANGED <<now, slotVars, wireVars, outbox, ladderVars>>

\* Broadcast on alerts/events; an error ends the handler with nothing done.
Announce(h) ==
  /\ pc[h] = "announce"
  /\ \/ /\ Broadcast(arg[h].id,
                     [kind  |-> "alert", rank |-> arg[h].rank,
                      until |-> arg[h].issued + arg[h].ttl], Revoked)
        /\ Goto(h, "decide")
     \/ /\ "events" \in BrokerFails
        /\ Return(h)
        /\ UNCHANGED wireVars
  /\ UNCHANGED <<now, slotVars, outbox, ladderVars, ops>>

\* Fault variant: the slot yields to anything.
TakesSlotAlways(a) == a \in Alert

\* The SPEC section 5 replacement policy: a vacant or stale slot is free to
\* take, a live one yields to equal or higher severity only.
TakesSlot(a) == ~Valid(active) \/ a.rank >= active.rank

\* Fault variant: the lock is dropped before the retained publish.
DecideUnlocked(h) ==
  /\ pc[h] = "decide"
  /\ mu = "free"
  /\ active' = IF TakesSlot(arg[h]) THEN arg[h] ELSE active
  /\ Goto(h, IF TakesSlot(arg[h]) THEN "retain" ELSE "persist")
  /\ UNCHANGED <<now, mu, retained, wireVars, outbox, ladderVars, ops>>

\* maybeSetActive up to the assignment of s.active.
Decide(h) ==
  /\ pc[h] = "decide"
  /\ mu = "free"
  /\ IF TakesSlot(arg[h])
       THEN active' = arg[h] /\ mu' = h /\ Goto(h, "retain")
       ELSE Goto(h, "persist") /\ UNCHANGED <<mu, active>>
  /\ UNCHANGED <<now, retained, wireVars, outbox, ladderVars, ops>>

\* maybeSetActive's retained publish, still under the lock.  Its error is
\* only logged.
Retain(h) ==
  /\ pc[h] = "retain"
  /\ \/ retained' = arg[h]
     \/ "active" \in BrokerFails /\ UNCHANGED retained
  /\ mu' = "free"
  /\ Goto(h, "persist")
  /\ UNCHANGED <<now, active, wireVars, outbox, ladderVars, ops>>

\* Fault variant: a failing write ends the handler.
PersistOrGiveUp(h) ==
  /\ pc[h] = "persist"
  /\ \/ outbox' = outbox \cup {arg[h].id} /\ Goto(h, "track")
     \/ Return(h) /\ UNCHANGED outbox
  /\ UNCHANGED <<now, slotVars, wireVars, ladderVars, ops>>

\* Save the envelope to the history table, which no handler reads, then
\* Delivery.Enqueue: jobs are keyed by the alert id, so a renewal adds none.
\* Nothing is queued when no channel is configured, when none has a target for
\* the alert, or when the insert fails.  Every error is logged and the handler
\* goes on.
Persist(h) ==
  /\ pc[h] = "persist"
  /\ outbox' \in {outbox, outbox \cup {arg[h].id}}
  /\ Goto(h, "track")
  /\ UNCHANGED <<now, slotVars, wireVars, ladderVars, ops>>

\* TrackForAck returns at once below critical; otherwise it reads s.esc,
\* without a lock, to see whether the escalator exists.
Track(h) ==
  /\ pc[h] = "track"
  /\ IF arg[h].rank < LadderRank
       THEN Return(h)
       ELSE Goto(h, IF esc = "nil" THEN "create" ELSE "insert")
  /\ UNCHANGED <<now, slotVars, wireVars, outbox, ladderVars, ops>>

\* s.esc = newEscalator(): whatever an earlier escalator held is gone.
Create(h) ==
  /\ pc[h] = "create"
  /\ esc' = "ready"
  /\ ladder' = [id \in Ids |-> "none"]
  /\ Goto(h, "insert")
  /\ UNCHANGED <<now, slotVars, wireVars, outbox, exposed, ops>>

\* Remember whether another handler, which found no escalator, has yet to make one.
Expose(id) ==
  exposed' = IF \E g \in Handlers : pc[g] = "create" THEN exposed \cup {id}
                                                     ELSE exposed \ {id}

\* Fault variant: an alert already tracked keeps its old item.
InsertIfAbsent(h) ==
  /\ pc[h] = "insert"
  /\ ladder' = [ladder EXCEPT ![arg[h].id] =
                  IF @ = "none" THEN "running" ELSE @]
  /\ Expose(arg[h].id)
  /\ Return(h)
  /\ UNCHANGED <<now, slotVars, wireVars, outbox, esc, ops>>

\* The item is replaced under esc.mu, so a renewal starts a fresh ladder.
Insert(h) ==
  /\ pc[h] = "insert"
  /\ ladder' = [ladder EXCEPT ![arg[h].id] = "running"]
  /\ Expose(arg[h].id)
  /\ Return(h)
  /\ UNCHANGED <<now, slotVars, wireVars, outbox, esc, ops>>

-----------------------------------------------------------------------------
(* CancelByID.  arg[h].id is the recalled alert's id.                      *)

StartRecall(h) ==
  /\ pc[h] = "idle"
  /\ ops < MaxOps
  /\ \E id \in Ids :
       arg' = [arg EXCEPT ![h] =
                 [id |-> id, rank |-> 0, issued |-> Stamp, ttl |-> MaxSkew]]
  /\ ops' = ops + 1
  /\ pc' = [pc EXCEPT ![h] = "revoke"]
  /\ UNCHANGED <<now, slotVars, wireVars, outbox, ladderVars>>

Revoke(h) ==
  /\ pc[h] = "revoke"
  /\ \/ /\ Broadcast(arg[h].id, Recalled, Published)
        /\ Goto(h, "inspect")
     \/ /\ "events" \in BrokerFails
        /\ Return(h)
        /\ UNCHANGED wireVars
  /\ UNCHANGED <<now, slotVars, outbox, ladderVars, ops>>

\* Lock; forget the slot when it holds the recalled alert.
Inspect(h) ==
  /\ pc[h] = "inspect"
  /\ mu = "free"
  /\ IF active # None /\ active.id = arg[h].id
       THEN active' = None /\ mu' = h /\ Goto(h, "clear")
       ELSE Goto(h, "stop") /\ UNCHANGED <<mu, active>>
  /\ UNCHANGED <<now, retained, wireVars, outbox, ladderVars, ops>>

\* Fault variant: the retained message is left on the broker.
ClearForgotten(h) ==
  /\ pc[h] = "clear"
  /\ mu' = "free"
  /\ Goto(h, "stop")
  /\ UNCHANGED <<now, active, retained, wireVars, outbox, ladderVars, ops>>

\* Fault variant: the recall returns without unlocking.
ClearKeepsLock(h) ==
  /\ pc[h] = "clear"
  /\ retained' = None
  /\ Goto(h, "stop")
  /\ UNCHANGED <<now, mu, active, wireVars, outbox, ladderVars, ops>>

\* Publish the empty retained payload and unlock.
Clear(h) ==
  /\ pc[h] = "clear"
  /\ \/ retained' = None
     \/ "active" \in BrokerFails /\ UNCHANGED retained
  /\ mu' = "free"
  /\ Goto(h, "stop")
  /\ UNCHANGED <<now, active, wireVars, outbox, ladderVars, ops>>

\* Save the cancel, then StopEscalation.
Stop(h) ==
  /\ pc[h] = "stop"
  /\ ladder' = [ladder EXCEPT ![arg[h].id] =
                  IF @ = "running" THEN "done" ELSE @]
  /\ Return(h)
  /\ UNCHANGED <<now, slotVars, wireVars, outbox, esc, exposed, ops>>

-----------------------------------------------------------------------------
(* RunSweeper: sweepExpiredActive on every tick, under the same lock.      *)

SweepExpired ==
  /\ mu = "free"
  /\ active # None
  /\ Expired(active)
  /\ active' = None
  /\ mu' = "sweeper"
  /\ UNCHANGED <<now, retained, wireVars, outbox, ladderVars, pc, arg, ops>>

\* Fault variant: the sweep forgets the broker's copy.
SweepForgotten ==
  /\ mu = "sweeper"
  /\ mu' = "free"
  /\ UNCHANGED <<now, active, retained, wireVars, outbox, ladderVars, pc, arg, ops>>

SweepClear ==
  /\ mu = "sweeper"
  /\ \/ retained' = None
     \/ "active" \in BrokerFails /\ UNCHANGED retained
  /\ mu' = "free"
  /\ UNCHANGED <<now, active, wireVars, outbox, ladderVars, pc, arg, ops>>

Tick ==
  /\ now < MaxTime
  /\ now' = now + 1
  /\ UNCHANGED <<slotVars, wireVars, outbox, ladderVars, pc, arg, ops>>

-----------------------------------------------------------------------------

Init ==
  /\ now = 0
  /\ mu = "free"
  /\ active = None
  /\ retained = None
  /\ wire = [id \in Ids |-> Silent]
  /\ outbox = {}
  /\ esc = "nil"
  /\ ladder = [id \in Ids |-> "none"]
  /\ pc = [h \in Handlers |-> "idle"]
  /\ arg = [h \in Handlers |-> None]
  /\ ops = 0
  /\ crossed = {}
  /\ exposed = {}

Publish(h) == \/ Announce(h) \/ Decide(h) \/ Retain(h) \/ Persist(h)
              \/ Track(h) \/ Create(h) \/ Insert(h)
Recall(h)  == Revoke(h) \/ Inspect(h) \/ Clear(h) \/ Stop(h)
Sweep      == SweepExpired \/ SweepClear

Next ==
  \/ \E h \in Handlers : StartPublish(h) \/ StartRecall(h)
  \/ \E h \in Handlers : Publish(h) \/ Recall(h)
  \/ Sweep
  \/ Tick

Spec == Init /\ [][Next]_vars

\* A goroutine that can run does, a mutex is granted in the end (Go's
\* sync.Mutex does not starve a waiter), and the sweeper's ticker keeps
\* firing.  Nothing obliges anyone to publish, or the clock to reach a value.
Fairness ==
  /\ \A h \in Handlers : WF_vars(Publish(h) \/ Recall(h))
  /\ WF_vars(Sweep)

FairSpec == Spec /\ Fairness

-----------------------------------------------------------------------------
(* Properties *)

\* Every variable has its type; in particular no alert is issued later than
\* the clock's bound, and the two copies of the slot hold alerts.
TypeOK ==
  /\ now \in 0..MaxTime
  /\ mu \in {"free", "sweeper"} \cup Handlers
  /\ active \in Slot
  /\ retained \in Slot
  /\ wire \in [Ids -> Envelope]
  /\ outbox \subseteq Ids
  /\ esc \in {"nil", "ready"}
  /\ ladder \in [Ids -> {"none", "running", "done"}]
  /\ pc \in [Handlers -> {"idle"} \cup PublishSteps \cup RecallSteps]
  /\ arg \in [Handlers -> Slot]
  /\ \A h \in Handlers : arg[h].issued <= MaxTime
  /\ ops \in 0..MaxOps
  /\ crossed \subseteq Ids
  /\ exposed \subseteq Ids

\* Whenever no one holds the lock, what a reconnecting client would be sent is
\* what the server believes is active: maybeSetActive, CancelByID and the
\* sweeper never let their two writes be seen apart or crossed.
SlotMirrored == mu = "free" => retained = active

\* What late joiners are told is never downgraded: a live retained alert is
\* replaced only by one of equal or higher severity, or removed by a recall of
\* that very alert - whatever the handlers that decided it saw before.
NoDowngrade ==
  [][ Valid(retained) /\ retained' # retained =>
        \/ retained' # None /\ retained'.rank >= retained.rank
        \/ \E h \in Handlers : pc[h] = "clear" /\ arg[h].id = retained.id ]_vars

\* Once a recall is the last word on an id and no handler is still working on
\* it, nobody who connects is sent the alert and no ladder runs for it: what
\* SPEC.md:152 says of a recall.  The code does not keep it when the recall
\* goes out while a publish of the same id is behind its own broadcast.
Forgotten(id) == retained.id # id /\ active.id # id /\ ladder[id] # "running"

RecallIsFinal ==
  \A id \in Ids : Quiet(id) /\ wire[id].kind = "cancel" => Forgotten(id)

\* That race is the only way a recall fails: publishes that had returned or
\* not gone out yet, other recalls of the id, handlers of other alerts and the
\* sweeper may overlap a recall as they like, and it holds.
RecallHolds ==
  \A id \in Ids :
    Quiet(id) /\ wire[id].kind = "cancel" /\ id \notin crossed => Forgotten(id)

\* An alert that went out, demands an acknowledgement and was not recalled has
\* its ladder running once its handler is done, whatever became of the history
\* row and of the outbox, and also when it re-uses the id of a ladder that was
\* stopped.  Two races can cost it the ladder, no more: a recall of the id at
\* work when it went out, and a handler that had found no escalator, and makes
\* one, when it was tracked.
LadderRuns ==
  \A id \in Ids :
    /\ Quiet(id)
    /\ wire[id].kind = "alert" /\ wire[id].rank >= LadderRank
    /\ id \notin crossed \cup exposed
    => ladder[id] = "running"

\* The same without the second exception: what TrackForAck is for.  The code
\* does not keep it, since it reads and makes the escalator without a lock.
LadderAlwaysRuns ==
  \A id \in Ids :
    /\ Quiet(id)
    /\ wire[id].kind = "alert" /\ wire[id].rank >= LadderRank
    /\ id \notin crossed
    => ladder[id] = "running"

\* When a recall takes the retained alert away and another alert is still in
\* force, that one is put into the slot instead of an empty payload, as the
\* second step of a recall in SPEC section 5.1 has it.  The code does not do this.
InForce(id) == Quiet(id) /\ wire[id].kind = "alert" /\ now <= wire[id].until

RecallPromotes ==
  [][ (\E h \in Handlers : pc[h] = "clear" /\ pc'[h] # "clear")
        => retained' # None \/ \A id \in Ids : ~InForce(id) ]_vars

\* The TTL self-heal: a retained alert past its window does not stay.
Stale == retained # None /\ Expired(retained)
StaleLeaves == Stale ~> ~Stale

\* Every handler returns: the slot's mutex never wedges the alert plane.
HandlersReturn == \A h \in Handlers : pc[h] # "idle" ~> pc[h] = "idle"
=============================================================================
