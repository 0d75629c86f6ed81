------------------------------- MODULE Client -------------------------------
(***************************************************************************)
(* The browser client (web/app.js, web/verify.js): what it accepts, what   *)
(* it shows and when it takes that away again.                             *)
(*                                                                         *)
(* onMessage suspends on signature verification, so a message is first one *)
(* of the copies in `pool` and is handled when its own verification is     *)
(* done, in any order.  Each verification resolves in a task of its own    *)
(* and nothing is awaited after it: the accept gate and the presentation   *)
(* are one step.  An empty retained payload is handled without waiting, so *)
(* it overtakes whatever is being verified.                                *)
(*                                                                         *)
(* The server is summarised by what it puts on alerts/events and           *)
(* alerts/active; AlertPlane is about how it gets there.  A message is     *)
(* named by its position in `sent`, which also stands for its nonce.       *)
(***************************************************************************)
EXTENDS Naturals, Sequences, FiniteSets, SequencesExt

CONSTANTS
  Ids,           \* alert ids
  Offers,        \* <<severity rank, validity>> of the alerts the server sends
  MaxSkew,       \* max_skew, as served by /pubkey; also the ttl of a cancel
  MaxTime,       \* bound on the clock
  MaxSent,       \* bound on the number of messages
  MaxConnects,   \* bound on the connections made
  MaxReloads,    \* bound on the reloads of the page
  MaxPresses     \* bound on the uses of the confirm button

ASSUME ClientAssumption ==
  /\ Offers \subseteq (0..3) \X Nat
  /\ {MaxSkew, MaxTime, MaxSent, MaxConnects, MaxReloads, MaxPresses} \subseteq Nat

VARIABLES
  now,           \* Date.now(), in seconds
  sent,          \* what the server published on alerts/events, in order
  slot,          \* the message retained on alerts/active, 0 when there is none
  online,        \* client.connected
  pool,          \* per message, the copies whose verification is under way
  nonces,        \* seen, kept in localStorage
  memory,        \* seenAlerts, kept in localStorage: per id the issue accepted
  handled,       \* messages that passed the gate, in order (history)
  cancelled,     \* cancelledSet
  activeFs,      \* fullscreen alerts, the one in front last
  toasts,        \* messages shown as toasts
  timers,        \* pending setTimeout calls of scheduleExpiry
  acks,          \* ids this device's retained acknowledgement was sent for
  count          \* connections, reloads and presses so far

broker  == <<sent, slot>>
gate    == <<nonces, memory, handled>>
screen  == <<activeFs, toasts, timers>>
vars == <<now, broker, online, pool, gate, cancelled, screen, acks, count>>

-----------------------------------------------------------------------------

Message == [kind : {"alert", "cancel"}, id : Ids, rank : 0..3,
            issued : Nat, ttl : Nat]

\* A fullscreen entry keeps the severity it was made with; `no` is the message
\* whose wording and window it has now.
Entry == [id : Ids, rank : 2..3, no : Nat]
Timer == [id : Ids, at : Nat]

Until(no) == sent[no].issued + sent[no].ttl

\* Fault variant: a warning takes over the screen as well.
FullscreenFromWarning(no) == sent[no].rank >= 1

Fullscreen(no) == sent[no].rank >= 2

EntryFor(no) == [id |-> sent[no].id, rank |-> sent[no].rank, no |-> no]
OnTop(id)    == \E e \in Range(activeFs) : e.id = id
ToastsOf(id) == {no \in toasts : sent[no].id = id}

\* removeFs takes away the first entry it finds, removeToast every toast.
FsWithout(id) ==
  LET i == SelectInSeq(activeFs, LAMBDA e : e.id = id)
  IN  IF i = 0 THEN activeFs ELSE RemoveAt(activeFs, i)

ToastsWithout(id) == toasts \ ToastsOf(id)

-----------------------------------------------------------------------------
(* The server.  What it publishes reaches the client if it is connected:   *)
(* the session is clean, so nothing is kept for later.                     *)

TakesSlot(rank) ==
  slot = 0 \/ now > Until(slot) \/ rank >= sent[slot].rank

Arrive(no, copies) ==
  pool' = IF online THEN [pool EXCEPT ![no] = copies] ELSE pool

\* PublishAlert: alerts/events, and alerts/active when it takes the slot.
Issue ==
  /\ Len(sent) < MaxSent
  /\ \E id \in Ids, offer \in Offers :
       /\ sent' = Append(sent, [kind |-> "alert", id |-> id, rank |-> offer[1],
                                issued |-> now, ttl |-> offer[2]])
       /\ slot' = IF TakesSlot(offer[1]) THEN Len(sent) + 1 ELSE slot
       /\ Arrive(Len(sent) + 1, IF TakesSlot(offer[1]) THEN 2 ELSE 1)
  /\ UNCHANGED <<now, online, gate, cancelled, screen, acks, count>>

\* An empty retained payload: clearSnapshot, if the client is there to see it.
SlotEmptied ==
  /\ slot' = 0
  /\ activeFs' = IF online THEN <<>> ELSE activeFs

\* CancelByID: a cancel on alerts/events, and an empty slot if it held the id.
Recall ==
  /\ Len(sent) < MaxSent
  /\ \E id \in Ids :
       /\ sent' = Append(sent, [kind |-> "cancel", id |-> id, rank |-> 0,
                                issued |-> now, ttl |-> MaxSkew])
       /\ IF slot # 0 /\ sent[slot].id = id
            THEN SlotEmptied
            ELSE UNCHANGED <<slot, activeFs>>
  /\ Arrive(Len(sent) + 1, 1)
  /\ UNCHANGED <<now, online, gate, cancelled, toasts, timers, acks, count>>

\* sweepExpiredActive.
SlotExpired ==
  /\ slot # 0
  /\ now > Until(slot)
  /\ SlotEmptied
  /\ UNCHANGED <<now, sent, online, pool, gate, cancelled, toasts, timers, acks,
                 count>>

-----------------------------------------------------------------------------
(* The accept gate, run when the verification of a copy is done.           *)

\* Fault variant: no comparison with the issue accepted before.
IsNewToAll(no) == no \notin nonces

\* A repeat of a nonce is a replay; an issue that is not newer than the one
\* accepted for its id was overtaken by it.  A cancel has an id of its own.
IsNew(no) ==
  /\ no \notin nonces
  /\ sent[no].kind = "cancel" \/ memory[sent[no].id] = 0
       \/ sent[no].issued > sent[memory[sent[no].id]].issued

Accepts(no) ==
  /\ now - sent[no].issued <= MaxSkew
  /\ now <= Until(no)
  /\ IsNew(no)

Fresh(no) == no # 0 /\ now - sent[no].issued <= MaxSkew

\* Remember the message, then sweep what max_skew has passed.
Remember(no) ==
  /\ nonces' = {n \in nonces \cup {no} : Fresh(n)}
  /\ memory' = [id \in Ids |->
       LET last == IF sent[no].kind = "alert" /\ sent[no].id = id
                     THEN no ELSE memory[id]
       IN  IF Fresh(last) THEN last ELSE 0]
  /\ handled' = Append(handled, no)

\* The second half of the gate: a known id whose severity is not raised.
IsRenewal(no) ==
  LET last == memory[sent[no].id]
  IN  last # 0 /\ sent[no].rank <= sent[last].rank

-----------------------------------------------------------------------------
(* Presentation.                                                           *)

\* scheduleExpiry sets no timer when the window is already over.
Scheduled(no) ==
  IF Until(no) > now THEN timers \cup {[id |-> sent[no].id, at |-> Until(no)]}
                     ELSE timers

\* pushFullscreen leaves an id alone that is on the list already.
Pushed(no) ==
  IF OnTop(sent[no].id) THEN activeFs ELSE Append(activeFs, EntryFor(no))

\* renderAlert.
Render(no) ==
  /\ timers' = Scheduled(no)
  /\ IF Fullscreen(no)
       THEN activeFs' = Pushed(no) /\ UNCHANGED toasts
       ELSE toasts' = toasts \cup {no} /\ UNCHANGED activeFs

\* extendAlert on a fullscreen alert: new wording and window, old severity.
Extend(no) ==
  /\ activeFs' = [i \in DOMAIN activeFs |->
                    IF activeFs[i].id = sent[no].id
                      THEN [activeFs[i] EXCEPT !.no = no] ELSE activeFs[i]]
  /\ timers' = Scheduled(no)
  /\ UNCHANGED toasts

\* Fault variant: a recall clears the whole screen.
WithdrawAll(id) ==
  /\ cancelled' = cancelled \cup {id}
  /\ activeFs' = <<>>
  /\ toasts' = ToastsWithout(id)
  /\ UNCHANGED timers

\* handleCancel.
Withdraw(id) ==
  /\ cancelled' = cancelled \cup {id}
  /\ activeFs' = FsWithout(id)
  /\ toasts' = ToastsWithout(id)
  /\ UNCHANGED timers

\* Fault variant: a recall that came first is not remembered.
PresentAlways(no) ==
  IF sent[no].kind = "cancel" THEN Withdraw(sent[no].id)
  ELSE /\ IF IsRenewal(no) /\ OnTop(sent[no].id) THEN Extend(no) ELSE Render(no)
       /\ UNCHANGED cancelled

\* onMessage, once the gate has let the message through.  A renewal of what is
\* not on the fullscreen list is rendered like a new alert.
Present(no) ==
  LET id == sent[no].id IN
  \/ sent[no].kind = "cancel" /\ Withdraw(id)
  \/ /\ sent[no].kind = "alert"
     /\ id \in cancelled
     /\ UNCHANGED <<cancelled, screen>>
  \/ /\ sent[no].kind = "alert"
     /\ id \notin cancelled
     /\ IF IsRenewal(no) /\ OnTop(id) THEN Extend(no) ELSE Render(no)
     /\ UNCHANGED cancelled

\* One copy's verification is done: the gate, and what follows if it accepts.
Handle(no) ==
  /\ pool[no] > 0
  /\ pool' = [pool EXCEPT ![no] = @ - 1]
  /\ IF Accepts(no)
       THEN Remember(no) /\ Present(no)
       ELSE UNCHANGED <<gate, cancelled, screen>>
  /\ UNCHANGED <<now, broker, online, acks, count>>

\* The callback of scheduleExpiry: it goes by the id, whatever was shown since.
Fire(t) ==
  /\ now >= t.at
  /\ timers' = timers \ {t}
  /\ activeFs' = FsWithout(t.id)
  /\ toasts' = ToastsWithout(t.id)
  /\ UNCHANGED <<now, broker, online, pool, gate, cancelled, acks, count>>

\* The confirm button: acknowledge the alert in front and take it away.  The
\* acknowledgement is only sent while connected.
Confirm ==
  /\ activeFs # <<>>
  /\ count.presses < MaxPresses
  /\ activeFs' = Front(activeFs)
  /\ acks' = IF online THEN acks \cup {Last(activeFs).id} ELSE acks
  /\ count' = [count EXCEPT !.presses = @ + 1]
  /\ UNCHANGED <<now, broker, online, pool, gate, cancelled, toasts, timers>>

-----------------------------------------------------------------------------
(* The connection, the page and the clock.                                 *)

\* A new connection subscribes afresh and is sent the retained message.
Connect ==
  /\ ~online
  /\ count.connects < MaxConnects
  /\ online' = TRUE
  /\ pool' = IF slot = 0 THEN pool ELSE [pool EXCEPT ![slot] = @ + 1]
  /\ count' = [count EXCEPT !.connects = @ + 1]
  /\ UNCHANGED <<now, broker, gate, cancelled, screen, acks>>

Disconnect ==
  /\ online
  /\ count.connects < MaxConnects
  /\ online' = FALSE
  /\ UNCHANGED <<now, broker, pool, gate, cancelled, screen, acks, count>>

\* Only localStorage and what the broker retains survive a reload.
Reload ==
  /\ count.reloads < MaxReloads
  /\ count.connects < MaxConnects
  /\ online' = FALSE
  /\ pool' = [no \in 1..MaxSent |-> 0]
  /\ cancelled' = {}
  /\ activeFs' = <<>>
  /\ toasts' = {}
  /\ timers' = {}
  /\ count' = [count EXCEPT !.reloads = @ + 1]
  /\ UNCHANGED <<now, broker, gate, acks>>

Tick ==
  /\ now < MaxTime
  /\ now' = now + 1
  /\ UNCHANGED <<broker, online, pool, gate, cancelled, screen, acks, count>>

-----------------------------------------------------------------------------

Init ==
  /\ now = 0
  /\ sent = <<>>
  /\ slot = 0
  /\ online = FALSE
  /\ pool = [no \in 1..MaxSent |-> 0]
  /\ nonces = {}
  /\ memory = [id \in Ids |-> 0]
  /\ handled = <<>>
  /\ cancelled = {}
  /\ activeFs = <<>>
  /\ toasts = {}
  /\ timers = {}
  /\ acks = {}
  /\ count = [connects |-> 0, reloads |-> 0, presses |-> 0]

Server == Issue \/ Recall \/ SlotExpired
Page   == Confirm \/ Connect \/ Disconnect \/ Reload

Next ==
  \/ Server
  \/ \E no \in 1..MaxSent : Handle(no)
  \/ \E t \in timers : Fire(t)
  \/ Page
  \/ Tick

Spec == Init /\ [][Next]_vars

-----------------------------------------------------------------------------
(* Properties *)

\* Every variable has its type; in particular only critical and emergency
\* alerts take over the screen.
TypeOK ==
  /\ now \in 0..MaxTime
  /\ sent \in Seq(Message) /\ Len(sent) <= MaxSent
  /\ slot \in 0..Len(sent)
  /\ online \in BOOLEAN
  /\ pool \in [1..MaxSent -> Nat]
  /\ nonces \subseteq 1..Len(sent)
  /\ memory \in [Ids -> 0..Len(sent)]
  /\ handled \in Seq(1..Len(sent))
  /\ cancelled \subseteq Ids
  /\ activeFs \in Seq(Entry)
  /\ toasts \subseteq 1..Len(sent)
  /\ timers \subseteq Timer
  /\ acks \subseteq Ids
  /\ count \in [connects : 0..MaxConnects, reloads : 0..MaxReloads,
                presses : 0..MaxPresses]

\* Issues of an alert are acted on in the order they were issued and nothing
\* is acted on twice, although verifications finish in any order, each message
\* arrives on two topics and once more per connection, the page may reload,
\* and what the gate remembers is swept.
ActedInOrder ==
  \A i, j \in DOMAIN handled :
    i < j =>
      /\ handled[i] # handled[j]
      /\ \/ sent[handled[i]].id # sent[handled[j]].id
         \/ "cancel" \in {sent[handled[i]].kind, sent[handled[j]].kind}
         \/ sent[handled[i]].issued < sent[handled[j]].issued

\* Once the page has acted on a recall, nothing the server sent under that id
\* before the recall is on screen again (SPEC section 5.1 keeps the
\* cancelled-set for an original that arrives late): not as a copy verified
\* later, nor as a renewal that crossed the recall, nor as a second entry that
\* the removal did not find, nor from the retained slot after a reload, which
\* forgets the recall.  What is sent under the id later is not restricted.
Shown == toasts \cup {e.no : e \in Range(activeFs)}

RecallSticks ==
  \A c \in Range(handled), no \in Shown :
    sent[c].kind = "cancel" /\ sent[no].id = sent[c].id => no > c

\* What one would like as well and the code does not give: an alert issued
\* under an id after its last recall is presented when it is accepted
\* (eew/dedup.go: "a re-issued warning for the same id must get through").
\* The page never takes an id off cancelledSet, so it drops every later issue
\* until it is reloaded.  TLC refutes this one.
RecalledLater(no) ==
  \E c \in 1..Len(sent) :
    c > no /\ sent[c].kind = "cancel" /\ sent[c].id = sent[no].id

ReissueGetsThrough ==
  [][ \A no \in 1..Len(sent) :
        handled' = Append(handled, no) /\ sent[no].kind = "alert"
          /\ ~RecalledLater(no)
        => OnTop(sent[no].id)' \/ ToastsOf(sent[no].id)' # {} ]_vars

\* A fullscreen alert does not vanish by itself: it goes when it is confirmed
\* while in front, recalled, past the window of an issue accepted under its
\* id, cleared by an empty slot, or lost with the page.
RunOut(id) == \E no \in Range(handled) : sent[no].id = id /\ now >= Until(no)

NoSilentLoss ==
  [][ \A e \in Range(activeFs) : ~OnTop(e.id)' =>
        \/ e = Last(activeFs) /\ count'.presses # count.presses
        \/ e.id \in cancelled'
        \/ RunOut(e.id)
        \/ slot' = 0 /\ slot # 0
        \/ count'.reloads # count.reloads ]_vars

\* What is on screen is no milder than the last issue accepted for it: an
\* alert whose severity is raised while it is shown is presented again, as
\* SPEC section 5.2 demands.
UpgradeShown ==
  \A e \in Range(activeFs) :
    memory[e.id] # 0 => e.rank >= sent[memory[e.id]].rank
=============================================================================
