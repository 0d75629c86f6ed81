# A formal model of AlertHub

AlertHub is a self-hosted emergency alert hub. A Go server signs alerts, broadcasts them over an embedded MQTT broker,
keeps the most important one retained for devices that connect late, queues copies for webhooks and e-mail, watches
who acknowledged, gets louder when nobody does, and writes an audit trail that cannot be edited unnoticed. This
directory holds TLA+ models of that program, TLC runs over small instances, and theorems checked by TLAPS. Paths below
are relative to `src/`; `api/api.go` and the like are under `src/server/internal/`.

## 1. Inventory

| Component | State | Operations | Interacts with |
|---|---|---|---|
| Alert plane (`api/api.go`) | `Server.active`, the retained message of `alerts/active` | `PublishAlert`, `RenewAlert`, `CancelByID`, `sweepExpiredActive` | called by the HTTP panel, CAP, EEW and drills; calls broker, store, outbox, ladder |
| Delivery outbox (`delivery/`, `store/delivery.go`) | `delivery_jobs` | `Enqueue`, `ClaimDueDeliveries`, `deliver` (send, settle) | fed by the alert plane; drained by one worker per process |
| Audit log (`store/audit*.go`) | `audit_log`, the anchor in `settings`, `auditMu` | `AppendAudit`, `PruneAudit`, `VerifyAuditChain` | written by every handler, pruned by a ticker in `main.go` |
| SIEM exporter (`siem/`) | `cursors[siem_export]` | `exportOnce` | reads the audit log, ships to a collector |
| Escalation ladder (`api/escalation.go`) | `escalator.items` | `TrackForAck`, `StopEscalation`, `evalEscalations` | started and stopped by the alert plane; reads acks and presence |
| Acks and presence (`api/acks.go`, `api/presence.go`) | `alert_acks`, `Server.presence` | `OnAck`, `OnPresence` | broker callbacks |
| Browser client (`web/app.js`, `web/verify.js`) | seen nonces and ids, cancelled set, what is on screen, timers | `onMessage`/`acceptAlert`, expiry, acknowledge | broker; localStorage survives a reload |
| Fail-loud heartbeat (`api/api.go`, `web/app.js`, `watchdog/`) | `lastPublishErr`, the retained beat; `failState`, streaks, the banner | `beat`, `selfCheck`, `handleHeartbeat`, `evalLiveness`, `ping` | broker, store, a dead-man switch outside |
| EEW feeds (`eew/`) | `Deduper.seen` | `runFeed`, `Emit`, `Forget` | two websockets; calls the alert plane |
| CAP (`cap/`, `api/cap_handlers.go`) | none; ids are hashes | ingest, update, cancel, emission | calls the alert plane |
| Drills (`api/drill.go`, `store/drills.go`) | `drills`, `lastRun` | `RunDrills`, `handleDrillRun`, `RunDrillOnce` | alert plane, acks, presence |
| Identity (`auth/`, `twofa/`, `passkey/`, `sso/`, `api/ratelimit.go`) | users, memberships, TOTP and recovery codes, ceremony sessions, one-time codes, limiter windows | sign-ins, enrolments, step-ups, ceremonies | HTTP handlers |

What is hard here:

* **No handler is serialised.** Each request, CAP document and EEW report runs its handler in a goroutine of its own.
  Only the slot has a mutex, and the mutex is not held over the broadcast, the outbox or the ladder.
* **Pairs of writes without a transaction**: the slot and its retained copy, a prune's DELETE and its anchor, a send
  and its row, a batch and its cursor, an account and its membership, the recovery codes read and the list written
  back.
* **A decision before an unlock, an effect after it**: the deduper's verdict and the broadcast, the ladder's list and
  the phase it sets.
* **Leases and clocks**: a job belongs to a worker only until its lease runs out; the browser tells a dead server from
  a quiet one by the age of a beat.
* **Clients that retry**: a CAP issuer gives up on a handler that goes on all the same.
* **Failures the code decides to survive**: a failed save does not stop a broadcast, a failed roster read does not
  stop the ladder.

For each component, what makes it correct:

* *Alert plane*: the slot's two copies agree; late joiners are never shown a lesser alert in place of a live greater
  one; a recall is final; what was broadcast is tracked; nothing stale stays.
* *Outbox*: a job has one owner, is settled once, is reported sent only if it was, and is not open for ever.
* *Audit log*: no fork, no false alarm; the export skips nothing.
* *Ladder*: never early, never after a stop, and whoever ignores an alert is reported in time.
* *Client*: an alert in force is on screen unless acknowledged, recalled or expired; issues of an id are acted on in
  order; an upgrade is presented again.
* *Heartbeat*: silence is noticed in bounded time, and the alarm ends when the cause does.
* *EEW/CAP*: one event is one alert; what was said last is in force; a recall recalls.
* *Drills*: a pass is earned and blame is fair.
* *Identity*: one-time things are used once; limits hold across window borders; a second factor in force was
  confirmed; racing first sign-ins make one account.

## 2. Modules

| Module | What it is | Theorems |
|---|---|---|
| `AlertPlane` | handlers, sweeper, slot, with abstract outbox and ladder | `AlertPlaneProofs` |
| `DeliveryPromise` | what a durable delivery pipeline promises (abstract) | |
| `Outbox` | rows, workers, leases, retries; `INSTANCE DeliveryPromise` | `OutboxProofs` |
| `AuditLog` | writers, prune, verification, exporter over one chain | `AuditLogProofs` |
| `Escalation` | the ladder, the ack roster, presence | `EscalationProofs` |
| `Client` | the browser: accept gate, screen, timers, reconnects and reloads | `EdgeProofs` |
| `Heartbeat` | beats, health, the page's watchdog, the dead-man switch | `SelfTestProofs` |
| `Feeds` | two EEW relays and the deduper they share | `EdgeProofs` |
| `CapMapping` | one CAP document to one severity and back, as operators | `CapProofs` |
| `Cap` | chains of CAP documents under time-outs and retries; EXTENDS `CapMapping` | `CapProofs` |
| `Identity` | seeding, first sign-ins, password, second factor, recovery codes | `IdentityProofs` |
| `Drill` | the drill scheduler and the goroutine of each drill | `SelfTestProofs` |
| `Ephemeral` | one-time codes, passkey ceremonies, limiter windows | `IdentityProofs` |
| `MC*` | model values; one `.cfg` per run | |

A proof module of two components extends both, so what they would define twice carries the component's name in one of
them (`FeedsInit`, `DrillNext`, `EphemeralSpec`).

How they fit together: `AlertPlane` carries an outbox and a ladder of its own, reduced to "queued" and "running", so
that its composition with them can be checked; `Outbox` and `Escalation` are what those two words stand for. `Client`,
`Feeds`, `Cap` and `Drill` see the alert plane as what was broadcast last about an id and what is in force. An
operator named like an operation with another ending, under the comment `Fault variant`, is a plausible bug and
belongs to no specification: it shows that a property can fail.

### AlertPlane

A handler is a process with a program counter `pc[h]` and the alert it works on, `arg[h]`. There is an action for
every stretch of code another goroutine may interleave with: `Announce` (broadcast on `alerts/events`), `Decide` and
`Retain` (`maybeSetActive`, cut at the broker call under the mutex), `Persist` (history and `Enqueue`),
`Track`/`Create`/`Insert` (`TrackForAck`, cut around the unlocked check of `s.esc`); `Revoke`, `Inspect`, `Clear`,
`Stop` for `CancelByID`; `SweepExpired` and `SweepClear` for the sweeper. `mu` is `Server.mu`. `wire[id]` remembers
the last envelope broadcast about an id: it is what "published" and "recalled" mean below. A publish of an id already
used is what `RenewAlert`, a CAP update or an EEW upgrade do. `Persist` may leave `outbox` as it is: `Enqueue` is
skipped when no channel is configured (`api/api.go:310`), may find no target, and only logs a failed insert
(`delivery/delivery.go:87-94`). Operations overlap as they like, on one id too. Two history variables remember the
races that the properties name: `crossed` has the ids whose last broadcast went out while an operation of the other
kind was past its own, `exposed` the ids that were tracked while another handler had yet to make the escalator.

### Outbox and DeliveryPromise

`row[j]` is a `delivery_jobs` row with its status, its attempts and how far away `next_attempt_at` is; `held[w]` are
the jobs the worker's current batch has not recorded. `Send` and `Record` are separate steps, as in `deliver`, so a
crash, a failed write or another worker may come between. A `Send` of the e-mail channel (`Mails`) may `Hang`:
`EmailSender.Send` ignores its context and `smtp.SendMail` sets no deadline (`delivery/senders.go:68-84`). The worker
then does nothing else until the server lets go (`Unhang`), if it ever does. `DeliveryPromise` knows nothing of
attempts or leases: a job is accepted, arrives any number of times, and is confirmed (only after it arrived) or given
up, once. The refinement maps `row[j].status` to its `status`; attempts, leases, claims, hangs and crashes are
stuttering. The abstract `Spec` is safety; `Settles`, that no job stays open, is apart from it, because the code gives
it only as long as no worker hangs for ever.

### AuditLog

An entry is its id, its stamp and the hash it links to; hashes are named by ids (SHA-256 is taken to be
collision-free) and 0 is the empty hash. `mu` is `auditMu`. `PruneAudit` is `PruneRecord`, `PruneDelete`,
`PruneAnchor` with `PruneError` in between; `VerifyAuditChain` reads rows (`VerifyRows`) and then the anchor
(`VerifyWalk`) without a lock; the exporter is `Fetch`, `Ship`, `Advance`. `lost` collects what retention deleted
before it was exported, `check.clean` says whether a prune ran into the verification, and `bent` whether a prune was
cut short or cut off entries out of the order of their stamps; these are there for the properties only.

### Escalation

`obj` are the `EscalationState` objects ever made, `items` says which one the map holds for an id. `evalEscalations`
is `Snapshot` (list under the lock), then per object `Retire` (expired) or `Roster` (acks and presence are read)
followed by `Judge` (the phase loop and the assignment). Acks, presence, recalls and renewals come in between. `raced`
records what was stopped while an evaluation had it on its list, and `ignored` the devices that have been online and
silent ever since an object was made; both are for the properties only. `StartedAt` and `IssuedAt` are taken as one
moment: the code sets them a few statements apart. `since` is the time since the last evaluation started: the clock
waits for an evaluation that is `Period` overdue or has taken `MaxLag`, which is how "in time" is stated without
fairness.

### Client

A message is named by its position in `sent`, which stands for its nonce; `pool[no]` counts the copies of it whose
signature is being verified. Verifications resolve in any order, each in a task of its own, and nothing is awaited
afterwards: `Handle` is the accept gate (`Accepts`, `Remember`) and the presentation (`Present`) in one step. `nonces`
and `memory` are what localStorage keeps and a `Reload` leaves; `cancelled`, `activeFs`, `toasts`, `timers` go with
the page. A fullscreen entry holds the severity it was made with and the message whose wording it shows, because
`extendAlert` changes only the latter. `SlotEmptied` is the empty retained payload, handled without waiting. The
server is summarised by `Issue`, `Recall` and `SlotExpired`; their inner steps are `AlertPlane`'s subject. `handled`
is a history variable. Every message is authentic and the device's clock is the server's.

### Heartbeat

A unit of time is a heartbeat interval. `store` is what `Store.Ping` meets: it answers, it fails, or it hangs.
`PublishBeat` is `beat` with its `selfCheck`: `pubErr` is `lastPublishErr`, and a beat whose publish is refused leaves
the old one on the broker. `Ping` and `PingLost` are the watchdog's three outcomes. `Die`, `Restart`, `StoreTurns`,
`Connect` and `Disconnect` are the faults; a subscription brings the retained beat however old. In the browser,
`HandleHeartbeat` follows the awaited verification, so two beats may change places. `Evaluate` is `evalLiveness` on
its 3 s timer, any number of times in a unit and at least once (`Tick`); `banner` is what `setFailState` and
`applyServerHealth` leave on the page. `far` is the switch outside. `spell` counts how long all has been well, or not:
every property is about it. Ages saturate and a unit lets the world change `MaxTurns` times, so time and faults go on
for ever.

### Feeds

One earthquake: `series` are the agency's reports, `read[f]` how many of them a relay has passed, missed ones included
(`Break`, `Miss`, `Dial`). `Read` is the reader's decision (`Emit` or `Forget`, under the deduper's lock), `Publish`
the callback after the unlock; between them an event is in `waiting`. A relay inside its callback reads nothing.
Severity is `SeverityForIntensity`, with `IntensityOf` for P2PQuake's scale. History: `said[r]` counts the broadcasts
of a severity since the last recall that went out, `late[r]` those of them that were decided upon before that recall;
`forgotten` and `recalled` number the cancellations decided upon and the recalls broadcast; `missed` and `crossed` are
what they say.

### CapMapping and Cap

`CapMapping` translates `cap.go`'s `CollapseSeverity`, `ExpandSeverity`, the time-to-live and the status rule in both
directions. In `Cap` the issuer composes (`Compose`), posts (`Post`) and may give up waiting (`TimeOut`) on a handler
that goes on. `Ingest` is the publish under `AlertID`; `Cancel` recalls one reference after the other and stops at the
first that is refused; one that refers to nothing is refused itself. A document names the ones before it as the
standard asks (`chain`), with an entry that lacks its identifier in front (`sloppy`), or only the one before (`last`).

### Identity

`Seed`, `Promote`, `Backfill` are the start of the server, with `Crash` in between. `Callback`, `Create`, `Join`,
`SignIn` are the first sign-in by an identity provider (OIDC and SAML look accounts up by provider and subject in the
same way and are one provider here; a lookup that fails for any reason goes on to `Create`); `Login` and `Answer` the
password; `Begin`, `Confirm`, `Enable` an enrolment; `Verify`, `Spend`, `Accept` a code at a login or a step-up; each
is one statement of one request, `req[h]`, because the store gives each statement a transaction of its own. `crossed`,
`raced`, `torn` and `unjoined` record that a request acted on a row another had changed, or that a write failed. They
delimit what the properties promise: `CodesTally` and `EnabledIsConfirmed` hold outside two races the code does have,
which section 5 lists.

### Drill and Ephemeral

`Drill`: `RunDrills` and `HandleDrillRun` start a goroutine, which goes through `Expect` (the roster is fixed before
the publish), `Publish`, `Collect`, `Record` and `Report`; `OnAck`, `OnPresence` and `DrillRestart` come whenever they
like. `Ephemeral`: `Stamp` and `Put` are the two halves of a put (id and time are taken before the lock), `Take` is
`takeSSOCode` and `takeSession`, `AddPasskey` and `ResolveLogin` the second halves of the ceremonies, `Allow` and
`Deny` the limiter.

## 3. Runs

| Run | Bounds | What it shows |
|---|---|---|
| `alert_plane` | 2 ids, 2 handlers, 3 operations, ranks warning/emergency, validity 0, time 0..1, broadcasts may fail | `SlotMirrored`, `NoDowngrade`; `RecallHolds` and `LadderRuns` outside the races they name; under fairness `StaleLeaves`, `HandlersReturn` |
| `recall_race` (violation) | the same | `RecallIsFinal`, without that exception: a recalled alert stays retained |
| `outbox` | 2 jobs, one by e-mail, 1 or 2 workers, 2 attempts, backoff 1..3, lease 2, batch 2, 2 crashes or lost writes, a lone worker may hang | `ClaimExclusive`, `RetryBudget`, `PromiseSpec` (safety), and `JobsSettle`: every job is settled if no worker hangs for ever |
| `audit` | 2 writers, 4 entries, time 0..2, retention 1, batch 2, 1 fault, prunes cut short, late stamps | `ChainVerifies`, `VerdictSound`, `NoFork`, `CursorHonest`, `Exported` |
| `escalation` | 1 alert tracked up to twice, 2 devices, deadlines 1/2/3, validity 1 or 4, an evaluation may take 1 and starts within 1, 1 fault | `NeverEarly`, `StopHeeded`, and `IgnoredIsReported`: by T3 and a period an ignored alert is at the top |
| `client` | 2 ids, 3 messages, warning or critical, skew 1, time 0..2, 2 connections, 1 reload, 1 confirmation | `ActedInOrder`, `RecallSticks`, `NoSilentLoss` |
| `client_upgrade` (violation) | the same with critical and emergency | an upgrade of what is on screen is not shown |
| `heartbeat` | a ping every 2 beats, grace 3, one change of the world per unit; no bound on time or on faults | `FailLoud` (beyond 3 units), `CalmReturns` (beyond 2), `FarEndNotices` |
| `feeds` | 2 relays, 4 reports, 1 refused broadcast, one relay that misses nothing | `OneAlarmEach`, `QuieterOnlyOvertaken`, `RecallSettles`, `EveryReportReaches` |
| `slow_relay` (violation) | 3 reports, neither relay misses anything, no refusals | a slow relay takes down what the other reported |
| `cap` | 2 handlers, 4 documents, 2 time-outs, 2 refused broadcasts, references as a chain or sloppy | `OneAlertPerIncident`, `LastWordHolds`, `RetrySettles` |
| `identity` | 2 requests, the admin and one person, 2 secrets, 2 code lists, 1 failed write, 1 crash | `AccountsSettled`, `CodesTally`, `EnabledIsConfirmed` |

`TypeOK` is checked beside them where the module's types are not obvious.

*Why the bounds are enough.* The hazards of the alert plane need at most three operations by two actors (a publish, a
renewal or a rival, and a recall), which is what `alert_plane` allows, with one id that interferes with itself and one
that competes for the slot. One tick makes an alert stale, valid again by renewal, or a cancel. Two ranks on the two
sides of `LadderRank` give equal, higher and lower severity. In the outbox two jobs make batches of one and two, two
attempts make a first and a last one, and the lease is longer than a step and shorter than the backoff's cap. The
audit log needs one entry to prune, one to survive, the prune's record and one to append afterwards. The ladder needs
three deadlines, a renewal while an evaluation holds the old object, two devices so that one may answer and one not,
and a validity of 4, the least for which `IgnoredIsReported` says something: an alert must outlive T3 by a period. Two
relays and four reports make a report, a revision, a cancellation and a report after it, seen in every order. Four CAP
documents make an alert, two updates and a cancel with three references; two time-outs leave two abandoned handlers. A
second factor needs two requests and two secrets to cross. Clocks: `AlertPlane`, `AuditLog` and `Client` count to a
bound; `Outbox`, `Escalation` and `Heartbeat` keep saturating distances, so time there never stops.

*Fairness.* Handlers are goroutines and Go's scheduler and mutex let every runnable one proceed: weak fairness on each
handler. Tickers drive the sweeper (5 s), the delivery worker (1 s), the exporter (30 s), the beat and the ping: weak
fairness on each. A webhook's `Send` returns within `SendTimeout` and `Ship` within 15 s, so they block neither worker
nor exporter. A `Send` by SMTP has no such bound: nothing obliges `Unhang`, and `JobsSettle` assumes in its own
statement (`SendsReturn`) that a worker which hangs comes back. `Escalation` has no fairness: its clock does not pass
an evaluation that is due, which assumes that the 5 s ticker is served within `Period` and an evaluation ends within
`MaxLag`. A browser's task that was resolved runs, and a relay whose connection is open is read. A CAP issuer posts
until it is answered. Nothing obliges users to publish, writers to write, retention to run, an agency to report, a
connection to come back or faults to happen, and there the specifications ask for nothing. Bounded faults
(`MaxLosses`, `MaxFaults`, `MaxFailures`, `MaxTimeouts`) mean that liveness is claimed for runs in which they stop;
`Heartbeat` has no such bound.

*Assumptions a run makes*, each a named constant:

* `BrokerFails = {"events"}`: broadcasts may be refused, retained publishes are accepted; an error of those is only
  logged and nothing repeats them.
* `SendsFitLease`: where there are several workers, a batch is recorded before its lease ends, so no `Send` hangs
  (section 5). A lone worker, which is what the program starts, may take as long as it likes.
* `AppendsWithinSecond`, `PruneMayFail`: the `audit` run assumes neither stamps in order nor prunes that finish.
* `Acknowledged`: the collector answers, as over HTTP (section 5 for syslog).
* `Steady`: relays that miss nothing. `feeds` has one, `slow_relay` two.
* `Styles`: how CAP documents refer to earlier ones (section 5 for `last`).

## 4. Proofs

All theorems hold for every value of the constants that satisfies the module's named assumption, and what is stated
here beside it. Type correctness (`TypeCorrect`, `FeedsTypeCorrect`, `ClientTypeCorrect`, `HeartbeatTypeCorrect`,
`DrillTypeCorrect`) is proved for every state machine but `Ephemeral`, whose invariants carry the types they need.
Every safety property that a passing run checks is stated by a theorem, and `BannerHonest` by a theorem alone.

* **`AlertPlaneProofs`**. `SlotIsMirrored` and `NeverDowngraded`, under `ActiveAccepts` (`"active" \notin
  BrokerFails`). They rest on the inductive invariant `SlotInv`: `SlotMirrored` alone is not inductive, because it
  says nothing of a state in which the lock is held. `SlotInv` adds who holds the mutex (`mu = h` exactly while
  `pc[h]` is `retain` or `clear`, `mu = "sweeper"` between the sweep's two steps) and why the holder may replace what
  is retained. `RecallsHold` (under `ActiveAccepts`) adds `RecallInv`: an id whose last word is a recall that nothing
  crossed (`Withdrawn`) is `Leaving`. It is in neither copy of the slot and not on the ladder, except for what a
  recall of that id at work has yet to remove, and no publish of it is behind its own broadcast, so no handler can
  bring the alert back; one that has not broadcast yet changes the last word when it does. `LaddersRun` has no
  assumption, about the broker or about which operations overlap: `TrackInv` says that an alert which went out
  uncrossed and demands an answer is on its way to the ladder, or on it, or was tracked while another handler was
  about to make the escalator; `MakerInv` says that such a handler can wipe out only what is `exposed`.
* **`OutboxProofs`**. `ClaimsAreExclusive`, `SettledStays`, `BudgetKept` and `KeepsPromise` (the refinement,
  `PromiseSpec`: initial states map to initial states, every step to a step or a stutter), all under `[]LeaseSound`,
  that is `SendsFitLease` or a single worker. The invariant says that a held job is pending, still under its lease,
  carries the attempt number of its claim, and is held by nobody else.
* **`AuditLogProofs`**, for any finite set of writers. `NeverForks` from `OrderInv`: an append about to insert holds
  the lock and the hash of the head as it is (`LockInv`), and every entry links to an older one (`LinkInv`).
  `AlwaysVerifies` from `ChainInv`: the log verifies from its anchor or, between a prune's DELETE and its last
  statement, from the anchor the prune is about to write; the lemmas `Appended` and `Cut` say that an append behind
  the head and a cut at the old end keep a chain a chain. `NoFalseAlarm` from `VerdictInv`: the rows a verification
  has read verify from the anchor it is going to read, unless a prune runs into it. `CursorStaysHonest`, with
  `Acknowledged`, from `ExportInv`: a batch leaves no entry between the cursor and its end that is not in it, shipped
  or lost to retention. Typing is not local here: ids are bounded because each call under way has set its own aside
  (`TypeInv`).
* **`EscalationProofs`**. `PhasesAreDue` and `StopsAreHeeded`. The invariant `EvalInv` says that an object which an
  evaluation has in hand and which is done was stopped after the list was taken; a phase is entered at the age the
  evaluation saw, which is never more than the age now. `IgnoredAreReported`: `IgnoredIsReported` says nothing of the
  time before the deadline, so `LadderInv` follows an ignored alert through each evaluation (`Ladder`). Its object is
  the one in the map, its device is online without an acknowledgement and therefore among the silent of any evaluation
  that has it in hand, whatever reads fail (`Wanted`); at the top the device is on the list; and short of the top, if
  the alert lives long enough, it is not done, and the last evaluation that passed it had started by T3 (`OnTheWay`).
* **`EdgeProofs`**, about `Feeds`. `OneAlarm` counts (`PaidFor`): what was said of a severity since the last recall,
  and the relays about to say it, are paid for by the one alarm the deduper remembers (`Bit`), by what was decided
  before that recall and came after it (`late`), and by the recalls that are decided upon and not out yet (`Unheard`),
  each of which made the deduper forget once. `OneAlarmEach` alone is not inductive: it says nothing of a relay
  between its verdict and its publish. `RecallsSettle` speaks of relays that are all done; the invariant speaks of
  those that are not: a relay keeps its connection while it publishes, and publishes no report it knows to be
  cancelled (`BearersOK`), so that the last one to publish after everyone has read the cancellation publishes the
  recall, which is in force or on its way until then (`RecallUnderWay`). `QuieterIsOvertaken`, an action property,
  from `Climbing`: as long as nobody overtakes and nothing is refused, what is waiting climbs from what was broadcast
  to what the deduper remembers. The relays are assumed to be finitely many.
* **`EdgeProofs`**, about `Client`. `GateKeepsOrder` from `ActedOn`: a message that was acted on and is still fresh is
  known by its nonce, and an alert also by the memory of its id, which is no older. That is what survives the sweep of
  the gate's memory: what was swept is too old to be let in again. `RecallsStick` from `ShownIsLater`, which says the
  same of what is shown, and two conjuncts about what may be shown next: a copy under verification that a handled
  recall outdates has its id in the cancelled set (`PoolIsLater`), and the retained slot holds nothing older than a
  recall of its id (`SlotIsLater`), which is what a reload, which forgets the set, leaves. `NothingVanishes` (an
  action property) from `OnceOnTop` (no id is twice on the fullscreen list, so removing one entry removes the id) and
  `TimersOK` (a timer belongs to something that was acted on, and is due when that one's window ends). `SentBefore`
  says that nothing arrives before it was sent. `RemoveAtFacts` and `OthersStay` state what is left of a sequence
  without one entry, for `Feeds` and `Client` alike.
* **`SelfTestProofs`**, about `Heartbeat`. `SilenceIsLoud` from `NoFalseCalm`: in an ill spell nothing green is on its
  way once a unit of time has passed, and the silence the page measures is as long as the spell, unless the page
  already knows the server to be degraded. `CalmComesBack` from `BeatsCalm`, which follows a well spell unit by unit:
  a first beat that may still carry the old error, a second that does not, a streak of two. Both bounds are exact: the
  run refutes `FailLoud` with `>=` and `CalmReturns` one unit earlier. `BannerIsHonest` is inductive by itself.
  `Evaluated` and `Linked` tie the page's state to its age and the connection to a server that runs.
* **`CapProofs`**. `RoundTrip`, `TestsStayQuiet`, `NeverExpiredOnArrival`, `RelayKeepsSeverity`: statements about the
  mapping, for every document. Of the chains, for any number of handlers, documents, refusals and requests given up:
  `OneAlert` and `LastWord`, both for issuers that refer to the whole chain (`Styles \subseteq {"chain", "sloppy"}`;
  `last` is a finding of section 5). `IInv` says that only the first document is ever an alert of its own
  (`FirstAlone`), that a Cancel deals with it before anything else it refers to (`FirstRecalled`), and that what was
  answered is in force unless something came late (`AnsweredHolds`). The lemmas `ParseChain`, `ParseSloppy` and
  `ParseLast` compute what `ParseReferences` makes of each style, of any length.
* **`IdentityProofs`**, about `Identity`. `CodesAlwaysTally` from `FactorInv` (a factor in force has a secret, so that
  a row that is gone is not taken for one), `EnabledWasConfirmed` from `ConfirmInv` (a request about to enable finds a
  confirmed secret in the row, or none, or another enrolment was begun meanwhile), `AccountsAreSettled` from
  `AccountInv` (what the start of the server has settled when it reaches the backfill); `JoinStays` says that a
  request on its way to the membership is not turned aside.
* **`SelfTestProofs`**, about `Drill`. `PassesAreEarned`, `BlamesAreFair`, `ReportsMatch` from `RecordInv` (what a
  goroutine has collected is fair, what is recorded is what it collected, what is reported had a device missing),
  `SlotsFireOnce` from `SlotInv` (a minute that fired a drill in this life is over, or is `lastRun`).
* **`IdentityProofs`**, about `Ephemeral`. `OneUse`, `MapsAreSwept`, `CredentialsAreTraced`, `QuotaIsKept`, all but
  the third under `Sizes` (lifetimes and windows are natural numbers, and `Max` allows a hit). `EntryInv` has ids
  unique across the maps and the entries on their way there, `HitInv` orders a client's grants by the window they fall
  into.

`Drill` and `Ephemeral` have no run: their properties are the theorems, and what an instance would show they contain.

*Only model-checked*. Liveness (`StaleLeaves`, `HandlersReturn`, `JobsSettle`, `Exported`, `FarEndNotices`,
`EveryReportReaches`, `RetrySettles`) is out of the prover's reach, as is `ENABLED`. No module declares a recursive
operator.

## 5. Findings

With a run:

1. **A recall can lose to a renewal it overlaps** (`recall_race`): broadcast and slot are not one step
   (`api/api.go:395`), so what `SPEC.md:152` rules out happens: a recalled alert is retained.
2. **An upgrade on screen is not shown** (`client_upgrade`): `pushFullscreen` (`web/app.js:101`) keeps the old entry,
   where `SPEC.md:169` demands a full second presentation.
3. **A slow relay takes an alert down** (`slow_relay`): the deduper forgets a cancelled event before the recall is
   published (`eew/p2pquake.go:138`), where `eew/wolfx.go:115` says that either relay can be slow.

Noticed while modelling. Properties named here are in their modules, without a run:

* *Alert plane*. A recall empties the slot although another alert is in force, where `SPEC.md:152` promises to promote
  that one (`RecallPromotes`). `TrackForAck` reads and makes `s.esc` without a lock, so of the first critical alerts,
  if they arrive together, one may lose its ladder (`LadderAlwaysRuns`, refuted; `exposed` in `LadderRuns`). A
  broadcast alert need not be in the outbox at all: a failed `EnqueueDelivery` is logged and nothing repeats it
  (`delivery/delivery.go:87-94`), so webhook and mail get no copy and the caller is not told. No property says
  otherwise.
* *Outbox*. With several workers and a batch that outlives its lease, a late worker's update by id overwrites a row
  another has settled (drop `SendsFitLease`: `ClaimExclusive` and `PromiseSpec` fail). The program starts one worker,
  and that one can be stopped: a mail server that accepts a connection and falls silent holds `smtp.SendMail` for ever
  (`delivery/senders.go:68-84`), and with it every webhook (`JobsAlwaysSettle`, refuted).
* *Audit log*. A prune cut short between its DELETE and its anchor breaks the chain for good, where its comment has
  the anchor first (`ChainSurvivesPrune`). `siem/siem.go:32` claims at-least-once, but a syslog line counts as
  delivered once it is written (`Acknowledged = FALSE`: `CursorHonest` fails). `ChainVerifies` exempts the histories
  in which a prune was cut short or cut entries out of the order of their stamps (`bent`): in those the log need not
  verify. A prune that runs into a verification can make it report a break where there is none; `VerdictSound` exempts
  such a verification.
* *Ladder*. A moment without anybody online ends a ladder no one answered (`DoneIsAnswered`). `api/escalation.go:144`
  says "at most one phase per tick" while the loop below takes the furthest phase that is due. An evaluation under way
  escalates an alert once more after `StopEscalation` (the exception in `StopHeeded`).
* *Client*. The timer of an earlier issue takes a renewed alert away (`app.js:135`); an alert accepted in its last
  second gets no timer and stays (`app.js:134`); the second of two issues within one second is dropped, also when it
  is an upgrade (`verify.js:203`); after a reload the retained copy of an alert that was on screen is dropped as a
  repeat; once `max_skew` has passed, a renewal counts as new. `RunOut` in `NoSilentLoss` is the first of these. An
  alert re-issued under a recalled id is not shown: `cancelledSet` (`app.js:148`, `app.js:283`) is never cleared, so a
  page drops whatever comes under the id until it is reloaded, where `eew/dedup.go:49-50` and
  `p2pquake_test.go:111-119` let such a warning through (`ReissueGetsThrough`, refuted). `RecallSticks` demands only
  that what was sent before a recall stays away.
* *Feeds*. A lagging relay that announces a quake again between the other's `Forget` and its recall makes a second
  alarm of the same severity without a recall between, where `wolfx.go:114-117` promises a single one (`NeverTwice`,
  refuted). `OneAlarmEach` bounds these by their causes.
* *Heartbeat*. `SPEC-SAFETY.md:105` and `app.js:23` want at least two healthy beats before the banner goes; the code
  counts two evaluations, which one beat can satisfy. `lastPublishErr` is set by the beat's own publish only. An old
  retained beat counts as a sign of life after a reconnection. `Store.Ping` has no time-out, so a store that hangs
  stops the beat, where `api.go:509` says that the beat never stops (the page notices all the same).
* *CAP*. A chain in which each document names only the one before makes two alerts of one incident (`Styles =
  {"last"}`: `OneAlertPerIncident` fails). An exercise that was ingested is emitted again as `Actual`, because its
  source is "cap" (against the comment at `cap.go:325`). Documents of type `Ack` and `Error` are published as alerts.
  A document without an info block gets a time-to-live of 0.
* *Identity*. Beginning a new enrolment turns off the factor in force, with no code asked and nothing in the audit
  log, though disabling is "always recorded". A `Status` that cannot be read counts as not enrolled. Recovery codes
  are read, matched and written back by separate statements: two requests may both be let in by one code, two with
  different codes may leave one of them in force, and a write-back may put an old list over one that was made
  meanwhile; `CodesTally` exempts these (`crossed`). An enrolment begun between another one's check of its code and
  its `EnableTOTP` leaves a secret in force that nobody has confirmed, and its owner, who may never have stored it,
  locked out; `EnabledIsConfirmed` exempts exactly that (`raced`). A crash between `CreateUser` and `MakeSuperadmin`
  leaves an admin without the rights for good (`torn`). Nothing in the program bumps a token version or disables a
  user.
* *Drills*. A drill nobody was online for passes. A roster that cannot be read blames everyone (`blind`). A publish
  that fails records nothing; a restart loses a drill under way, and may repeat it within its minute. The default
  severity, warning, shows as a toast that has no button to confirm with.

## 6. Plan

Written, in this order: `AlertPlane`, `Outbox`, `AuditLog`, `Escalation`, `Client`, `Heartbeat`, `Feeds`, `Cap`,
`Identity`, `Drill`, `Ephemeral`, and proofs of the safety of each.

To come:

1. `Presentation`: what a person must be shown, as an abstract specification that `Client` implements, with the proof.
2. A proof that `AlertPlane`'s ladder and outbox are what `Escalation` and `Outbox` do of them.
3. Service accounts and token refresh in `Identity`.

## 7. Not modelled

* *Service accounts, token refresh, and the protocols of the identity providers*: rows found by a hash, tokens that
  are issued as at a sign-in, and checks (state, nonce, PKCE, assertions) that libraries make. This is why Identity is
  "partly" modelled.
* *Store*: SQL text, migrations, organisations and row-level security; the rows the other components use are in their
  modules.
* *MQTT broker*: a wrapper over a library. Its retained messages and publish errors are modelled where they are used.
* *ntfy, HTTP plumbing, metrics, tracing, scenarios*: stateless calls, permission look-ups, counters and templates.
* *Admin panel*: a user interface that decides nothing the server does not.
* *Signatures and canonical forms*: a message is authentic or it is not in the model.
