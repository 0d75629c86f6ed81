------------------------------- MODULE Outbox -------------------------------
(***************************************************************************)
(* The delivery outbox: delivery_jobs rows (server/internal/store/         *)
(* delivery.go) and the workers that drain them (server/internal/delivery/ *)
(* delivery.go).                                                           *)
(*                                                                         *)
(* Time is kept as distances: a row holds how long it is until             *)
(* next_attempt_at (0 when it is due or overdue) and a worker how long ago *)
(* it captured `now` for its batch.  Both saturate, so the state space is  *)
(* finite although time goes on for ever.                                  *)
(***************************************************************************)
EXTENDS Naturals, FiniteSets

CONSTANTS
  Jobs,           \* (alert, channel, target) triples
  Mails,          \* those of the e-mail channel, whose Send heeds no deadline
  Workers,        \* worker processes that may exist
  MaxAttempts,    \* Config.MaxAttempts
  BaseBackoff,    \* Config.BaseBackoff
  MaxBackoff,     \* Config.MaxBackoff
  Lease,          \* Config.Lease
  Batch,          \* Config.Batch
  SendsFitLease,  \* does a batch finish within the lease it was claimed with?
  MaxLosses       \* bound on crashes and failed state writes

VARIABLES
  row,            \* delivery_jobs
  pool,           \* the workers of this deployment, fixed
  configured,     \* per worker, does its process have a Sender for the channel?
  held,           \* per worker, the claimed jobs it has not recorded yet
  age,            \* per worker, time since it captured `now`
  reached,        \* jobs whose target was given the payload
  losses          \* crashes and failed state writes so far

vars == <<row, pool, configured, held, age, reached, losses>>

-----------------------------------------------------------------------------

Least(a, b) == IF a <= b THEN a ELSE b

\* Fault variant: a moment already past is kept as a distance below zero.
LessUnfloored(a, b) == a - b

Less(a, b) == IF a <= b THEN 0 ELSE a - b

\* BaseBackoff doubled n - 1 times; once a doubling reaches MaxBackoff, that.
Backoff(n) ==
  LET d == BaseBackoff * 2^(n - 1)
  IN  IF n > 1 /\ d >= MaxBackoff THEN MaxBackoff ELSE d

Horizon == IF BaseBackoff >= MaxBackoff THEN BaseBackoff ELSE MaxBackoff

ASSUME OutboxAssumption ==
  /\ {MaxAttempts, BaseBackoff, MaxBackoff, Lease, Batch} \subseteq Nat \ {0}
  /\ MaxLosses \in Nat
  /\ SendsFitLease \in BOOLEAN
  /\ Mails \subseteq Jobs
  /\ \A n \in 1..MaxAttempts : Backoff(n) \in Nat

Row    == [status : {"absent", "pending", "sent", "dead"},
           attempts : Nat, wait : Nat]
NoRow  == [status |-> "absent", attempts |-> 0, wait |-> 0]
Claim  == [job : Jobs, attempts : Nat \ {0},
           result : {"todo", "open", "ok", "error"}]

\* Fault variant: a job whose attempts are used up is not looked at again.
DueInBudget ==
  {j \in Jobs : /\ row[j].status = "pending" /\ row[j].wait = 0
               /\ row[j].attempts < MaxAttempts}

Due == {j \in Jobs : row[j].status = "pending" /\ row[j].wait = 0}

\* One more attempt counted, and the lease put ahead of it.
Leased(r) == [status |-> r.status, attempts |-> r.attempts + 1, wait |-> Lease]

Several     == \E v, w \in pool : v # w
Idle(w)     == \A c \in held[w] : c.result = "todo"
Holds(w, j) == \E c \in held[w] : c.job = j

Mark(j, status) == row' = [row EXCEPT ![j].status = status]
Drop(w, c)      == held' = [held EXCEPT ![w] = @ \ {c}]

-----------------------------------------------------------------------------

\* Manager.Enqueue, on the publish path of a process that serves the channel:
\* a job already there, whatever became of it, is left alone.
Enqueue(j) ==
  /\ \E w \in pool : configured[w]
  /\ row[j] = NoRow
  /\ row' = [row EXCEPT ![j].status = "pending"]
  /\ UNCHANGED <<pool, configured, held, age, reached, losses>>

\* Fault variant: the claim reads pending rows whatever their lease.
ClaimLeased(w) ==
  /\ w \in pool
  /\ held[w] = {}
  /\ \E S \in SUBSET {j \in Jobs : row[j].status = "pending"} :
       /\ S # {} /\ Cardinality(S) <= Batch
       /\ row' = [j \in Jobs |->
                    IF j \in S THEN Leased(row[j]) ELSE row[j]]
       /\ held' = [held EXCEPT ![w] =
                     {[job |-> j, attempts |-> row[j].attempts + 1,
                       result |-> "todo"] : j \in S}]
  /\ age' = [age EXCEPT ![w] = 0]
  /\ UNCHANGED <<pool, configured, reached, losses>>

\* ClaimDueDeliveries, one UPDATE..RETURNING: up to Batch due rows, each with
\* an attempt more and the lease ahead of it.  The oldest come first, which a
\* distance of 0 no longer tells, so any choice is allowed.
ClaimBatch(w) ==
  /\ w \in pool
  /\ held[w] = {}
  /\ \E S \in SUBSET Due :
       /\ S # {}
       /\ Cardinality(S) = Least(Batch, Cardinality(Due))
       /\ row' = [j \in Jobs |->
                    IF j \in S THEN Leased(row[j]) ELSE row[j]]
       /\ held' = [held EXCEPT ![w] =
                     {[job |-> j, attempts |-> row[j].attempts + 1,
                       result |-> "todo"] : j \in S}]
  /\ age' = [age EXCEPT ![w] = 0]
  /\ UNCHANGED <<pool, configured, reached, losses>>

\* The channel is no longer configured: deliver dead-letters the job unsent.
\* The error of that write is not looked at.
NoSender(w) ==
  /\ ~configured[w]
  /\ Idle(w)
  /\ \E c \in held[w] :
       /\ Drop(w, c)
       /\ \/ Mark(c.job, "dead") /\ UNCHANGED losses
          \/ losses < MaxLosses /\ losses' = losses + 1 /\ UNCHANGED row
  /\ UNCHANGED <<pool, configured, age, reached>>

\* What WebhookSender and EmailSender make of an answer: nil for a 2xx or a mail
\* taken over, an error for anything else, no answer included.
Outcome == {"ok", "error"}

\* What the worker knows of the claim it is sending.  An attempt that reports an
\* error, or nothing yet, may have reached the target all the same.
Answer(w, c, result) ==
  /\ held' = [held EXCEPT ![w] = (@ \ {c}) \cup {[c EXCEPT !.result = result]}]
  /\ \/ reached' = reached \cup {c.job}
     \/ result # "ok" /\ UNCHANGED reached
  /\ UNCHANGED <<row, pool, configured, age, losses>>

\* Sender.Send.  RETURNING promises no order, so any held job may be next.
Send(w) ==
  /\ configured[w]
  /\ Idle(w)
  /\ \E c \in held[w], result \in Outcome : Answer(w, c, result)

\* EmailSender.Send ignores its context and smtp.SendMail sets no deadline: a
\* mail server that stops answering keeps the worker waiting, for ever if it
\* likes, and the rest of the batch with it.  A batch that is to fit its lease
\* among several workers excludes that.
Hang(w) ==
  /\ configured[w]
  /\ Idle(w)
  /\ ~(SendsFitLease /\ Several)
  /\ \E c \in held[w] : c.job \in Mails /\ Answer(w, c, "open")

Open(w) == \E c \in held[w] : c.result = "open"

\* The mail server answers after all, or the connection breaks.
Unhang(w) ==
  \E c \in held[w], result \in Outcome : c.result = "open" /\ Answer(w, c, result)

\* Fault variant: the last attempt is one too late.
AfterLast(attempts) == attempts > MaxAttempts

Exhausted(attempts) == attempts >= MaxAttempts

\* Fault variant: whatever Send returned, the job is marked sent.
SettleBlindly(w, c) == c \in held[w] /\ Mark(c.job, "sent")

\* The switch at the end of deliver: sent, dead, or due again after a backoff
\* counted from the moment the batch was claimed.  The UPDATEs name the row by
\* its id and ask nothing of its status.
SettleRow(w, c) ==
  IF c.result = "ok" THEN Mark(c.job, "sent")
  ELSE IF Exhausted(c.attempts) THEN Mark(c.job, "dead")
  ELSE row' = [row EXCEPT ![c.job].wait = Less(Backoff(c.attempts), age[w])]

\* The write may fail: that is logged, and the lease decides what happens next.
Record(w) ==
  /\ \E c \in held[w] :
       /\ c.result \in Outcome
       /\ Drop(w, c)
       /\ \/ SettleRow(w, c) /\ UNCHANGED losses
          \/ losses < MaxLosses /\ losses' = losses + 1 /\ UNCHANGED row
  /\ UNCHANGED <<pool, configured, age, reached>>

\* The process dies and comes back, perhaps with other channels configured.
Crash(w) ==
  /\ w \in pool
  /\ losses < MaxLosses
  /\ losses' = losses + 1
  /\ held' = [held EXCEPT ![w] = {}]
  /\ \E b \in BOOLEAN : configured' = [configured EXCEPT ![w] = b]
  /\ UNCHANGED <<row, pool, age, reached>>

\* A second passes.  SendsFitLease keeps it from passing while it would take
\* the lease away from a batch in progress; a lone worker needs no such
\* promise, for it claims nothing until its batch is done.
LeaseHolds ==
  \A w \in pool : \A c \in held[w] : row[c.job].wait > 1

Tick ==
  /\ SendsFitLease /\ Several => LeaseHolds
  /\ row' = [j \in Jobs |-> [row[j] EXCEPT !.wait = Less(@, 1)]]
  /\ age' = [w \in Workers |-> Least(age[w] + 1, Horizon)]
  /\ UNCHANGED <<pool, configured, held, reached, losses>>

-----------------------------------------------------------------------------

\* SQLite runs one process; PostgreSQL as many as are started.
Init ==
  /\ row = [j \in Jobs |-> NoRow]
  /\ pool \in (SUBSET Workers) \ {{}}
  /\ configured = [w \in Workers |-> TRUE]
  /\ held = [w \in Workers |-> {}]
  /\ age = [w \in Workers |-> 0]
  /\ reached = {}
  /\ losses = 0

Work(w) == ClaimBatch(w) \/ NoSender(w) \/ Send(w) \/ Record(w)

Next ==
  \/ \E j \in Jobs : Enqueue(j)
  \/ \E w \in Workers : Work(w) \/ Hang(w) \/ Unhang(w) \/ Crash(w)
  \/ Tick

Spec == Init /\ [][Next]_vars

\* The worker polls on a ticker and a webhook's Send returns within SendTimeout,
\* so a worker that does not hang keeps moving; so does the clock.  Nothing
\* obliges a mail server to let go of a worker that hangs.
Fairness == WF_vars(Tick) /\ \A w \in Workers : WF_vars(Work(w))

FairSpec == Spec /\ Fairness

-----------------------------------------------------------------------------
(* Properties *)

TypeOK ==
  /\ row \in [Jobs -> Row]
  /\ pool \in SUBSET Workers
  /\ configured \in [Workers -> BOOLEAN]
  /\ held \in [Workers -> SUBSET Claim]
  /\ age \in [Workers -> Nat]
  /\ reached \subseteq Jobs
  /\ losses \in 0..MaxLosses

\* A claimed job belongs to one worker, is still open, and carries the attempt
\* that worker was given: the lease is the only lock there is.
ClaimExclusive ==
  \A w \in Workers : \A c \in held[w] :
    /\ row[c.job].status = "pending"
    /\ row[c.job].attempts = c.attempts
    /\ \A v \in Workers \ {w} : ~Holds(v, c.job)

\* A job reported sent, or dead-lettered, stays so, however many workers,
\* crashes and failed writes there were.  It holds as long as a batch fits its
\* lease, and only then.
SettledIsFinal ==
  [][ \A j \in Jobs : row[j].status \in {"sent", "dead"}
                        => row'[j].status = row[j].status ]_vars

\* MaxAttempts bounds the attempts on a job, except that each crash or failed
\* state write may cost it one more.
RetryBudget == \A j \in Jobs : row[j].attempts <= MaxAttempts + losses

\* Together with the worker's bookkeeping the rows do what the durable delivery
\* pipeline promises of every step: a job is kept until it is settled, settled
\* once, and sent only if it arrived (see DeliveryPromise).
Status == [j \in Jobs |-> row[j].status]

Promise == INSTANCE DeliveryPromise WITH status <- Status, reached <- reached

PromiseSpec == Promise!Spec

\* No job stays open for ever, whatever crashes and writes are lost, as long as
\* no worker hangs in one Send for ever.
SendsReturn == \A w \in Workers : []<>~Open(w)

JobsSettle == SendsReturn => Promise!Settles

\* The same without that condition.  The code does not keep it: one mail server
\* that accepts a connection and falls silent stops the only worker, and with
\* it the webhooks.
JobsAlwaysSettle == Promise!Settles
=============================================================================
