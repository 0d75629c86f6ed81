---------------------------- MODULE OutboxProofs ----------------------------
(***************************************************************************)
(* Proofs about Outbox, for any jobs, workers, attempts, backoffs and      *)
(* leases.  What the rows say of an attempt needs nothing but the code;    *)
(* that a claimed job has one owner needs the lease to outlast the batch.  *)
(***************************************************************************)
EXTENDS Outbox, TLAPS

LEMMA LessIsNat ==
  ASSUME NEW a \in Nat, NEW b \in Nat
  PROVE  Less(a, b) \in Nat /\ Less(a, b) <= a
BY DEF Less

LEMMA HorizonIsNat == Horizon \in Nat
BY OutboxAssumption DEF Horizon

LEMMA LeaseIsNat == Lease \in Nat /\ Lease > 0
BY OutboxAssumption

\* Send, and what a mail server that falls silent makes of it: in each case the
\* worker learns something, or nothing, of one claim it holds.
Deliver(w) == Send(w) \/ Hang(w) \/ Unhang(w)
Result     == Outcome \cup {"open"}

LEMMA DeliverAnswers ==
  ASSUME NEW w \in Workers, Deliver(w)
  PROVE  \E c \in held[w], result \in Result : Answer(w, c, result)
BY DEF Deliver, Send, Hang, Unhang, Result

LEMMA InitTyped == Init => TypeOK
BY OutboxAssumption DEF Init, TypeOK, Row, NoRow

LEMMA ClaimTyped ==
  ASSUME TypeOK, NEW w \in Workers, ClaimBatch(w)
  PROVE  TypeOK'
<1>1. PICK S \in SUBSET Due :
        /\ row' = [j \in Jobs |->
                     IF j \in S THEN Leased(row[j]) ELSE row[j]]
        /\ held' = [held EXCEPT ![w] =
                      {[job |-> j, attempts |-> row[j].attempts + 1,
                        result |-> "todo"] : j \in S}]
  BY DEF ClaimBatch
<1>2. row' \in [Jobs -> Row]
  <2>1. \A j \in Jobs : Leased(row[j]) \in Row
    BY LeaseIsNat DEF TypeOK, Row, Leased
  <2>2. \A j \in Jobs : row[j] \in Row
    BY DEF TypeOK
  <2>3. QED
    BY <1>1, <2>1, <2>2
<1>3. \A j \in S : [job |-> j, attempts |-> row[j].attempts + 1,
                    result |-> "todo"] \in Claim
  BY DEF Due, TypeOK, Row, Claim
<1>4. held' \in [Workers -> SUBSET Claim]
  BY <1>1, <1>3 DEF TypeOK
<1>5. age' \in [Workers -> Nat]
  BY DEF ClaimBatch, TypeOK
<1>6. QED
  BY <1>2, <1>4, <1>5 DEF ClaimBatch, TypeOK

LEMMA SettleTyped ==
  ASSUME TypeOK, NEW w \in Workers, NEW c \in held[w], SettleRow(w, c)
  PROVE  row' \in [Jobs -> Row]
<1>. USE OutboxAssumption
<1>1. c \in Claim /\ age[w] \in Nat
  BY DEF TypeOK
<1>2. CASE Mark(c.job, "sent") \/ Mark(c.job, "dead")
  BY <1>1, <1>2 DEF Mark, TypeOK, Row, Claim
<1>3. CASE ~Exhausted(c.attempts) /\
           row' = [row EXCEPT ![c.job].wait = Less(Backoff(c.attempts), age[w])]
  <2>1. c.attempts \in 1..MaxAttempts
    BY <1>1, <1>3 DEF Exhausted, Claim
  <2>2. Less(Backoff(c.attempts), age[w]) \in Nat
    BY <1>1, <2>1, LessIsNat
  <2>3. QED
    BY <1>1, <1>3, <2>2 DEF TypeOK, Row, Claim
<1>4. QED
  BY <1>2, <1>3 DEF SettleRow

LEMMA NextTyped == TypeOK /\ [Next]_vars => TypeOK'
<1>. USE OutboxAssumption
<1>1. SUFFICES ASSUME TypeOK, [Next]_vars PROVE TypeOK'
  OBVIOUS
<1>2. ASSUME NEW j \in Jobs, Enqueue(j) PROVE TypeOK'
  BY <1>1, <1>2 DEF Enqueue, TypeOK, Row
<1>3. ASSUME NEW w \in Workers, NoSender(w) PROVE TypeOK'
  <2>1. PICK c \in held[w] :
          /\ Drop(w, c)
          /\ \/ Mark(c.job, "dead") /\ UNCHANGED losses
             \/ losses < MaxLosses /\ losses' = losses + 1 /\ UNCHANGED row
    BY <1>3 DEF NoSender
  <2>2. row' \in [Jobs -> Row]
    BY <1>1, <2>1 DEF Mark, TypeOK, Row, Claim
  <2>3. held' \in [Workers -> SUBSET Claim] /\ losses' \in 0..MaxLosses
    BY <1>1, <2>1 DEF Drop, TypeOK
  <2>4. QED
    BY <1>1, <1>3, <2>2, <2>3 DEF NoSender, TypeOK
<1>4. ASSUME NEW w \in Workers, Deliver(w) PROVE TypeOK'
  <2>1. PICK c \in held[w], result \in Result : Answer(w, c, result)
    BY <1>4, DeliverAnswers
  <2> DEFINE done == [c EXCEPT !.result = result]
  <2>2. c \in Claim /\ done \in Claim
    BY <1>1 DEF TypeOK, Claim, Result, Outcome
  <2>3. held' = [held EXCEPT ![w] = (@ \ {c}) \cup {done}]
    BY <2>1 DEF Answer
  <2>4. reached' \subseteq Jobs
    BY <1>1, <2>1, <2>2 DEF Answer, TypeOK, Claim
  <2>5. UNCHANGED <<row, pool, configured, age, losses>>
    BY <2>1 DEF Answer
  <2>. HIDE DEF done
  <2>6. held' \in [Workers -> SUBSET Claim]
    BY <1>1, <2>2, <2>3 DEF TypeOK
  <2>7. QED
    BY <1>1, <2>4, <2>5, <2>6 DEF TypeOK
<1>5. ASSUME NEW w \in Workers, Record(w) PROVE TypeOK'
  <2>1. PICK c \in held[w] :
          /\ Drop(w, c)
          /\ \/ SettleRow(w, c) /\ UNCHANGED losses
             \/ losses < MaxLosses /\ losses' = losses + 1 /\ UNCHANGED row
    BY <1>5 DEF Record
  <2>2. row' \in [Jobs -> Row]
    BY <1>1, <2>1, SettleTyped DEF TypeOK
  <2>3. held' \in [Workers -> SUBSET Claim] /\ losses' \in 0..MaxLosses
    BY <1>1, <2>1 DEF Drop, TypeOK
  <2>4. QED
    BY <1>1, <1>5, <2>2, <2>3 DEF Record, TypeOK
<1>6. ASSUME NEW w \in Workers, Crash(w) PROVE TypeOK'
  BY <1>1, <1>6 DEF Crash, TypeOK
<1>7. CASE Tick
  <2>1. row' \in [Jobs -> Row]
    BY <1>1, <1>7, LessIsNat DEF Tick, TypeOK, Row
  <2>2. age' \in [Workers -> Nat]
    BY <1>1, <1>7, HorizonIsNat DEF Tick, Least, TypeOK
  <2>3. QED
    BY <1>1, <1>7, <2>1, <2>2 DEF Tick, TypeOK
<1>8. CASE UNCHANGED vars
  BY <1>1, <1>8 DEF vars, TypeOK
<1>9. QED
  BY <1>1, <1>2, <1>3, <1>4, <1>5, <1>6, <1>7, <1>8, ClaimTyped
     DEF Next, Work, Deliver

\* Every reachable state of the outbox is well typed: a wait is never a time
\* in the past, whatever the backoff and however long a batch took.
THEOREM TypeCorrect == Spec => []TypeOK
BY InitTyped, NextTyped, PTL DEF Spec

-----------------------------------------------------------------------------
(* Ownership.  No row says who claimed it; that a job has one owner follows *)
(* from the wait the claim put on the row, as long as that lasts.           *)

\* Either a batch is done before its lease is over, or there is no one else
\* who could claim the job: the two ways the outbox is deployed.
LeaseSound == SendsFitLease \/ ~Several

HeldInPool  == \A w \in Workers : held[w] # {} => w \in pool
HeldIsOpen  == \A w \in Workers : \A c \in held[w] :
                 /\ row[c.job].status = "pending"
                 /\ row[c.job].attempts = c.attempts
OneOwner    == \A v, w \in Workers : \A c \in held[v], d \in held[w] :
                 c.job = d.job => v = w /\ c = d
HeldIsLeased == Several => \A w \in Workers : \A c \in held[w] : row[c.job].wait > 0

OwnInv == TypeOK /\ HeldInPool /\ HeldIsOpen /\ OneOwner /\ HeldIsLeased

LEMMA InitOwn == Init => OwnInv
<1>1. Init => HeldInPool /\ HeldIsOpen /\ OneOwner /\ HeldIsLeased
  BY DEF Init, HeldInPool, HeldIsOpen, OneOwner, HeldIsLeased
<1>2. QED
  BY <1>1, InitTyped DEF OwnInv

\* A due job is nobody's when a worker with empty hands claims it.
LEMMA DueIsFree ==
  ASSUME OwnInv, NEW w \in Workers, w \in pool, held[w] = {}, NEW j \in Due
  PROVE  \A v \in Workers : ~Holds(v, j)
<1>1. SUFFICES ASSUME NEW v \in Workers, NEW c \in held[v], c.job = j PROVE FALSE
  BY DEF Holds
<1>2. v # w /\ v \in pool
  BY <1>1 DEF OwnInv, HeldInPool
<1>3. row[j].wait > 0
  BY <1>1, <1>2 DEF OwnInv, HeldIsLeased, Several
<1>4. QED
  BY <1>3 DEF Due

LEMMA ClaimOwn ==
  ASSUME OwnInv, TypeOK', NEW w \in Workers, ClaimBatch(w)
  PROVE  OwnInv'
<1>1. PICK S \in SUBSET Due :
        /\ row' = [j \in Jobs |-> IF j \in S THEN Leased(row[j]) ELSE row[j]]
        /\ held' = [held EXCEPT ![w] =
                      {[job |-> j, attempts |-> row[j].attempts + 1,
                        result |-> "todo"] : j \in S}]
  BY DEF ClaimBatch
<1>2. /\ w \in pool /\ held[w] = {} /\ UNCHANGED pool
      /\ held \in [Workers -> SUBSET Claim] /\ S \subseteq Jobs
  BY DEF ClaimBatch, OwnInv, TypeOK, Due
<1>3. \A v \in Workers : \A c \in held[v] : c.job \in Jobs /\ c.job \notin S
  BY <1>2, DueIsFree DEF Holds, Claim
<1>4. \A v \in Workers \ {w} : held'[v] = held[v]
  BY <1>1, <1>2
<1>5. \A c \in held'[w] : /\ c.job \in S
                          /\ c = [job |-> c.job, attempts |-> row[c.job].attempts + 1,
                                  result |-> "todo"]
  BY <1>1, <1>2
<1>6. \A j \in S : row'[j] = Leased(row[j]) /\ row[j].status = "pending"
  BY <1>1, <1>2 DEF Due
<1>7. \A v \in Workers : \A c \in held[v] : row'[c.job] = row[c.job]
  BY <1>1, <1>3
<1>8. HeldInPool'
  BY <1>2, <1>4 DEF OwnInv, HeldInPool
<1>9. \A v \in Workers : \A c \in held'[v] :
        \/ c \in held[v] /\ row'[c.job] = row[c.job]
        \/ /\ row'[c.job].status = "pending"
           /\ row'[c.job].attempts = c.attempts
           /\ row'[c.job].wait = Lease
  <2>1. SUFFICES ASSUME NEW c \in held'[w]
                 PROVE  /\ row'[c.job].status = "pending"
                        /\ row'[c.job].attempts = c.attempts
                        /\ row'[c.job].wait = Lease
    BY <1>4, <1>7
  <2>2. c.attempts = row[c.job].attempts + 1
    BY <1>5
  <2>3. row'[c.job] = Leased(row[c.job]) /\ row[c.job].status = "pending"
    BY <1>5, <1>6
  <2>4. QED
    BY <2>2, <2>3 DEF Leased
<1>10. OneOwner'
  BY <1>3, <1>4, <1>5 DEF OwnInv, OneOwner
<1>11. HeldIsOpen'
  BY <1>9 DEF OwnInv, HeldIsOpen
<1>12. HeldIsLeased'
  BY <1>2, <1>9, LeaseIsNat DEF OwnInv, HeldIsLeased, Several
<1>13. QED
  BY <1>8, <1>10, <1>11, <1>12 DEF OwnInv

\* Recording one claim touches no job that anyone else, or the same worker,
\* still holds.
LEMMA DropOwn ==
  ASSUME OwnInv, TypeOK', NEW w \in Workers, NEW c \in held[w], Drop(w, c),
         UNCHANGED pool, \A j \in Jobs \ {c.job} : row'[j] = row[j]
  PROVE  OwnInv'
<1>1. /\ \A v \in Workers : held'[v] \subseteq held[v]
      /\ c \notin held'[w]
      /\ \A v \in Workers : \A d \in held[v] : d.job \in Jobs
  BY DEF Drop, OwnInv, TypeOK, Claim
<1>2. \A v \in Workers : \A d \in held'[v] : d.job # c.job /\ row'[d.job] = row[d.job]
  BY <1>1 DEF OwnInv, OneOwner
<1>3. HeldInPool' /\ HeldIsOpen' /\ OneOwner' /\ HeldIsLeased'
  BY <1>1, <1>2
     DEF OwnInv, HeldInPool, HeldIsOpen, OneOwner, HeldIsLeased, Several
<1>4. QED
  BY <1>3 DEF OwnInv

\* What settling a claim may do to the rows.
LEMMA SettleTouches ==
  ASSUME TypeOK, NEW w \in Workers, NEW c \in held[w], SettleRow(w, c)
  PROVE  /\ c.job \in Jobs
         /\ \A j \in Jobs \ {c.job} : row'[j] = row[j]
         /\ row'[c.job].attempts = row[c.job].attempts
         /\ \/ row'[c.job].status = "sent" /\ c.result = "ok"
            \/ row'[c.job].status = "dead"
            \/ row'[c.job].status = row[c.job].status /\ ~Exhausted(c.attempts)
<1>1. c.job \in Jobs /\ row[c.job] \in Row
  BY DEF TypeOK, Claim
<1>2. QED
  BY <1>1 DEF SettleRow, Mark, TypeOK, Row

LEMMA NoSenderOwn ==
  ASSUME OwnInv, TypeOK', NEW w \in Workers, NoSender(w)
  PROVE  OwnInv'
<1>1. PICK c \in held[w] : Drop(w, c) /\ (Mark(c.job, "dead") \/ UNCHANGED row)
  BY DEF NoSender
<1>2. UNCHANGED pool /\ \A j \in Jobs \ {c.job} : row'[j] = row[j]
  BY <1>1 DEF NoSender, Mark, OwnInv, TypeOK
<1>3. QED
  BY <1>1, <1>2, DropOwn

LEMMA RecordOwn ==
  ASSUME OwnInv, TypeOK', NEW w \in Workers, Record(w)
  PROVE  OwnInv'
<1>1. PICK c \in held[w] : Drop(w, c) /\ (SettleRow(w, c) \/ UNCHANGED row)
  BY DEF Record
<1>2. UNCHANGED pool /\ \A j \in Jobs \ {c.job} : row'[j] = row[j]
  BY <1>1, SettleTouches DEF Record, OwnInv
<1>3. QED
  BY <1>1, <1>2, DropOwn

LEMMA SendOwn ==
  ASSUME OwnInv, TypeOK', NEW w \in Workers, Deliver(w)
  PROVE  OwnInv'
<1>1. PICK c \in held[w], result \in Result : Answer(w, c, result)
  BY DeliverAnswers
<1> DEFINE done == [c EXCEPT !.result = result]
<1>2. c \in Claim /\ done.job = c.job /\ done.attempts = c.attempts
  BY DEF OwnInv, TypeOK, Claim
<1>3. /\ UNCHANGED <<row, pool>>
      /\ \A v \in Workers \ {w} : held'[v] = held[v]
      /\ held'[w] = (held[w] \ {c}) \cup {done}
  BY <1>1 DEF Answer, OwnInv, TypeOK
<1>. HIDE DEF done
<1>4. HeldInPool' /\ HeldIsOpen' /\ HeldIsLeased'
  BY <1>2, <1>3 DEF OwnInv, HeldInPool, HeldIsOpen, HeldIsLeased, Several
<1>5. OneOwner'
  BY <1>2, <1>3 DEF OwnInv, OneOwner
<1>6. QED
  BY <1>4, <1>5 DEF OwnInv

LEMMA TickOwn ==
  ASSUME LeaseSound, OwnInv, TypeOK', Tick
  PROVE  OwnInv'
<1>1. /\ UNCHANGED <<pool, held>>
      /\ row' = [j \in Jobs |-> [row[j] EXCEPT !.wait = Less(@, 1)]]
  BY DEF Tick
<1>2. \A w \in Workers : \A c \in held[w] : c.job \in Jobs /\ row[c.job] \in Row
  BY DEF OwnInv, TypeOK, Claim
<1>3. \A w \in Workers : \A c \in held[w] :
        /\ row'[c.job].status = row[c.job].status
        /\ row'[c.job].attempts = row[c.job].attempts
        /\ row'[c.job].wait = Less(row[c.job].wait, 1)
  BY <1>1, <1>2 DEF Row
<1>4. HeldInPool' /\ HeldIsOpen' /\ OneOwner'
  BY <1>1, <1>3 DEF OwnInv, HeldInPool, HeldIsOpen, OneOwner
<1>5. HeldIsLeased'
  <2>1. SUFFICES ASSUME Several, NEW w \in Workers, NEW c \in held[w]
                 PROVE  row'[c.job].wait > 0
    BY <1>1 DEF HeldIsLeased, Several
  <2>2. row[c.job].wait > 1
    BY <2>1 DEF Tick, LeaseSound, LeaseHolds, OwnInv, HeldInPool
  <2>3. row[c.job].wait \in Nat
    BY <1>2, <2>1 DEF Row
  <2>4. QED
    BY <1>3, <2>1, <2>2, <2>3 DEF Less
<1>6. QED
  BY <1>4, <1>5 DEF OwnInv

LEMMA NextOwn == LeaseSound /\ OwnInv /\ [Next]_vars => OwnInv'
<1>1. SUFFICES ASSUME LeaseSound, OwnInv, [Next]_vars PROVE OwnInv'
  OBVIOUS
<1>2. TypeOK'
  BY <1>1, NextTyped DEF OwnInv
<1>3. ASSUME NEW j \in Jobs, Enqueue(j) PROVE OwnInv'
  <2>1. /\ UNCHANGED <<pool, held>> /\ row[j].status = "absent"
        /\ \A k \in Jobs \ {j} : row'[k] = row[k]
    BY <1>1, <1>3 DEF Enqueue, NoRow, OwnInv, TypeOK
  <2>2. \A w \in Workers : \A c \in held[w] : c.job \in Jobs \ {j}
    BY <1>1, <2>1 DEF OwnInv, HeldIsOpen, TypeOK, Claim
  <2>3. QED
    BY <1>1, <1>2, <2>1, <2>2
       DEF OwnInv, HeldInPool, HeldIsOpen, OneOwner, HeldIsLeased, Several
<1>4. ASSUME NEW w \in Workers, Work(w) PROVE OwnInv'
  BY <1>1, <1>2, <1>4, ClaimOwn, NoSenderOwn, SendOwn, RecordOwn DEF Work, Deliver
<1>9. ASSUME NEW w \in Workers, Hang(w) \/ Unhang(w) PROVE OwnInv'
  BY <1>1, <1>2, <1>9, SendOwn DEF Deliver
<1>5. ASSUME NEW w \in Workers, Crash(w) PROVE OwnInv'
  <2>1. /\ UNCHANGED <<row, pool>>
        /\ \A v \in Workers : held'[v] \subseteq held[v]
    BY <1>1, <1>5 DEF Crash, OwnInv, TypeOK
  <2>2. QED
    BY <1>1, <1>2, <2>1
       DEF OwnInv, HeldInPool, HeldIsOpen, OneOwner, HeldIsLeased, Several
<1>6. CASE Tick
  BY <1>1, <1>2, <1>6, TickOwn
<1>7. CASE UNCHANGED vars
  BY <1>1, <1>2, <1>7
     DEF vars, OwnInv, HeldInPool, HeldIsOpen, OneOwner, HeldIsLeased, Several
<1>8. QED
  BY <1>1, <1>3, <1>4, <1>5, <1>6, <1>7, <1>9 DEF Next

\* A claimed job has one owner and is still open, for any number of workers
\* whose sends fit the lease, and for a lone worker however slow.
THEOREM ClaimsAreExclusive == Spec /\ []LeaseSound => []ClaimExclusive
<1>1. OwnInv => ClaimExclusive
  BY DEF OwnInv, ClaimExclusive, HeldIsOpen, OneOwner, Holds
<1>2. QED
  BY InitOwn, NextOwn, <1>1, PTL DEF Spec

\* Under the same condition a job that was sent or dead-lettered stays so:
\* the UPDATEs that name a row by its id alone only ever meet a pending one.
THEOREM SettledStays == Spec /\ []LeaseSound => SettledIsFinal
<1> DEFINE Final == \A j \in Jobs : row[j].status \in {"sent", "dead"}
                                      => row'[j].status = row[j].status
<1>1. ASSUME OwnInv, [Next]_vars PROVE Final
  <2>1. SUFFICES ASSUME NEW j \in Jobs, row[j].status \in {"sent", "dead"}
                 PROVE  row'[j].status = row[j].status
    OBVIOUS
  <2>2. row \in [Jobs -> Row]
    BY <1>1 DEF OwnInv, TypeOK
  <2>3. ASSUME NEW k \in Jobs, Enqueue(k) PROVE row'[j].status = row[j].status
    BY <2>1, <2>2, <2>3 DEF Enqueue, NoRow
  <2>4. ASSUME NEW w \in Workers, ClaimBatch(w) PROVE row'[j].status = row[j].status
    BY <2>1, <2>4 DEF ClaimBatch, Leased
  <2>5. ASSUME NEW w \in Workers, NoSender(w) PROVE row'[j].status = row[j].status
    BY <1>1, <2>1, <2>2, <2>5 DEF NoSender, Mark, OwnInv, HeldIsOpen
  <2>6. ASSUME NEW w \in Workers, Record(w) PROVE row'[j].status = row[j].status
    <3>1. PICK c \in held[w] : SettleRow(w, c) \/ UNCHANGED row
      BY <2>6 DEF Record
    <3>2. j # c.job
      BY <1>1, <2>1 DEF OwnInv, HeldIsOpen
    <3>3. QED
      BY <1>1, <3>1, <3>2, SettleTouches DEF OwnInv
  <2>7. CASE Tick
    BY <2>1, <2>2, <2>7 DEF Tick, Row
  <2>8. QED
    BY <1>1, <2>3, <2>4, <2>5, <2>6, <2>7
       DEF Next, Work, Send, Hang, Unhang, Answer, Crash, vars
<1>2. OwnInv /\ [Next]_vars => [Final]_vars
  BY <1>1
<1>3. QED
  BY InitOwn, NextOwn, <1>2, PTL DEF Spec, SettledIsFinal

-----------------------------------------------------------------------------
(* The budget of attempts.  A job in nobody's hands has an attempt to spare, *)
(* because losing hold of one without settling it is counted in losses.      *)

FreeHasBudget ==
  \A j \in Jobs :
    /\ row[j].status \in {"absent", "pending"}
    /\ \A w \in Workers : ~Holds(w, j)
    => row[j].attempts < MaxAttempts + losses

BudgetInv == OwnInv /\ RetryBudget /\ FreeHasBudget

LEMMA BoundsAreNat == MaxAttempts \in Nat /\ MaxAttempts > 0 /\ MaxLosses \in Nat
BY OutboxAssumption

LEMMA RowsAreNat ==
  ASSUME TypeOK
  PROVE  losses \in Nat /\ \A j \in Jobs : row[j].attempts \in Nat
BY BoundsAreNat DEF TypeOK, Row

LEMMA InitBudget == Init => BudgetInv
<1>1. Init => RetryBudget /\ FreeHasBudget
  BY BoundsAreNat DEF Init, NoRow, RetryBudget, FreeHasBudget
<1>2. QED
  BY <1>1, InitOwn DEF BudgetInv

\* Rows may leave the open statuses, and attempts stay: the budget holds when
\* no job becomes free unless a loss paid for it or its row was settled.
LEMMA KeepBudget ==
  ASSUME BudgetInv, OwnInv', losses' >= losses,
         \A j \in Jobs : row'[j].attempts = row[j].attempts,
         \A j \in Jobs :
           \/ \A w \in Workers : ~Holds(w, j)' => ~Holds(w, j)
           \/ losses' = losses + 1
           \/ row'[j].status \in {"sent", "dead"}
           \/ row[j].attempts < MaxAttempts,
         \A j \in Jobs : row'[j].status \in {"absent", "pending"}
                           => row[j].status \in {"absent", "pending"}
  PROVE  BudgetInv'
<1>1. /\ losses \in Nat /\ losses' \in Nat /\ MaxAttempts \in Nat
      /\ \A j \in Jobs : row[j].attempts \in Nat
  BY RowsAreNat, BoundsAreNat DEF BudgetInv, OwnInv, TypeOK
<1>2. RetryBudget'
  BY <1>1 DEF BudgetInv, RetryBudget
<1>3. ASSUME NEW j \in Jobs, row'[j].status \in {"absent", "pending"},
             \A w \in Workers : ~Holds(w, j)'
      PROVE  row'[j].attempts < MaxAttempts + losses'
  <2>1. CASE \A w \in Workers : ~Holds(w, j)' => ~Holds(w, j)
    BY <1>1, <1>3, <2>1 DEF BudgetInv, FreeHasBudget
  <2>2. CASE losses' = losses + 1
    BY <1>1, <2>2 DEF BudgetInv, RetryBudget
  <2>3. CASE row[j].attempts < MaxAttempts
    BY <1>1, <2>3
  <2>4. QED
    BY <1>3, <2>1, <2>2, <2>3
<1>4. QED
  BY <1>2, <1>3 DEF BudgetInv, FreeHasBudget

LEMMA ClaimBudget ==
  ASSUME BudgetInv, OwnInv', NEW w \in Workers, ClaimBatch(w)
  PROVE  BudgetInv'
<1>1. PICK S \in SUBSET Due :
        /\ row' = [j \in Jobs |-> IF j \in S THEN Leased(row[j]) ELSE row[j]]
        /\ held' = [held EXCEPT ![w] =
                      {[job |-> j, attempts |-> row[j].attempts + 1,
                        result |-> "todo"] : j \in S}]
  BY DEF ClaimBatch
<1>2. /\ w \in pool /\ held[w] = {} /\ UNCHANGED losses
      /\ held \in [Workers -> SUBSET Claim]
      /\ losses \in Nat /\ MaxAttempts \in Nat
      /\ \A j \in Jobs : row[j].attempts \in Nat
  BY RowsAreNat, BoundsAreNat DEF ClaimBatch, BudgetInv, OwnInv, TypeOK
<1>3. \A j \in S : row[j].attempts < MaxAttempts + losses
  BY <1>2, DueIsFree DEF BudgetInv, FreeHasBudget, Due
<1>4. ASSUME NEW j \in S PROVE Holds(w, j)'
  <2>1. held'[w] = {[job |-> k, attempts |-> row[k].attempts + 1,
                     result |-> "todo"] : k \in S}
    BY <1>1, <1>2
  <2>2. [job |-> j, attempts |-> row[j].attempts + 1, result |-> "todo"] \in held'[w]
    BY <2>1
  <2>3. QED
    BY <2>2 DEF Holds
<1>5. \A j \in Jobs : j \notin S =>
        row'[j] = row[j] /\ \A v \in Workers : Holds(v, j) => Holds(v, j)'
  BY <1>1, <1>2 DEF Holds
<1>6. \A j \in S : row'[j].attempts = row[j].attempts + 1
  BY <1>1 DEF Leased, Due
<1>7. RetryBudget'
  BY <1>2, <1>3, <1>5, <1>6 DEF BudgetInv, RetryBudget
<1>8. FreeHasBudget'
  BY <1>2, <1>4, <1>5 DEF BudgetInv, FreeHasBudget
<1>9. QED
  BY <1>7, <1>8 DEF BudgetInv

LEMMA DroppedOne ==
  ASSUME TypeOK, NEW w \in Workers, NEW c \in held[w], Drop(w, c),
         NEW j \in Jobs, j # c.job, NEW v \in Workers
  PROVE  Holds(v, j) => Holds(v, j)'
BY DEF Drop, Holds, TypeOK

LEMMA NextBudget == LeaseSound /\ BudgetInv /\ [Next]_vars => BudgetInv'
<1>1. SUFFICES ASSUME LeaseSound, BudgetInv, [Next]_vars PROVE BudgetInv'
  OBVIOUS
<1>2. OwnInv' /\ TypeOK /\ losses \in Nat
  BY <1>1, NextOwn, RowsAreNat DEF BudgetInv, OwnInv
<1>3. ASSUME NEW j \in Jobs, Enqueue(j) PROVE BudgetInv'
  <2>1. /\ UNCHANGED <<held, losses>>
        /\ \A k \in Jobs : row'[k].attempts = row[k].attempts
        /\ \A k \in Jobs : row'[k].status \in {"absent", "pending"}
                             => row[k].status \in {"absent", "pending"}
    BY <1>2, <1>3 DEF Enqueue, NoRow, TypeOK, Row
  <2>2. \A k \in Jobs : \A w \in Workers : ~Holds(w, k)' => ~Holds(w, k)
    BY <2>1 DEF Holds
  <2>3. QED
    BY <1>1, <1>2, <2>1, <2>2, KeepBudget
<1>4. ASSUME NEW w \in Workers, NoSender(w) PROVE BudgetInv'
  <2>1. PICK c \in held[w] :
          /\ Drop(w, c)
          /\ \/ Mark(c.job, "dead") /\ UNCHANGED losses
             \/ losses' = losses + 1 /\ UNCHANGED row
    BY <1>4 DEF NoSender
  <2>2. \A j \in Jobs \ {c.job} : \A v \in Workers : Holds(v, j) => Holds(v, j)'
    BY <1>2, <2>1, DroppedOne
  <2>3. CASE losses' = losses + 1 /\ UNCHANGED row
    BY <1>1, <1>2, <2>2, <2>3, KeepBudget
  <2>4. CASE Mark(c.job, "dead") /\ UNCHANGED losses
    <3>1. c.job \in Jobs
      BY <1>2 DEF TypeOK, Claim
    <3>2. row' = [row EXCEPT ![c.job].status = "dead"] /\ row \in [Jobs -> Row]
      BY <1>2, <2>4 DEF Mark, TypeOK
    <3>3. /\ \A j \in Jobs : row'[j].attempts = row[j].attempts
          /\ \A j \in Jobs \ {c.job} : row'[j] = row[j]
          /\ row'[c.job].status = "dead"
      BY <3>1, <3>2 DEF Row
    <3>4. QED
      BY <1>1, <1>2, <2>2, <2>4, <3>3, KeepBudget
  <2>5. QED
    BY <2>1, <2>3, <2>4
<1>5. ASSUME NEW w \in Workers, Record(w) PROVE BudgetInv'
  <2>1. PICK c \in held[w] :
          /\ Drop(w, c)
          /\ \/ SettleRow(w, c) /\ UNCHANGED losses
             \/ losses' = losses + 1 /\ UNCHANGED row
    BY <1>5 DEF Record
  <2>2. \A j \in Jobs \ {c.job} : \A v \in Workers : Holds(v, j) => Holds(v, j)'
    BY <1>2, <2>1, DroppedOne
  <2>3. CASE losses' = losses + 1 /\ UNCHANGED row
    BY <1>1, <1>2, <2>2, <2>3, KeepBudget
  <2>4. CASE SettleRow(w, c) /\ UNCHANGED losses
    <3>1. /\ row[c.job].status = "pending"
          /\ row[c.job].attempts = c.attempts
          /\ row[c.job].attempts \in Nat /\ MaxAttempts \in Nat
      BY <1>1, <1>2, SettleTouches, RowsAreNat, BoundsAreNat, <2>4
         DEF BudgetInv, OwnInv, HeldIsOpen
    <3>2. row'[c.job].status \in {"sent", "dead"} \/ row[c.job].attempts < MaxAttempts
      BY <1>2, <2>4, <3>1, SettleTouches DEF Exhausted
    <3>3. /\ \A j \in Jobs : row'[j].attempts = row[j].attempts
          /\ \A j \in Jobs : row'[j].status \in {"absent", "pending"}
                               => row[j].status \in {"absent", "pending"}
      BY <1>2, <2>4, <3>1, SettleTouches
    <3>4. QED
      BY <1>1, <1>2, <2>2, <2>4, <3>2, <3>3, KeepBudget
  <2>5. QED
    BY <2>1, <2>3, <2>4
<1>6. ASSUME NEW w \in Workers, Deliver(w) PROVE BudgetInv'
  <2>1. PICK c \in held[w], result \in Result : Answer(w, c, result)
    BY <1>6, DeliverAnswers
  <2>2. [c EXCEPT !.result = result].job = c.job
    BY <1>2, <2>1 DEF TypeOK, Claim
  <2>3. \A j \in Jobs : \A v \in Workers : Holds(v, j) => Holds(v, j)'
    BY <1>2, <2>1, <2>2 DEF Answer, Holds, TypeOK
  <2>4. UNCHANGED <<row, losses>>
    BY <2>1 DEF Answer
  <2>5. QED
    BY <1>1, <1>2, <2>3, <2>4, KeepBudget
<1>7. ASSUME NEW w \in Workers, Crash(w) PROVE BudgetInv'
  BY <1>1, <1>2, <1>7, KeepBudget DEF Crash
<1>8. CASE Tick
  <2>1. /\ UNCHANGED <<held, losses>>
        /\ \A j \in Jobs : /\ row'[j].attempts = row[j].attempts
                           /\ row'[j].status = row[j].status
    BY <1>2, <1>8 DEF Tick, TypeOK, Row
  <2>2. \A j \in Jobs : \A w \in Workers : ~Holds(w, j)' => ~Holds(w, j)
    BY <2>1 DEF Holds
  <2>3. QED
    BY <1>1, <1>2, <2>1, <2>2, KeepBudget
<1>9. CASE UNCHANGED vars
  BY <1>1, <1>2, <1>9 DEF vars, BudgetInv, RetryBudget, FreeHasBudget, Holds
<1>10. QED
  BY <1>1, <1>2, <1>3, <1>4, <1>5, <1>6, <1>7, <1>8, <1>9, ClaimBudget
     DEF Next, Work, Deliver

\* MaxAttempts is overrun by no more than one attempt for each crash or failed
\* state write, under the condition that makes claims exclusive.
THEOREM BudgetKept == Spec /\ []LeaseSound => []RetryBudget
<1>1. BudgetInv => RetryBudget
  BY DEF BudgetInv
<1>2. QED
  BY InitBudget, NextBudget, <1>1, PTL DEF Spec

-----------------------------------------------------------------------------
(* The promise.  Each step of the outbox is a step of DeliveryPromise or a   *)
(* stutter; only what was confirmed to have arrived is recorded as sent.     *)

ConfirmedArrived ==
  \A w \in Workers : \A c \in held[w] : c.result = "ok" => c.job \in reached

LEMMA InitConfirmed == Init => ConfirmedArrived
BY DEF Init, ConfirmedArrived

LEMMA NextConfirmed ==
  ASSUME TypeOK, ConfirmedArrived, [Next]_vars
  PROVE  ConfirmedArrived'
<1>1. ASSUME NEW w \in Workers, ClaimBatch(w) PROVE ConfirmedArrived'
  <2>1. PICK S \in SUBSET Due :
          held' = [held EXCEPT ![w] =
                     {[job |-> j, attempts |-> row[j].attempts + 1,
                       result |-> "todo"] : j \in S}]
    BY <1>1 DEF ClaimBatch
  <2>2. \A v \in Workers : \A c \in held'[v] : c \in held[v] \/ c.result = "todo"
    BY <2>1 DEF TypeOK
  <2>3. QED
    BY <1>1, <2>2 DEF ClaimBatch, ConfirmedArrived
<1>2. ASSUME NEW w \in Workers, Deliver(w) PROVE ConfirmedArrived'
  <2>1. PICK c \in held[w], result \in Result : Answer(w, c, result)
    BY <1>2, DeliverAnswers
  <2> DEFINE done == [c EXCEPT !.result = result]
  <2>2. done.job = c.job /\ done.result = result
    BY DEF TypeOK, Claim
  <2>3. \A v \in Workers : \A d \in held'[v] : d \in held[v] \/ d = done
    BY <2>1 DEF Answer, TypeOK
  <2>5. reached \subseteq reached' /\ (result = "ok" => c.job \in reached')
    BY <2>1 DEF Answer
  <2>. HIDE DEF done
  <2>4. QED
    BY <2>2, <2>3, <2>5 DEF ConfirmedArrived
<1>3. ASSUME NEW w \in Workers, NoSender(w) \/ Record(w) \/ Crash(w)
      PROVE  ConfirmedArrived'
  <2>1. \A v \in Workers : held'[v] \subseteq held[v]
    BY <1>3 DEF NoSender, Record, Crash, Drop, TypeOK
  <2>2. UNCHANGED reached
    BY <1>3 DEF NoSender, Record, Crash
  <2>3. QED
    BY <2>1, <2>2 DEF ConfirmedArrived
<1>4. CASE Tick \/ (\E j \in Jobs : Enqueue(j)) \/ UNCHANGED vars
  BY <1>4 DEF Tick, Enqueue, vars, ConfirmedArrived
<1>5. QED
  BY <1>1, <1>2, <1>3, <1>4 DEF Next, Work, Deliver

\* The rows of one job, seen as the promise sees them.
LEMMA StatusOf ==
  ASSUME TypeOK, NEW j \in Jobs, \A k \in Jobs \ {j} : row'[k] = row[k]
  PROVE  Status' = [Status EXCEPT ![j] = row'[j].status]
BY DEF Status, TypeOK

LEMMA SameStatus ==
  ASSUME \A j \in Jobs : row'[j].status = row[j].status
  PROVE  Status' = Status
BY DEF Status

LEMMA StepKeepsPromise ==
  ASSUME OwnInv, ConfirmedArrived, [Next]_vars
  PROVE  [Promise!Next]_(Promise!vars)
<1>1. TypeOK /\ row \in [Jobs -> Row]
  BY DEF OwnInv, TypeOK
<1>2. ASSUME NEW j \in Jobs, Enqueue(j) PROVE Promise!Next
  <2>1. /\ Status[j] = "absent" /\ UNCHANGED reached
        /\ row'[j].status = "pending"
        /\ \A k \in Jobs \ {j} : row'[k] = row[k]
    BY <1>1, <1>2 DEF Enqueue, Status, NoRow
  <2>2. Promise!Accept(j)
    BY <1>1, <2>1, StatusOf DEF Promise!Accept
  <2>3. QED
    BY <2>2 DEF Promise!Next
<1>3. ASSUME NEW w \in Workers, ClaimBatch(w) PROVE UNCHANGED Promise!vars
  <2>1. \A j \in Jobs : row'[j].status = row[j].status
    BY <1>3 DEF ClaimBatch, Leased
  <2>2. QED
    BY <1>3, <2>1, SameStatus DEF ClaimBatch, Promise!vars
<1>4. ASSUME NEW w \in Workers, NoSender(w)
      PROVE  Promise!Next \/ UNCHANGED Promise!vars
  <2>1. PICK c \in held[w] : Mark(c.job, "dead") \/ UNCHANGED row
    BY <1>4 DEF NoSender
  <2>2. c.job \in Jobs /\ Status[c.job] = "pending" /\ UNCHANGED reached
    BY <1>1, <1>4 DEF NoSender, OwnInv, HeldIsOpen, TypeOK, Claim, Status
  <2>3. CASE Mark(c.job, "dead")
    <3>1. row'[c.job].status = "dead" /\ \A k \in Jobs \ {c.job} : row'[k] = row[k]
      BY <1>1, <2>2, <2>3 DEF Mark
    <3>2. Promise!GiveUp(c.job)
      BY <1>1, <2>2, <3>1, StatusOf DEF Promise!GiveUp
    <3>3. QED
      BY <2>2, <3>2 DEF Promise!Next, Promise!Settle
  <2>4. CASE UNCHANGED row
    BY <2>2, <2>4, SameStatus DEF Promise!vars
  <2>5. QED
    BY <2>1, <2>3, <2>4
<1>5. ASSUME NEW w \in Workers, Deliver(w)
      PROVE  Promise!Next \/ UNCHANGED Promise!vars
  <2>1. PICK c \in held[w], result \in Result : Answer(w, c, result)
    BY <1>5, DeliverAnswers
  <2>2. /\ c.job \in Jobs /\ Status[c.job] = "pending"
        /\ Status' = Status
    BY <1>1, <2>1, SameStatus DEF Answer, OwnInv, HeldIsOpen, TypeOK, Claim, Status
  <2>3. Promise!Arrive(c.job) \/ UNCHANGED Promise!vars
    BY <2>1, <2>2 DEF Answer, Promise!Arrive, Promise!vars
  <2>4. QED
    BY <2>2, <2>3 DEF Promise!Next
<1>6. ASSUME NEW w \in Workers, Record(w)
      PROVE  Promise!Next \/ UNCHANGED Promise!vars
  <2>1. PICK c \in held[w] : SettleRow(w, c) \/ UNCHANGED row
    BY <1>6 DEF Record
  <2>2. c.job \in Jobs /\ Status[c.job] = "pending" /\ UNCHANGED reached
    BY <1>1, <1>6 DEF Record, OwnInv, HeldIsOpen, TypeOK, Claim, Status
  <2>3. CASE SettleRow(w, c)
    <3>1. \A k \in Jobs \ {c.job} : row'[k] = row[k]
      BY <1>1, <2>3, SettleTouches
    <3>2. CASE row'[c.job].status = "sent" /\ c.result = "ok"
      <4>1. c.job \in reached
        BY <3>2 DEF ConfirmedArrived
      <4>2. Promise!Confirm(c.job)
        BY <1>1, <2>2, <3>1, <3>2, <4>1, StatusOf DEF Promise!Confirm
      <4>3. QED
        BY <2>2, <4>2 DEF Promise!Next, Promise!Settle
    <3>3. CASE row'[c.job].status = "dead"
      <4>1. Promise!GiveUp(c.job)
        BY <1>1, <2>2, <3>1, <3>3, StatusOf DEF Promise!GiveUp
      <4>2. QED
        BY <2>2, <4>1 DEF Promise!Next, Promise!Settle
    <3>4. CASE row'[c.job].status = row[c.job].status
      <4>1. \A k \in Jobs : row'[k].status = row[k].status
        BY <3>1, <3>4
      <4>2. QED
        BY <2>2, <4>1, SameStatus DEF Promise!vars
    <3>5. QED
      BY <1>1, <2>3, <3>2, <3>3, <3>4, SettleTouches
  <2>4. CASE UNCHANGED row
    BY <2>2, <2>4, SameStatus DEF Promise!vars
  <2>5. QED
    BY <2>1, <2>3, <2>4
<1>7. CASE Tick
  <2>1. \A j \in Jobs : row'[j].status = row[j].status
    BY <1>1, <1>7 DEF Tick, Row
  <2>2. QED
    BY <1>7, <2>1, SameStatus DEF Tick, Promise!vars
<1>8. CASE (\E w \in Workers : Crash(w)) \/ UNCHANGED vars
  BY <1>8, SameStatus DEF Crash, vars, Promise!vars
<1>9. QED
  BY <1>2, <1>3, <1>4, <1>5, <1>6, <1>7, <1>8 DEF Next, Work, Deliver

\* The outbox implements DeliveryPromise, for any number of jobs and workers,
\* where claims are exclusive: sends that hang, crashes and lost writes do not
\* matter for that.
THEOREM KeepsPromise == Spec /\ []LeaseSound => PromiseSpec
<1>1. Init => Promise!Init
  BY DEF Init, Promise!Init, Status, NoRow
<1>2. OwnInv /\ ConfirmedArrived /\ [Next]_vars => ConfirmedArrived'
  BY NextConfirmed DEF OwnInv
<1>3. OwnInv /\ ConfirmedArrived /\ [Next]_vars => [Promise!Next]_(Promise!vars)
  BY StepKeepsPromise
<1>4. QED
  BY InitOwn, NextOwn, InitConfirmed, <1>1, <1>2, <1>3, PTL
     DEF Spec, PromiseSpec, Promise!Spec
=============================================================================
