-------------------------- MODULE EscalationProofs --------------------------
(***************************************************************************)
(* Proofs about Escalation, for any alerts, devices, windows, deadlines    *)
(* and bounds: the ladder is never early, a ladder that is over gets no    *)
(* louder but through an evaluation already under way, and a device that   *)
(* ignores an alert is reported in time.                                   *)
(***************************************************************************)
EXTENDS Escalation, FiniteSetTheorems, WellFoundedInduction, TLAPS

-----------------------------------------------------------------------------
(* A finite set of numbers has a greatest element *)

Under == {p \in Nat \X Nat : p[1] < p[2]}

LEMMA UnderIsWellFounded == IsWellFoundedOn(Under, Nat)
<1>1. OpToRel(<, Nat) = Under
  BY DEF OpToRel, Under
<1> QED
  BY <1>1, NatLessThanWellFounded

LEMMA Least ==
  ASSUME NEW T \in SUBSET Nat, T # {}
  PROVE  \E x \in T : \A y \in T : x <= y
<1>1. PICK x \in T : \A y \in T : <<y, x>> \notin Under
  BY UnderIsWellFounded, WFMin
<1>2. ASSUME NEW y \in T PROVE x <= y
  <2>1. <<y, x>> \notin Under /\ <<y, x>> \in Nat \X Nat
    BY <1>1
  <2>2. ~(y < x)
    BY <2>1 DEF Under
  <2> QED
    BY <2>2
<1> QED
  BY <1>2

HasGreatest(S) == \E x \in S : \A y \in S : y <= x

\* A smallest subset without one would have one.
LEMMA FiniteGreatest ==
  ASSUME NEW S \in SUBSET Nat, IsFiniteSet(S), S # {}
  PROVE  HasGreatest(S)
<1> DEFINE Bad   == {T \in SUBSET S : T # {} /\ ~HasGreatest(T)}
           Sizes == {Cardinality(T) : T \in Bad}
<1> SUFFICES ASSUME S \in Bad
             PROVE  FALSE
  OBVIOUS
<1>1. \A T \in SUBSET S : IsFiniteSet(T) /\ Cardinality(T) \in Nat
  BY FS_Subset, FS_CardinalityType
<1>2. Sizes \in SUBSET Nat /\ Sizes # {}
  BY <1>1
<1> HIDE DEF Sizes
<1>3. PICK n \in Sizes : \A k \in Sizes : n <= k
  BY <1>2, Least
<1>4. PICK T \in Bad : Cardinality(T) = n
  BY DEF Sizes
<1>5. PICK x \in T : TRUE
  BY <1>4
<1> DEFINE U == T \ {x}
<1>6. Cardinality(U) = n - 1 /\ U \in SUBSET S /\ n \in Nat
  BY <1>1, <1>2, <1>4, <1>5, FS_RemoveElement
<1>7. U \notin Bad
  <2>1. ~(n <= n - 1)
    BY <1>6
  <2> QED
    BY <1>3, <1>6, <2>1 DEF Sizes
<1>8. U # {}
  <2> SUFFICES ASSUME U = {} PROVE FALSE
    OBVIOUS
  <2>1. T = {x} /\ x \in Nat
    BY <1>4, <1>5
  <2> QED
    BY <1>4, <2>1 DEF HasGreatest
<1>9. PICK y \in U : \A z \in U : z <= y
  BY <1>6, <1>7, <1>8 DEF HasGreatest
<1>10. T \in SUBSET Nat /\ x \in Nat /\ y \in Nat /\ y \in T /\ \A z \in T : z = x \/ z \in U
  BY <1>4, <1>5, <1>9
<1>11. HasGreatest(T)
  <2>1. CASE x <= y
    <3>1. \A z \in T : z <= y
      BY <1>9, <1>10, <2>1
    <3> QED
      BY <1>10, <3>1 DEF HasGreatest
  <2>2. CASE y <= x
    <3>1. \A z \in T : z <= x
      BY <1>9, <1>10, <2>2
    <3> QED
      BY <1>5, <3>1 DEF HasGreatest
  <2> QED
    BY <1>10, <2>1, <2>2
<1> QED
  BY <1>4, <1>11

-----------------------------------------------------------------------------
(* Ages, phases *)

LEMMA Numbers ==
  /\ T1 \in Nat /\ T2 \in Nat /\ T3 \in Nat /\ TTLs \subseteq Nat
  /\ MaxLag \in Nat /\ MaxTracks \in Nat /\ MaxFaults \in Nat
  /\ Grace \in Nat /\ MaxLag <= Grace /\ Period <= Grace /\ Period \in Nat
BY EscalationAssumption DEF Grace

\* Saturated ages stay ahead of the time an evaluation may take.
LEMMA HorizonIsFar == Horizon \in Nat /\ Horizon >= MaxLag + 1
<1> DEFINE S == TTLs \cup {T3}
           m == CHOOSE k \in S : \A t \in S : t <= k
<1>1. IsFiniteSet(S) /\ S \in SUBSET Nat /\ S # {}
  BY Numbers, EscalationAssumption, FS_AddElement
<1> HIDE DEF S
<1>2. \E k \in S : \A t \in S : t <= k
  BY <1>1, FiniteGreatest DEF HasGreatest
<1>3. m \in S
  BY <1>2
<1>4. m \in Nat /\ Horizon = MaxLag + 1 + m
  BY <1>1, <1>3 DEF Horizon, S
<1> HIDE DEF m
<1> QED
  BY <1>4, Numbers

LEMMA DuePhases ==
  ASSUME NEW q \in 0..3, NEW elapsed
  PROVE  Due(q, elapsed) => q \in 1..3
BY DEF Due

\* There is always a furthest phase to be in: the present one, or one whose
\* deadline has passed.
LEMMA PhaseExists ==
  ASSUME NEW r, obj[r].phase \in 0..3
  PROVE  /\ NextPhase(r) \in obj[r].phase..3
         /\ NextPhase(r) = obj[r].phase \/ Due(NextPhase(r), Elapsed(r))
         /\ NextPhase(r) = 3 \/ ~Due(3, Elapsed(r))
<1> DEFINE P(p) == /\ p = obj[r].phase \/ Due(p, Elapsed(r))
                   /\ \A q \in p + 1..3 : ~Due(q, Elapsed(r))
<1>1. \E p \in obj[r].phase..3 : P(p)
  <2> DEFINE c == obj[r].phase
             e == Elapsed(r)
  <2>1. c \in 0..3
    OBVIOUS
  <2> HIDE DEF c, e
  <2>2. \E p \in c..3 : (p = c \/ Due(p, e)) /\ \A q \in p + 1..3 : ~Due(q, e)
    <3>1. CASE Due(3, e)
      BY <2>1, <3>1
    <3>2. CASE ~Due(3, e) /\ Due(2, e) /\ c <= 2
      BY <2>1, <3>2
    <3>3. CASE ~Due(3, e) /\ ~Due(2, e) /\ Due(1, e) /\ c <= 1
      BY <2>1, <3>3
    <3>4. CASE ~Due(3, e) /\ (~Due(2, e) \/ c > 2) /\ (~Due(1, e) \/ c > 1)
      BY <2>1, <3>4
    <3>5. CASE ~Due(3, e) /\ Due(2, e) /\ c > 2
      BY <2>1, <3>5
    <3> QED
      BY <2>1, <3>1, <3>2, <3>3, <3>4, <3>5
  <2> QED
    BY <2>2 DEF c, e
<1>2. NextPhase(r) = CHOOSE p \in obj[r].phase..3 : P(p)
  BY DEF NextPhase
<1> HIDE DEF P
<1>3. NextPhase(r) \in obj[r].phase..3 /\ P(NextPhase(r))
  BY <1>1, <1>2
<1>4. NextPhase(r) # 3 => 3 \in NextPhase(r) + 1..3
  BY <1>3
<1> QED
  BY <1>3, <1>4 DEF P

-----------------------------------------------------------------------------
(* Types, and what an evaluation may still hold *)

Evaluation ==
  [todo : SUBSET (1..tracks), ref : 0..tracks, silent : SUBSET Devices,
   raced : SUBSET (1..tracks)]

InHand(r) == r \in eval.todo \/ r = eval.ref

\* An object is on the list once, and if it is done although it is in hand, it was
\* stopped after the list was taken.
EvalInv ==
  /\ eval.ref \notin eval.todo
  /\ \A r \in 1..tracks : InHand(r) /\ obj[r].done => r \in eval.raced

TypeInv == TypeOK /\ EvalInv

LEMMA TypeInit ==
  ASSUME Init
  PROVE  TypeInv
<1> USE Numbers
<1>1. eval = Idle /\ tracks = 0 /\ Idle.todo = {} /\ Idle.ref = 0
  BY DEF Init, Idle
<1>2. Idle \in Evaluation
  BY <1>1 DEF Idle, Evaluation
<1>3. items \in [Alerts -> 0..tracks] /\ obj \in [1..tracks -> Object]
  BY DEF Init
<1> QED
  BY <1>1, <1>2, <1>3 DEF Init, TypeInv, TypeOK, EvalInv, Evaluation

\* What the evaluation holds of the objects does not depend on their number.
LEMMA TypeTrack ==
  ASSUME TypeInv, NEW id \in Alerts, TrackForAck(id)
  PROVE  TypeInv'
<1> USE Numbers
<1>1. tracks \in Nat /\ tracks' = tracks + 1 /\ tracks' \in 0..MaxTracks
  BY DEF TrackForAck, TypeInv, TypeOK
<1>2. PICK ttl \in TTLs :
         obj' = [r \in 1..tracks + 1 |->
                   IF r <= tracks THEN obj[r]
                   ELSE [id |-> id, ttl |-> ttl, age |-> 0, phase |-> 0,
                         done |-> FALSE, unreached |-> {}]]
  BY DEF TrackForAck
<1>3. obj' \in [1..tracks' -> Object]
  <2>1. [id |-> id, ttl |-> ttl, age |-> 0, phase |-> 0, done |-> FALSE,
         unreached |-> {}] \in Object
    BY HorizonIsFar DEF Object
  <2>2. \A r \in 1..tracks + 1 : r <= tracks => obj[r] \in Object
    BY <1>1 DEF TypeInv, TypeOK
  <2> QED
    BY <1>1, <1>2, <2>1, <2>2
<1>4. \A r \in 1..tracks : obj'[r] = obj[r]
  BY <1>1, <1>2
<1>5. eval' = eval /\ eval \in Evaluation
  BY DEF TrackForAck, TypeInv, TypeOK, Evaluation
<1>6. eval' \in Evaluation'
  BY <1>1, <1>5 DEF Evaluation
<1>7. items' \in [Alerts -> 0..tracks']
  BY <1>1 DEF TrackForAck, TypeInv, TypeOK
<1>8. \A r \in eval.todo \cup {eval.ref} : r # 0 => r \in 1..tracks
  BY <1>1, <1>5 DEF Evaluation
<1>9. TypeOK'
  <2>1. ignored' \subseteq (1..tracks') \X Devices
    BY <1>1 DEF TrackForAck, TypeInv, TypeOK
  <2>2. since' = since /\ Running' = Running
    BY <1>5 DEF TrackForAck, Running
  <2> QED
    BY <1>1, <1>3, <1>4, <1>5, <1>6, <1>7, <1>8, <2>1, <2>2
    DEF TrackForAck, TypeInv, TypeOK, Evaluation
<1>10. EvalInv'
  <2>1. ASSUME NEW r \in 1..tracks', InHand(r), obj'[r].done PROVE r \in eval.raced
    <3>1. r \in 1..tracks
      BY <1>8, <2>1, <1>1 DEF InHand
    <3> QED
      BY <1>4, <2>1, <3>1 DEF TypeInv, EvalInv
  <2> QED
    BY <1>5, <2>1 DEF TypeInv, EvalInv, InHand
<1> QED
  BY <1>9, <1>10 DEF TypeInv

LEMMA TypeStop ==
  ASSUME TypeInv, NEW id \in Alerts, StopEscalation(id)
  PROVE  TypeInv'
<1> USE Numbers
<1>1. items[id] \in 1..tracks /\ tracks \in Nat /\ tracks' = tracks
  BY DEF StopEscalation, Tracked, TypeInv, TypeOK
<1>2. /\ obj' = [obj EXCEPT ![items[id]].done = TRUE]
      /\ eval' = IF Running THEN [eval EXCEPT !.raced = @ \cup {items[id]}] ELSE eval
  BY DEF StopEscalation
<1>3. obj' \in [1..tracks -> Object] /\ \A r \in 1..tracks : obj'[r].age = obj[r].age
  BY <1>1, <1>2 DEF TypeInv, TypeOK, Object
<1>4. eval' \in Evaluation /\ eval'.todo = eval.todo /\ eval'.ref = eval.ref
  BY <1>1, <1>2 DEF TypeInv, TypeOK, Evaluation
<1>5. ASSUME NEW r \in 1..tracks, InHand(r), obj'[r].done PROVE r \in eval'.raced
  <2>1. Running
    BY <1>5, <1>1 DEF InHand, Running
  <2>2. eval'.raced = eval.raced \cup {items[id]}
    BY <1>2, <2>1 DEF TypeInv, TypeOK
  <2>3. CASE r = items[id]
    BY <2>2, <2>3
  <2>4. CASE r # items[id]
    BY <1>2, <1>5, <2>2, <2>4 DEF TypeInv, TypeOK, EvalInv
  <2> QED
    BY <2>3, <2>4
<1>6. EvalInv'
  BY <1>1, <1>4, <1>5 DEF TypeInv, EvalInv, InHand
<1>7. \A r \in eval'.todo \cup {eval'.ref} : r # 0 => since' <= obj'[r].age
  BY <1>3, <1>4 DEF StopEscalation, TypeInv, TypeOK, Evaluation
<1>8. since' = since /\ Running' = Running /\ ignored' \subseteq ignored
  BY <1>4 DEF StopEscalation, Running
<1> QED
  BY <1>1, <1>3, <1>4, <1>6, <1>7, <1>8 DEF StopEscalation, TypeInv, TypeOK, Evaluation

LEMMA TypeEvaluation ==
  ASSUME TypeInv, EvalEscalations
  PROVE  TypeInv'
<1> USE Numbers
<1>0. tracks \in Nat /\ eval \in Evaluation /\ obj \in [1..tracks -> Object]
  BY DEF TypeInv, TypeOK, Evaluation
<1>1. CASE Snapshot
  <2> DEFINE list == {items[id] : id \in {i \in Alerts : Tracked(i) /\ ~obj[items[i]].done}}
  <2>1. list \subseteq 1..tracks /\ \A r \in list : ~obj[r].done
    BY <1>0 DEF Tracked, TypeInv, TypeOK
  <2>2. eval' = [todo |-> list, ref |-> 0, silent |-> {}, raced |-> {}]
    BY <1>1 DEF Snapshot, Idle
  <2> HIDE DEF list
  <2>3. eval' \in Evaluation
    BY <1>0, <2>1, <2>2 DEF Evaluation
  <2>4. \A r \in 1..tracks : obj[r].age \in Nat
    BY <1>0, HorizonIsFar DEF Object
  <2>5. /\ eval'.todo = list /\ eval'.ref = 0 /\ since' = 0
        /\ UNCHANGED <<items, obj, tracks, acks, online, ignored, faults>>
    BY <1>1, <2>2 DEF Snapshot
  <2>6. \A r \in eval'.todo \cup {eval'.ref} : r # 0 => since' <= obj'[r].age
    <3>1. \A r \in list : obj[r].age \in Nat
      BY <2>1, <2>4
    <3>2. \A r \in list : 0 <= obj[r].age
      BY <3>1
    <3>3. list \cup {0} = eval'.todo \cup {eval'.ref} /\ obj' = obj /\ since' = 0
      BY <2>5
    <3> QED
      BY <3>2, <3>3
  <2>7. TypeOK'
    BY <2>3, <2>5, <2>6 DEF TypeInv, TypeOK, Evaluation
  <2>8. EvalInv'
    BY <2>1, <2>5, <1>0 DEF EvalInv, InHand
  <2> QED
    BY <2>7, <2>8 DEF TypeInv
<1>2. CASE Retire
  <2>1. PICK r \in eval.todo :
           /\ obj' = [obj EXCEPT ![r].done = TRUE]
           /\ eval' = [eval EXCEPT !.todo = @ \ {r}]
    BY <1>2 DEF Retire
  <2>2. eval' \in Evaluation /\ obj' \in [1..tracks -> Object]
    BY <1>0, <2>1 DEF Evaluation, Object
  <2>3. /\ eval'.todo = eval.todo \ {r} /\ eval'.ref = 0 /\ eval'.raced = eval.raced
        /\ since' = since /\ since <= MaxLag
    BY <1>0, <1>2, <2>1 DEF Retire, Evaluation, Running, TypeInv, TypeOK
  <2>4. /\ \A s \in 1..tracks : obj'[s].age = obj[s].age
        /\ \A s \in 1..tracks : s # r => obj'[s] = obj[s]
    BY <1>0, <2>1 DEF Object
  <2>5. TypeOK'
    <3>1. \A s \in eval'.todo \cup {eval'.ref} : s # 0 => since' <= obj'[s].age
      <4>1. \A s \in eval.todo : s \in 1..tracks /\ since <= obj[s].age
        BY <1>0 DEF Evaluation, TypeInv, TypeOK
      <4> QED
        BY <2>3, <2>4, <4>1
    <3>2. UNCHANGED <<items, tracks, since, acks, online, ignored, faults>>
      BY <1>2 DEF Retire
    <3>3. since' \in 0..Grace /\ (Running' => since' <= MaxLag)
      BY <2>3 DEF TypeInv, TypeOK
    <3> QED
      BY <2>2, <3>1, <3>2, <3>3 DEF TypeInv, TypeOK, Evaluation
  <2>6. EvalInv'
    BY <1>0, <1>2, <2>3, <2>4 DEF Retire, TypeInv, EvalInv, InHand, Evaluation
  <2> QED
    BY <2>5, <2>6 DEF TypeInv
<1>3. CASE Roster
  <2>1. PICK r \in eval.todo, silent \in SUBSET online :
           /\ eval' = [eval EXCEPT !.todo = @ \ {r}, !.ref = r, !.silent = silent]
           /\ faults' \in 0..MaxFaults
    <3>1. PICK r \in eval.todo :
             \/ /\ eval' = [eval EXCEPT !.todo = @ \ {r}, !.ref = r,
                              !.silent = online \ ListAcks(obj[r].id)]
                /\ UNCHANGED faults
             \/ /\ faults < MaxFaults
                /\ faults' = faults + 1
                /\ eval' = [eval EXCEPT !.todo = @ \ {r}, !.ref = r, !.silent = online]
      BY <1>3 DEF Roster
    <3>2. faults' \in 0..MaxFaults
      BY <3>1 DEF TypeInv, TypeOK
    <3>3. online \ ListAcks(obj[r].id) \in SUBSET online /\ online \in SUBSET online
      OBVIOUS
    <3> QED
      BY <3>1, <3>2, <3>3
  <2>2. eval' \in Evaluation
    <3>1. r \in 0..tracks /\ eval.todo \ {r} \in SUBSET (1..tracks)
          /\ silent \in SUBSET Devices
      BY <1>0 DEF Evaluation, TypeInv, TypeOK
    <3> QED
      BY <1>0, <2>1, <3>1 DEF Evaluation
  <2>3. /\ eval'.todo = eval.todo \ {r} /\ eval'.ref = r /\ eval'.raced = eval.raced
        /\ since <= MaxLag
    BY <1>0, <2>1 DEF Evaluation, Running, TypeInv, TypeOK
  <2>4. UNCHANGED <<items, obj, tracks, since, acks, online, ignored>>
    BY <1>3 DEF Roster
  <2> QED
    BY <1>0, <2>1, <2>2, <2>3, <2>4 DEF TypeInv, TypeOK, EvalInv, InHand, Evaluation
<1>4. CASE Judge
  <2> DEFINE r == eval.ref
  <2>1. r \in 1..tracks /\ obj[r] \in Object
    BY <1>0, <1>4 DEF Judge, Evaluation
  <2>2. NextPhase(r) \in 0..3
    BY <2>1, PhaseExists DEF Object
  <2>3. /\ eval' \in Evaluation /\ eval'.todo = eval.todo /\ eval'.ref = 0
        /\ eval'.raced = eval.raced
    <3>1. eval' = [eval EXCEPT !.ref = 0, !.silent = {}]
      BY <1>4 DEF Judge
    <3>2. eval' = [todo |-> eval.todo, ref |-> 0, silent |-> {},
                   raced |-> eval.raced]
      BY <1>0, <3>1 DEF Evaluation
    <3>3. /\ eval.todo \in SUBSET (1..tracks)
          /\ eval.raced \in SUBSET (1..tracks) /\ 0 \in 0..tracks
      BY <1>0 DEF Evaluation
    <3> QED
      BY <3>2, <3>3 DEF Evaluation
  <2>4. /\ obj' \in [1..tracks -> Object]
        /\ \A s \in 1..tracks : obj'[s].age = obj[s].age
        /\ \A s \in 1..tracks : s # r => obj'[s] = obj[s]
    <3>1. CASE eval.silent = {}
      <4>1. obj' = [obj EXCEPT ![r].done = TRUE]
        BY <1>4, <3>1 DEF Judge
      <4> QED
        BY <1>0, <2>1, <4>1 DEF Object
    <3>2. CASE eval.silent # {}
      <4> DEFINE p == NextPhase(r)
      <4>1. obj' = [obj EXCEPT ![r].phase = p,
                      ![r].unreached = IF p > obj[r].phase /\ p = 3 THEN eval.silent ELSE @]
        BY <1>4, <3>2 DEF Judge
      <4>2. eval.silent \in SUBSET Devices
        BY <1>0 DEF Evaluation
      <4>3. p \in 0..3 /\ obj[r].unreached \in SUBSET Devices
        BY <2>1, <2>2 DEF Object
      <4> HIDE DEF p
      <4> DEFINE u == IF p > obj[r].phase /\ p = 3 THEN eval.silent ELSE obj[r].unreached
                 o == [obj[r] EXCEPT !.phase = p, !.unreached = u]
      <4>4. u \in SUBSET Devices
        BY <4>2, <4>3
      <4>5. obj' = [obj EXCEPT ![r] = o]
        BY <1>0, <2>1, <4>1 DEF Object
      <4> HIDE DEF u
      <4>6. o \in Object /\ o.age = obj[r].age
        BY <2>1, <4>3, <4>4 DEF Object
      <4> HIDE DEF o
      <4> QED
        BY <1>0, <2>1, <4>5, <4>6
    <3> QED
      BY <3>1, <3>2
  <2>5. TypeOK'
    <3>1. since' = since /\ since <= MaxLag
      BY <1>4 DEF Judge, Running, TypeInv, TypeOK
    <3>2. \A s \in eval'.todo \cup {eval'.ref} : s # 0 => since' <= obj'[s].age
      <4>1. \A s \in eval.todo : s \in 1..tracks /\ since <= obj[s].age
        BY <1>0 DEF Evaluation, TypeInv, TypeOK
      <4> QED
        BY <2>3, <2>4, <3>1, <4>1
    <3>3. UNCHANGED <<items, tracks, since, acks, online, ignored, faults>>
      BY <1>4 DEF Judge
    <3>4. since' \in 0..Grace /\ (Running' => since' <= MaxLag)
      BY <3>1 DEF TypeInv, TypeOK
    <3> QED
      BY <2>3, <2>4, <3>2, <3>3, <3>4 DEF TypeInv, TypeOK, Evaluation
  <2>6. EvalInv'
    BY <1>0, <1>4, <2>3, <2>4 DEF Judge, TypeInv, EvalInv, InHand, Evaluation
  <2> QED
    BY <2>5, <2>6 DEF TypeInv
<1> QED
  BY <1>1, <1>2, <1>3, <1>4 DEF EvalEscalations

LEMMA TypeTick ==
  ASSUME TypeInv, Tick
  PROVE  TypeInv'
<1> USE Numbers
<1>1. /\ tracks \in Nat /\ eval \in Evaluation /\ obj \in [1..tracks -> Object]
      /\ Horizon \in Nat /\ Horizon >= MaxLag + 1
  BY HorizonIsFar DEF TypeInv, TypeOK, Evaluation
<1>2. ASSUME NEW r \in 1..tracks
      PROVE  /\ obj'[r] \in Object
             /\ obj'[r].age = IF obj[r].age < Horizon THEN obj[r].age + 1 ELSE obj[r].age
             /\ obj'[r].done = obj[r].done
  <2>1. obj'[r] = [obj[r] EXCEPT !.age = IF @ < Horizon THEN @ + 1 ELSE @]
    BY <1>2 DEF Tick
  <2>2. obj[r] \in Object /\ obj[r].age \in 0..Horizon
    BY <1>1, <1>2 DEF Object
  <2> DEFINE a == IF obj[r].age < Horizon THEN obj[r].age + 1 ELSE obj[r].age
  <2>3. a \in 0..Horizon /\ obj'[r] = [obj[r] EXCEPT !.age = a]
    BY <1>1, <2>1, <2>2 DEF Object
  <2> HIDE DEF a
  <2>4. obj'[r] \in Object /\ obj'[r].age = a /\ obj'[r].done = obj[r].done
    BY <2>2, <2>3 DEF Object
  <2> QED
    BY <2>4 DEF a
<1>3. obj' \in [1..tracks -> Object]
  BY <1>2 DEF Tick
<1>4. /\ eval' \in Evaluation /\ eval'.todo = eval.todo /\ eval'.ref = eval.ref
      /\ eval'.raced = eval.raced /\ Running' = Running
      /\ since' = since + 1 /\ since' \in 0..Grace /\ (Running => since' <= MaxLag)
  <2>1. since' = since + 1 /\ since \in Nat /\ since < IF Running THEN MaxLag ELSE Period
    BY DEF Tick, TypeInv, TypeOK
  <2>2. since' \in 0..Grace /\ (Running => since' <= MaxLag)
    BY <2>1
  <2> QED
    BY <1>1, <2>1, <2>2 DEF Tick, Evaluation, Running
<1>5. \A r \in eval'.todo \cup {eval'.ref} : r # 0 => since' <= obj'[r].age
  <2> SUFFICES ASSUME NEW r \in eval.todo \cup {eval.ref}, r # 0
               PROVE  since' <= obj'[r].age
    BY <1>4
  <2>1. r \in 1..tracks /\ since \in Nat /\ since' \in 0..MaxLag
    BY <1>1, <1>4 DEF Evaluation, Running, TypeInv, TypeOK
  <2>2. obj[r].age \in 0..Horizon /\ since <= obj[r].age
    BY <1>1, <2>1 DEF Object, TypeInv, TypeOK
  <2> QED
    BY <1>1, <1>2, <1>4, <2>1, <2>2
<1>6. EvalInv'
  BY <1>1, <1>2, <1>4 DEF Tick, TypeInv, EvalInv, InHand
<1> QED
  BY <1>3, <1>4, <1>5, <1>6 DEF Tick, TypeInv, TypeOK, Evaluation

LEMMA TypeStep ==
  ASSUME TypeInv, [Next]_vars
  PROVE  TypeInv'
<1>1. ASSUME NEW d \in Devices, NEW id \in Alerts, OnAck(d, id) PROVE TypeInv'
  BY <1>1 DEF OnAck, RecordAck, TypeInv, TypeOK, EvalInv, InHand, Running
<1>2. ASSUME NEW d \in Devices, OnPresence(d) PROVE TypeInv'
  BY <1>2 DEF OnPresence, TypeInv, TypeOK, EvalInv, InHand, Running
<1>3. CASE Restart
  <2>1. eval' = Idle /\ tracks \in Nat /\ UNCHANGED <<obj, tracks, acks>> /\ online' = {}
        /\ since' = 0 /\ ignored' = {}
        /\ items' \in [Alerts -> 0..tracks]
    BY <1>3 DEF Restart, TypeInv, TypeOK
  <2>2. Idle \in Evaluation /\ Idle.todo = {} /\ Idle.ref = 0
    BY <2>1, Numbers DEF Idle, Evaluation
  <2>3. faults' \in 0..MaxFaults
    BY <1>3, Numbers DEF Restart, TypeInv, TypeOK
  <2> QED
    BY <2>1, <2>2, <2>3, Numbers DEF TypeInv, TypeOK, EvalInv, InHand, Evaluation
<1>4. CASE UNCHANGED vars
  BY <1>4 DEF vars, TypeInv, TypeOK, EvalInv, InHand, Running
<1> QED
  BY <1>1, <1>2, <1>3, <1>4, TypeTrack, TypeStop, TypeEvaluation, TypeTick DEF Next

\* The ladder keeps its types; in particular an evaluation is never ahead of the
\* objects it judges.
THEOREM TypeCorrect == Spec => []TypeOK
<1>1. TypeInv => TypeOK
  BY DEF TypeInv
<1> QED
  BY <1>1, TypeInit, TypeStep, PTL DEF Spec

-----------------------------------------------------------------------------
(* What moves a phase *)

LEMMA PhaseMoves ==
  ASSUME TypeInv, [Next]_vars, NEW r \in 1..tracks, obj'[r].phase # obj[r].phase
  PROVE  /\ r = eval.ref
         /\ obj'[r].phase = NextPhase(r)
         /\ NextPhase(r) \in obj[r].phase..3
         /\ Due(NextPhase(r), Elapsed(r))
<1>1. tracks \in Nat /\ eval \in Evaluation /\ obj \in [1..tracks -> Object]
  BY Numbers DEF TypeInv, TypeOK, Evaluation
<1>2. CASE Judge
  <2>1. eval.silent # {} /\ r = eval.ref
    BY <1>1, <1>2 DEF Judge, Object
  <2> DEFINE p == NextPhase(r)
  <2>2. obj' = [obj EXCEPT ![r].phase = p,
                  ![r].unreached = IF p > obj[r].phase /\ p = 3 THEN eval.silent ELSE @]
    BY <1>2, <2>1 DEF Judge
  <2> HIDE DEF p
  <2>3. obj'[r].phase = p
    BY <1>1, <2>2 DEF Object
  <2>4. /\ p \in obj[r].phase..3
        /\ p = obj[r].phase \/ Due(p, Elapsed(r))
    BY <1>1, PhaseExists DEF Object, p
  <2> QED
    BY <2>1, <2>3, <2>4 DEF p
<1>3. ASSUME NEW id \in Alerts, TrackForAck(id) PROVE FALSE
  BY <1>1, <1>3 DEF TrackForAck
<1>4. ASSUME NEW id \in Alerts, StopEscalation(id) PROVE FALSE
  BY <1>1, <1>4 DEF StopEscalation, Object
<1>5. CASE Retire
  BY <1>1, <1>5 DEF Retire, Object
<1>6. CASE Tick
  <2>1. obj'[r] = [obj[r] EXCEPT !.age = IF @ < Horizon THEN @ + 1 ELSE @]
    BY <1>6 DEF Tick
  <2> QED
    BY <1>1, <2>1 DEF Object
<1>7. CASE UNCHANGED obj
  BY <1>7
<1> QED
  BY <1>2, <1>3, <1>4, <1>5, <1>6, <1>7
  DEF Next, EvalEscalations, Snapshot, Roster, OnPresence, OnAck, Restart, vars

\* No phase is entered before its deadline, however late or slow evaluations
\* are, and however alerts are renewed, stopped and answered meanwhile.
THEOREM PhasesAreDue == Spec => NeverEarly
<1>1. ASSUME TypeInv, [Next]_vars, NEW r \in 1..tracks, obj'[r].phase # obj[r].phase
      PROVE  obj'[r].phase > obj[r].phase /\ Due(obj'[r].phase, obj[r].age)
  <2>1. /\ r = eval.ref /\ r # 0 /\ obj'[r].phase \in obj[r].phase..3
        /\ Due(obj'[r].phase, obj[r].age - since)
    BY <1>1, PhaseMoves DEF Elapsed
  <2>2. /\ obj[r].phase \in 0..3 /\ obj[r].age \in Nat /\ since \in Nat
        /\ since <= obj[r].age
    BY <1>1, <2>1, Numbers, HorizonIsFar DEF TypeInv, TypeOK, Object
  <2>3. obj'[r].phase > obj[r].phase
    BY <1>1, <2>1, <2>2
  <2> DEFINE p == obj'[r].phase
             a == obj[r].age
  <2>4. Due(p, a - since) /\ a - since \in Nat /\ a - since <= a /\ a \in Nat
    BY <2>1, <2>2
  <2> HIDE DEF p, a
  <2>5. Due(p, a)
    BY <2>4, Numbers DEF Due
  <2> QED
    BY <2>3, <2>5 DEF p, a
<1>2. TypeInv /\ [Next]_vars
      => [ \A r \in 1..tracks :
             obj'[r].phase # obj[r].phase =>
               obj'[r].phase > obj[r].phase /\ Due(obj'[r].phase, obj[r].age) ]_vars
  BY <1>1
<1> QED
  BY <1>2, TypeInit, TypeStep, PTL DEF Spec, NeverEarly

\* A ladder that is over gets no louder, unless an evaluation had the alert on
\* its list when it was stopped.
THEOREM StopsAreHeeded == Spec => StopHeeded
<1>1. ASSUME TypeInv, [Next]_vars, NEW r \in 1..tracks, obj[r].done,
             obj'[r].phase # obj[r].phase
      PROVE  r \in eval.raced
  <2>1. r = eval.ref
    BY <1>1, PhaseMoves
  <2> QED
    BY <1>1, <2>1 DEF TypeInv, EvalInv, InHand
<1>2. TypeInv /\ [Next]_vars
      => [ \A r \in 1..tracks :
             obj[r].done /\ obj'[r].phase # obj[r].phase => r \in eval.raced ]_vars
  BY <1>1
<1> QED
  BY <1>2, TypeInit, TypeStep, PTL DEF Spec, StopHeeded

-----------------------------------------------------------------------------
(* Those who ignore an alert *)

\* What the ladder is to report of device d when it judges object r.
Wanted(r, d) ==
  /\ r = items[obj[r].id]
  /\ d \in online
  /\ <<obj[r].id, d>> \notin acks
  /\ r = eval.ref => d \in eval.silent

\* The ladder is not at the top yet, though nothing has gone wrong with it: the
\* object is in hand or waits for the next evaluation, and it is not yet older
\* than that.
OnTheWay(r) ==
  /\ ~obj[r].done
  /\ InHand(r) => obj[r].age - since <= T3 + Grace
  /\ ~InHand(r) => obj[r].age <= since + T3

Ladder(r, d) ==
  /\ Wanted(r, d)
  /\ obj[r].phase = 3 => d \in obj[r].unreached
  /\ obj[r].phase # 3 /\ obj[r].ttl >= T3 + Grace => OnTheWay(r)

IgnoredInv == \A i \in ignored : Ladder(i[1], i[2])

LadderInv == TypeInv /\ IgnoredInv

LEMMA IgnoredTypes ==
  ASSUME TypeInv, NEW i \in ignored
  PROVE  /\ i[1] \in 1..tracks /\ i[2] \in Devices /\ i = <<i[1], i[2]>>
         /\ tracks \in Nat
         /\ obj[i[1]] \in Object /\ obj[i[1]].id \in Alerts
         /\ obj[i[1]].age \in Nat /\ obj[i[1]].ttl \in Nat /\ obj[i[1]].phase \in 0..3
         /\ since \in Nat
<1>1. tracks \in Nat /\ obj \in [1..tracks -> Object] /\ i \in (1..tracks) \X Devices
  BY Numbers DEF TypeInv, TypeOK
<1>2. i[1] \in 1..tracks /\ i[2] \in Devices /\ i = <<i[1], i[2]>>
  BY <1>1
<1>3. obj[i[1]] \in Object
  BY <1>1, <1>2
<1>4. /\ obj[i[1]].id \in Alerts /\ obj[i[1]].age \in 0..Horizon
      /\ obj[i[1]].ttl \in TTLs /\ obj[i[1]].phase \in 0..3
  BY <1>3 DEF Object
<1>5. since \in Nat
  BY Numbers DEF TypeInv, TypeOK
<1>6. obj[i[1]].age \in Nat /\ obj[i[1]].ttl \in Nat
  <2>1. \A a \in 0..Horizon : a \in Nat
    BY HorizonIsFar
  <2>2. \A t \in TTLs : t \in Nat
    BY Numbers
  <2> QED
    BY <1>4, <2>1, <2>2
<1> QED
  BY <1>1, <1>2, <1>3, <1>4, <1>5, <1>6

\* A new object is on its way from the start; those that stay are of other alerts.
LEMMA IgnoredTrack ==
  ASSUME LadderInv, NEW id \in Alerts, TrackForAck(id)
  PROVE  IgnoredInv'
<1>1. /\ TypeInv /\ tracks \in Nat /\ eval \in Evaluation /\ obj \in [1..tracks -> Object]
      /\ items \in [Alerts -> 0..tracks] /\ since \in Nat
  BY Numbers DEF LadderInv, TypeInv, TypeOK, Evaluation
<1>2. /\ items' = [items EXCEPT ![id] = tracks + 1]
      /\ UNCHANGED <<eval, since, acks, online, faults>>
  BY DEF TrackForAck
<1>3. PICK ttl \in TTLs :
         obj' = [r \in 1..tracks + 1 |->
                   IF r <= tracks THEN obj[r]
                   ELSE [id |-> id, ttl |-> ttl, age |-> 0, phase |-> 0,
                         done |-> FALSE, unreached |-> {}]]
  BY DEF TrackForAck
<1>4. ASSUME NEW i \in ignored, i[1] # items[id] PROVE Ladder(i[1], i[2])'
  <2>1. i[1] \in 1..tracks /\ obj'[i[1]] = obj[i[1]] /\ obj[i[1]].id \in Alerts
    BY <1>1, <1>3, <1>4, IgnoredTypes
  <2>2. Ladder(i[1], i[2])
    BY <1>4 DEF LadderInv, IgnoredInv
  <2>3. obj[i[1]].id # id
    BY <1>4, <2>2 DEF Ladder, Wanted
  <2>4. items'[obj[i[1]].id] = items[obj[i[1]].id]
    BY <1>1, <1>2, <2>1, <2>3
  <2> QED
    BY <1>2, <2>1, <2>2, <2>4 DEF Ladder, Wanted, OnTheWay, InHand
<1> PICK n : n = tracks + 1
  OBVIOUS
<1>5. ASSUME NEW d \in online \ ListAcks(id) PROVE Ladder(n, d)'
  <2>1. /\ obj'[n].id = id /\ obj'[n].phase = 0 /\ obj'[n].age = 0 /\ ~obj'[n].done
        /\ n # eval.ref /\ n \notin eval.todo
    BY <1>1, <1>3 DEF Evaluation
  <2>2. items'[id] = n
    BY <1>1, <1>2
  <2>3. <<id, d>> \notin acks /\ d \in online
    BY <1>5 DEF ListAcks, LadderInv, TypeInv, TypeOK
  <2>4. 0 <= since + T3
    BY <1>1, Numbers
  <2>5. Wanted(n, d)'
    BY <1>2, <2>1, <2>2, <2>3 DEF Wanted
  <2>6. OnTheWay(n)'
    <3>1. ~InHand(n)' /\ obj'[n].age <= since' + T3
      BY <1>2, <2>1, <2>4 DEF InHand
    <3> QED
      BY <2>1, <3>1 DEF OnTheWay
  <2> QED
    BY <2>1, <2>5, <2>6 DEF Ladder
<1>6. ignored' = {i \in ignored : i[1] # items[id]}
                   \cup {<<tracks + 1, d>> : d \in online \ ListAcks(id)}
  BY DEF TrackForAck
<1>7. ASSUME NEW i \in ignored' PROVE Ladder(i[1], i[2])'
  <2>1. CASE i \in ignored /\ i[1] # items[id]
    BY <1>4, <2>1
  <2>2. CASE \E d \in online \ ListAcks(id) : i = <<tracks + 1, d>>
    <3>1. PICK d \in online \ ListAcks(id) : i = <<tracks + 1, d>>
      BY <2>2
    <3>2. i[1] = n /\ i[2] = d
      BY <3>1
    <3> QED
      BY <1>5, <3>2
  <2> QED
    BY <1>6, <1>7, <2>1, <2>2
<1> QED
  BY <1>7 DEF IgnoredInv

\* Acks, presence and stops take out whom they are about.
LEMMA IgnoredOutside ==
  ASSUME LadderInv,
         \/ \E id \in Alerts : StopEscalation(id)
         \/ \E d \in Devices : OnPresence(d) \/ \E id \in Alerts : OnAck(d, id)
  PROVE  IgnoredInv'
<1>1. /\ TypeInv /\ tracks \in Nat /\ eval \in Evaluation /\ obj \in [1..tracks -> Object]
  BY Numbers DEF LadderInv, TypeInv, TypeOK, Evaluation
<1>2. ASSUME NEW i \in ignored
      PROVE  Ladder(i[1], i[2]) /\ i[1] \in 1..tracks /\ i = <<i[1], i[2]>>
             /\ obj[i[1]].id \in Alerts
  BY <1>1, <1>2, IgnoredTypes DEF LadderInv, IgnoredInv
<1>3. ASSUME NEW id \in Alerts, StopEscalation(id), NEW i \in ignored'
      PROVE  Ladder(i[1], i[2])'
  <2>1. i \in ignored /\ i[1] # items[id] /\ UNCHANGED <<items, since, acks, online>>
    BY <1>3 DEF StopEscalation
  <2>2. obj'[i[1]] = obj[i[1]]
    BY <1>1, <1>2, <1>3, <2>1 DEF StopEscalation
  <2>3. eval'.todo = eval.todo /\ eval'.ref = eval.ref /\ eval'.silent = eval.silent
    BY <1>1, <1>3 DEF StopEscalation, Evaluation
  <2> QED
    BY <1>2, <2>1, <2>2, <2>3 DEF Ladder, Wanted, OnTheWay, InHand
<1>4. ASSUME NEW d \in Devices, OnPresence(d), NEW i \in ignored'
      PROVE  Ladder(i[1], i[2])'
  <2>1. i \in ignored /\ i[2] # d /\ UNCHANGED <<items, obj, eval, since, acks>>
    BY <1>4 DEF OnPresence
  <2>2. i[2] \in online => i[2] \in online'
    BY <1>4, <2>1 DEF OnPresence
  <2> QED
    BY <1>2, <2>1, <2>2 DEF Ladder, Wanted, OnTheWay, InHand
<1>5. ASSUME NEW d \in Devices, NEW id \in Alerts, OnAck(d, id), NEW i \in ignored'
      PROVE  Ladder(i[1], i[2])'
  <2>1. i \in ignored /\ i # <<items[id], d>> /\ acks' = acks \cup {<<id, d>>}
        /\ UNCHANGED <<items, obj, eval, since, online>>
    BY <1>5 DEF OnAck, RecordAck
  <2>2. <<obj[i[1]].id, i[2]>> \notin acks'
    BY <1>2, <2>1 DEF Ladder, Wanted
  <2> QED
    BY <1>2, <2>1, <2>2 DEF Ladder, Wanted, OnTheWay, InHand
<1> QED
  BY <1>3, <1>4, <1>5 DEF IgnoredInv

\* The next evaluation takes on what is on the way.
LEMMA IgnoredSnapshot ==
  ASSUME LadderInv, Snapshot
  PROVE  IgnoredInv'
<1>1. TypeInv /\ eval' = [Idle EXCEPT !.todo =
        {items[id] : id \in {i \in Alerts : Tracked(i) /\ ~obj[items[i]].done}}]
      /\ since' = 0 /\ UNCHANGED <<items, obj, tracks, acks, online, ignored, faults>>
      /\ ~Running
  BY DEF Snapshot, LadderInv
<1>2. eval'.ref = 0
      /\ eval'.todo = {items[id] : id \in {i \in Alerts : Tracked(i) /\ ~obj[items[i]].done}}
  BY <1>1 DEF Idle
<1>3. ASSUME NEW i \in ignored PROVE Ladder(i[1], i[2])'
  <2>1. /\ Ladder(i[1], i[2]) /\ i[1] \in 1..tracks /\ i[1] # 0 /\ obj[i[1]].id \in Alerts
        /\ obj[i[1]].age \in Nat /\ since \in 0..Grace
    BY <1>1, IgnoredTypes DEF LadderInv, IgnoredInv, TypeInv, TypeOK
  <2>2. Wanted(i[1], i[2])'
    BY <1>1, <1>2, <2>1 DEF Ladder, Wanted
  <2>3. ASSUME OnTheWay(i[1]) PROVE OnTheWay(i[1])'
    <3>1. ~obj[i[1]].done /\ i[1] = items[obj[i[1]].id]
      BY <2>1, <2>3 DEF OnTheWay, Ladder, Wanted
    <3>2. i[1] \in eval'.todo
      BY <1>2, <2>1, <3>1 DEF Tracked
    <3>3. ~InHand(i[1])
      BY <1>1, <2>1 DEF InHand, Running
    <3>4. obj[i[1]].age - 0 <= T3 + Grace
      BY <2>1, <2>3, <3>3, Numbers DEF OnTheWay
    <3>5. InHand(i[1])' /\ obj'[i[1]] = obj[i[1]]
      BY <1>1, <3>2 DEF InHand
    <3> QED
      BY <1>1, <3>1, <3>4, <3>5 DEF OnTheWay
  <2>4. obj' = obj
    BY <1>1
  <2> QED
    BY <2>1, <2>2, <2>3, <2>4 DEF Ladder
<1> QED
  BY <1>1, <1>3 DEF IgnoredInv

\* An alert that lives long enough does not expire on the way.
LEMMA IgnoredRetire ==
  ASSUME LadderInv, Retire
  PROVE  IgnoredInv'
<1>1. PICK r \in eval.todo :
         /\ Expired(r)
         /\ obj' = [obj EXCEPT ![r].done = TRUE]
         /\ eval' = [eval EXCEPT !.todo = @ \ {r}]
  BY DEF Retire
<1>2. /\ TypeInv /\ tracks \in Nat /\ eval \in Evaluation /\ obj \in [1..tracks -> Object]
      /\ eval.ref = 0 /\ UNCHANGED <<items, tracks, since, acks, online, ignored, faults>>
  <2>1. eval.ref = 0 /\ UNCHANGED <<items, tracks, since, acks, online, ignored, faults>>
    BY DEF Retire
  <2>2. TypeInv
    BY DEF LadderInv
  <2> QED
    BY <2>1, <2>2, Numbers DEF TypeInv, TypeOK, Evaluation
<1>3. /\ eval'.todo = eval.todo \ {r} /\ eval'.ref = 0 /\ eval'.silent = eval.silent
      /\ r \in 1..tracks
  BY <1>1, <1>2 DEF Evaluation
<1>4. ASSUME NEW i \in ignored PROVE Ladder(i[1], i[2])'
  <2>1. /\ Ladder(i[1], i[2]) /\ i[1] \in 1..tracks /\ i[1] # 0
        /\ obj[i[1]].age \in Nat /\ since \in Nat /\ obj[i[1]].ttl \in Nat
    BY <1>2, IgnoredTypes DEF LadderInv, IgnoredInv
  <2>2. CASE i[1] = r
    <3>1. /\ obj'[i[1]].id = obj[i[1]].id /\ obj'[i[1]].phase = obj[i[1]].phase
          /\ obj'[i[1]].ttl = obj[i[1]].ttl /\ obj'[i[1]].unreached = obj[i[1]].unreached
      BY <1>1, <1>2, <1>3, <2>2 DEF Object
    <3>2. ~OnTheWay(i[1]) \/ ~(obj[i[1]].ttl >= T3 + Grace)
      <4>1. InHand(i[1]) /\ obj[i[1]].age - since > obj[i[1]].ttl
        BY <1>1, <2>2 DEF InHand, Expired, Elapsed
      <4> QED
        BY <2>1, <4>1, Numbers DEF OnTheWay
    <3> QED
      BY <1>2, <1>3, <2>1, <3>1, <3>2 DEF Ladder, Wanted
  <2>3. CASE i[1] # r
    <3>1. obj'[i[1]] = obj[i[1]] /\ InHand(i[1])' = InHand(i[1])
      BY <1>1, <1>2, <1>3, <2>1, <2>3 DEF InHand
    <3>2. Wanted(i[1], i[2])'
      BY <1>2, <1>3, <2>1, <3>1 DEF Ladder, Wanted
    <3> QED
      BY <1>2, <2>1, <3>1, <3>2 DEF Ladder, OnTheWay
  <2> QED
    BY <2>2, <2>3
<1> QED
  BY <1>2, <1>4 DEF IgnoredInv

\* Whoever ignores an alert is found silent, whether the roster can be read or not.
LEMMA IgnoredRoster ==
  ASSUME LadderInv, Roster
  PROVE  IgnoredInv'
<1>1. /\ TypeInv /\ tracks \in Nat /\ eval \in Evaluation
      /\ eval.ref = 0 /\ UNCHANGED <<items, obj, tracks, since, acks, online, ignored>>
  <2>1. eval.ref = 0 /\ UNCHANGED <<items, obj, tracks, since, acks, online, ignored>>
    BY DEF Roster
  <2> QED
    BY <2>1, Numbers DEF LadderInv, TypeInv, TypeOK, Evaluation
<1>2. PICK r \in eval.todo, silent \in SUBSET online :
         /\ eval' = [eval EXCEPT !.todo = @ \ {r}, !.ref = r, !.silent = silent]
         /\ online \ ListAcks(obj[r].id) \subseteq silent
  <2>1. PICK r \in eval.todo :
           \/ eval' = [eval EXCEPT !.todo = @ \ {r}, !.ref = r,
                         !.silent = online \ ListAcks(obj[r].id)]
           \/ eval' = [eval EXCEPT !.todo = @ \ {r}, !.ref = r, !.silent = online]
    BY DEF Roster
  <2>2. online \ ListAcks(obj[r].id) \in SUBSET online /\ online \in SUBSET online
    OBVIOUS
  <2> QED
    BY <2>1, <2>2
<1>3. eval'.todo = eval.todo \ {r} /\ eval'.ref = r /\ eval'.silent = silent
  BY <1>1, <1>2 DEF Evaluation
<1>4. ASSUME NEW i \in ignored PROVE Ladder(i[1], i[2])'
  <2>1. Ladder(i[1], i[2]) /\ i[1] \in 1..tracks /\ i[1] # 0
    BY <1>1, IgnoredTypes DEF LadderInv, IgnoredInv
  <2>2. i[1] = r => i[2] \in silent
    BY <1>2, <2>1 DEF Ladder, Wanted, ListAcks
  <2>3. Wanted(i[1], i[2])'
    BY <1>1, <1>3, <2>1, <2>2 DEF Ladder, Wanted
  <2>4. InHand(i[1])' = InHand(i[1])
    BY <1>1, <1>2, <1>3, <2>1 DEF InHand
  <2> QED
    BY <1>1, <2>1, <2>3, <2>4 DEF Ladder, OnTheWay
<1> QED
  BY <1>1, <1>4 DEF IgnoredInv

\* A ladder that stays below the top is younger than its deadline.
LEMMA IgnoredJudge ==
  ASSUME LadderInv, Judge
  PROVE  IgnoredInv'
<1> PICK r : r = eval.ref
  OBVIOUS
<1>1. /\ TypeInv /\ tracks \in Nat /\ eval \in Evaluation /\ obj \in [1..tracks -> Object]
      /\ r # 0 /\ UNCHANGED <<items, tracks, since, acks, online, ignored, faults>>
  <2>1. r # 0 /\ UNCHANGED <<items, tracks, since, acks, online, ignored, faults>>
    BY DEF Judge
  <2>2. TypeInv
    BY DEF LadderInv
  <2> QED
    BY <2>1, <2>2, Numbers DEF TypeInv, TypeOK, Evaluation
<1>2. eval'.todo = eval.todo /\ eval'.ref = 0 /\ r \in 1..tracks
  <2>1. eval' = [eval EXCEPT !.ref = 0, !.silent = {}]
    BY DEF Judge
  <2> QED
    BY <1>1, <2>1 DEF Evaluation
<1>3. ASSUME NEW i \in ignored PROVE Ladder(i[1], i[2])'
  <2>1. /\ Ladder(i[1], i[2]) /\ i[1] \in 1..tracks /\ i[1] # 0
        /\ obj[i[1]].age \in Nat /\ since \in Nat /\ obj[i[1]].phase \in 0..3
    BY <1>1, IgnoredTypes DEF LadderInv, IgnoredInv
  <2>2. CASE i[1] # r
    <3>1. obj'[i[1]] = obj[i[1]]
      BY <1>1, <2>1, <2>2 DEF Judge
    <3>2. InHand(i[1])' = InHand(i[1])
      BY <1>2, <2>1, <2>2 DEF InHand
    <3>3. Wanted(i[1], i[2])'
      BY <1>1, <1>2, <2>1, <3>1 DEF Ladder, Wanted
    <3> QED
      BY <1>1, <2>1, <3>1, <3>2, <3>3 DEF Ladder, OnTheWay
  <2>3. CASE i[1] = r
    <3> DEFINE p == NextPhase(r)
    <3>1. i[2] \in eval.silent
      BY <2>1, <2>3 DEF Ladder, Wanted
    <3>2. obj' = [obj EXCEPT ![r].phase = p,
                    ![r].unreached = IF p > obj[r].phase /\ p = 3 THEN eval.silent ELSE @]
      BY <3>1 DEF Judge
    <3>3. /\ p \in obj[r].phase..3
          /\ p = 3 \/ ~Due(3, Elapsed(r))
      BY <2>1, <2>3, PhaseExists
    <3> HIDE DEF p
    <3>4. /\ obj'[r].id = obj[r].id /\ obj'[r].done = obj[r].done /\ obj'[r].ttl = obj[r].ttl
          /\ obj'[r].age = obj[r].age /\ obj'[r].phase = p
          /\ obj'[r].unreached = IF p > obj[r].phase /\ p = 3
                                   THEN eval.silent ELSE obj[r].unreached
      BY <1>1, <1>2, <3>2 DEF Object
    <3>5. p = 3 => i[2] \in obj'[r].unreached
      <4>1. p = 3 => p > obj[r].phase \/ obj[r].phase = 3
        BY <2>1, <2>3, <3>3
      <4> QED
        BY <2>1, <2>3, <3>1, <3>4, <4>1 DEF Ladder
    <3>6. ASSUME p # 3, obj[r].ttl >= T3 + Grace PROVE OnTheWay(r)'
      <4>1. obj[r].phase # 3
        BY <2>1, <2>3, <3>3, <3>6
      <4>2. ~obj[r].done
        BY <2>1, <2>3, <3>6, <4>1 DEF Ladder, OnTheWay
      <4>3. ~InHand(r)'
        BY <1>1, <1>2 DEF InHand, TypeInv, EvalInv
      <4>4. ~(obj[r].age - since >= T3)
        BY <3>3, <3>6 DEF Due, Elapsed
      <4>5. obj[r].age <= since + T3
        BY <2>1, <2>3, <4>4, Numbers
      <4> QED
        BY <1>1, <3>4, <4>2, <4>3, <4>5 DEF OnTheWay
    <3>7. Wanted(i[1], i[2])'
      BY <1>1, <1>2, <2>1, <2>3, <3>4 DEF Ladder, Wanted
    <3> QED
      BY <2>3, <3>4, <3>5, <3>6, <3>7 DEF Ladder
  <2> QED
    BY <2>2, <2>3
<1> QED
  BY <1>1, <1>3 DEF IgnoredInv

\* The age of a ladder and the time since the last evaluation grow together.
LEMMA IgnoredTick ==
  ASSUME LadderInv, Tick
  PROVE  IgnoredInv'
<1>1. /\ TypeInv /\ tracks \in Nat /\ obj \in [1..tracks -> Object]
      /\ since' = since + 1
      /\ UNCHANGED <<items, tracks, eval, acks, online, ignored, faults>>
  BY Numbers DEF Tick, LadderInv, TypeInv, TypeOK
<1>2. ASSUME NEW i \in ignored PROVE Ladder(i[1], i[2])'
  <2> DEFINE r == i[1]
  <2>1. /\ Ladder(r, i[2]) /\ r \in 1..tracks /\ obj[r] \in Object
        /\ obj[r].age \in Nat /\ since \in Nat
    BY <1>1, IgnoredTypes DEF LadderInv, IgnoredInv
  <2> HIDE DEF r
  <2> DEFINE a == IF obj[r].age < Horizon THEN obj[r].age + 1 ELSE obj[r].age
  <2>2. obj'[r] = [obj[r] EXCEPT !.age = a]
    BY <2>1 DEF Tick, Object
  <2>3. a \in Nat /\ a <= obj[r].age + 1
    BY <2>1
  <2> HIDE DEF a
  <2>4. /\ obj'[r].id = obj[r].id /\ obj'[r].done = obj[r].done /\ obj'[r].ttl = obj[r].ttl
        /\ obj'[r].age = a /\ obj'[r].phase = obj[r].phase
        /\ obj'[r].unreached = obj[r].unreached
    BY <2>1, <2>2 DEF Object
  <2>5. Wanted(r, i[2])'
    BY <1>1, <2>1, <2>4 DEF Ladder, Wanted
  <2>6. OnTheWay(r) => OnTheWay(r)'
    <3>1. obj[r].age - since <= T3 + Grace => a - (since + 1) <= T3 + Grace
      BY <2>1, <2>3, Numbers
    <3>2. obj[r].age <= since + T3 => a <= (since + 1) + T3
      BY <2>1, <2>3, Numbers
    <3>3. InHand(r)' = InHand(r)
      BY <1>1 DEF InHand
    <3> QED
      BY <1>1, <2>4, <3>1, <3>2, <3>3 DEF OnTheWay
  <2>7. Ladder(r, i[2])'
    BY <2>1, <2>4, <2>5, <2>6 DEF Ladder
  <2> QED
    BY <2>7 DEF r
<1> QED
  BY <1>1, <1>2 DEF IgnoredInv

LEMMA LadderStep ==
  ASSUME LadderInv, [Next]_vars
  PROVE  LadderInv'
<1>1. TypeInv'
  BY TypeStep DEF LadderInv
<1>2. ASSUME Restart PROVE IgnoredInv'
  BY <1>2 DEF Restart, IgnoredInv
<1>3. ASSUME UNCHANGED vars PROVE IgnoredInv'
  BY <1>3 DEF vars, LadderInv, IgnoredInv, Ladder, Wanted, OnTheWay, InHand
<1>4. IgnoredInv'
  BY <1>2, <1>3, IgnoredTrack, IgnoredOutside, IgnoredSnapshot, IgnoredRetire,
     IgnoredRoster, IgnoredJudge, IgnoredTick
  DEF Next, EvalEscalations
<1> QED
  BY <1>1, <1>4 DEF LadderInv

\* A device that ignores an alert is reported unreached, with the ladder at the
\* top, by the time the alert is older than T3, one period and one evaluation.
THEOREM IgnoredAreReported == Spec => []IgnoredIsReported
<1>1. Init => LadderInv
  BY TypeInit DEF Init, LadderInv, IgnoredInv
<1>2. LadderInv => IgnoredIsReported
  <2> SUFFICES ASSUME LadderInv, NEW i \in ignored, obj[i[1]].ttl >= T3 + Grace,
                      obj[i[1]].age > T3 + Grace + MaxLag
               PROVE  obj[i[1]].phase = 3 /\ i[2] \in obj[i[1]].unreached
    BY DEF IgnoredIsReported
  <2>1. /\ Ladder(i[1], i[2]) /\ i[1] # 0 /\ obj[i[1]].age \in Nat
        /\ since \in 0..Grace /\ (Running => since <= MaxLag)
    BY IgnoredTypes DEF LadderInv, IgnoredInv, TypeInv, TypeOK
  <2>2. ~OnTheWay(i[1])
    <3> SUFFICES ASSUME OnTheWay(i[1]) PROVE FALSE
      OBVIOUS
    <3>1. CASE InHand(i[1])
      <4>1. since <= MaxLag
        BY <2>1, <3>1 DEF InHand, Running
      <4>2. obj[i[1]].age - since <= T3 + Grace
        BY <3>1 DEF OnTheWay
      <4> QED
        BY <2>1, <4>1, <4>2, Numbers
    <3>2. CASE ~InHand(i[1])
      <4>1. obj[i[1]].age <= since + T3
        BY <3>2 DEF OnTheWay
      <4> QED
        BY <2>1, <4>1, Numbers
    <3> QED
      BY <3>1, <3>2
  <2> QED
    BY <2>1, <2>2 DEF Ladder
<1> QED
  BY <1>1, <1>2, LadderStep, PTL DEF Spec
=============================================================================
