--------------------------- MODULE AuditLogProofs ---------------------------
(***************************************************************************)
(* Proofs about AuditLog, for any finite set of writers and any bounds,    *)
(* batch size and retention: the chain does not fork, it verifies whenever *)
(* no prune was torn, a clean verification raises no alarm, and the export *)
(* cursor passes nothing by.                                               *)
(***************************************************************************)
EXTENDS AuditLog, FiniteSetTheorems, WellFoundedInduction, TLAPS

-----------------------------------------------------------------------------
(* The greatest element of a bounded set of numbers exists *)

Under == {p \in Nat \X Nat : p[1] < p[2]}

LEMMA UnderIsWellFounded == IsWellFoundedOn(Under, Nat)
<1>1. OpToRel(<, Nat) = Under
  BY DEF OpToRel, Under
<1> QED
  BY <1>1, NatLessThanWellFounded

LEMMA Least ==
  ASSUME NEW T \in SUBSET Nat, T # {}
  PROVE  \E x \in T : \A y \in T : x <= y
<1>1. PICK x \in T : \A y \in T : <<y, x>> \notin Under
  BY UnderIsWellFounded, WFMin
<1>2. ASSUME NEW y \in T PROVE x <= y
  <2>1. <<y, x>> \notin Under /\ <<y, x>> \in Nat \X Nat
    BY <1>1
  <2>2. ~(y < x)
    BY <2>1 DEF Under
  <2> QED
    BY <2>2
<1> QED
  BY <1>2

LEMMA Greatest ==
  ASSUME NEW n \in Nat, NEW S \in SUBSET (0..n), S # {}
  PROVE  \E x \in S : \A y \in S : y <= x
<1> DEFINE T == {m \in Nat : \A y \in S : y <= m}
<1>1. n \in T
  OBVIOUS
<1>2. PICK m \in T : \A k \in T : m <= k
  BY <1>1, Least
<1>3. CASE m \in S
  BY <1>3
<1>4. CASE m \notin S
  <2>1. PICK y \in S : y <= m
    OBVIOUS
  <2>2. m - 1 \in T
    BY <1>4, <2>1
  <2>3. m <= m - 1
    BY <1>2, <2>2
  <2> QED
    BY <2>3
<1> QED
  BY <1>3, <1>4

\* Last is the greatest id, and 0 if there is none.
LEMMA LastIsGreatest ==
  ASSUME NEW rows \in SUBSET Entry
  PROVE  /\ Last(rows) \in Ids(rows) \cup {0}
         /\ Last(rows) \in Hash
         /\ \A e \in rows : e.id <= Last(rows)
         /\ rows # {} => Last(rows) \in Ids(rows)
<1>1. MaxEntries \in Nat
  BY AuditAssumption
<1>2. Ids(rows) \subseteq 1..MaxEntries
  BY <1>1 DEF Ids, Entry
<1>3. \E x \in Ids(rows) \cup {0} : \A y \in Ids(rows) \cup {0} : y <= x
  <2> DEFINE S == Ids(rows) \cup {0}
  <2>1. S \in SUBSET (0..MaxEntries) /\ S # {}
    BY <1>1, <1>2
  <2> HIDE DEF S
  <2>2. \E x \in S : \A y \in S : y <= x
    BY <1>1, <2>1, Greatest
  <2> QED
    BY <2>2 DEF S
<1>4. /\ Last(rows) \in Ids(rows) \cup {0}
      /\ \A k \in Ids(rows) : k <= Last(rows)
  BY <1>3 DEF Last
<1>5. \A e \in rows : e.id \in Ids(rows)
  BY DEF Ids
<1>6. Last(rows) \in Hash
  BY <1>1, <1>2, <1>4 DEF Hash
<1>7. ASSUME rows # {} PROVE Last(rows) \in Ids(rows)
  <2>1. PICK e \in rows : TRUE
    BY <1>7
  <2>2. e.id \in 1..MaxEntries /\ e.id <= Last(rows)
    BY <1>1, <1>2, <1>4, <1>5
  <2>3. Last(rows) # 0
    BY <1>1, <2>2
  <2> QED
    BY <1>4, <2>3
<1> QED
  BY <1>4, <1>5, <1>6, <1>7

\* The last of some rows depends on nothing but which ids are there.
LEMMA LastIsUnique ==
  ASSUME NEW rows \in SUBSET Entry, NEW i \in Ids(rows), \A e \in rows : e.id <= i
  PROVE  Last(rows) = i
<1>1. MaxEntries \in Nat
  BY AuditAssumption
<1>2. PICK e \in rows : e.id = i
  BY DEF Ids
<1>3. i \in 1..MaxEntries /\ i <= Last(rows)
  BY <1>1, <1>2, LastIsGreatest DEF Entry
<1>4. Last(rows) \in Ids(rows)
  BY <1>2, LastIsGreatest
<1>5. PICK f \in rows : f.id = Last(rows)
  BY <1>4 DEF Ids
<1>6. Last(rows) <= i /\ Last(rows) \in 1..MaxEntries
  BY <1>1, <1>5 DEF Entry
<1> QED
  BY <1>1, <1>3, <1>6

-----------------------------------------------------------------------------
(* Types *)

Busy(wr) == {w \in Writers : wr[w] # Rest}

Call  == [step : {"idle", "lock", "insert"}, at : 0..MaxTime, prev : Hash]
Calls == [Writers -> Call]

LEMMA Starts ==
  ASSUME IsFiniteSet(Writers), NEW wr \in Calls, NEW w \in Writers, NEW c \in Call,
         wr[w] = Rest, c # Rest
  PROVE  Cardinality(Busy([wr EXCEPT ![w] = c])) = Cardinality(Busy(wr)) + 1
<1>1. IsFiniteSet(Busy(wr))
  BY FS_Subset DEF Busy
<1>2. Busy([wr EXCEPT ![w] = c]) = Busy(wr) \cup {w} /\ w \notin Busy(wr)
  BY DEF Busy, Calls
<1> QED
  BY <1>1, <1>2, FS_AddElement

LEMMA Stays ==
  ASSUME NEW wr \in Calls, NEW w \in Writers, NEW c \in Call, wr[w] # Rest, c # Rest
  PROVE  Busy([wr EXCEPT ![w] = c]) = Busy(wr)
BY DEF Busy, Calls

LEMMA Ends ==
  ASSUME IsFiniteSet(Writers), NEW wr \in Calls, NEW w \in Writers, wr[w] # Rest
  PROVE  /\ Cardinality(Busy([wr EXCEPT ![w] = Rest])) = Cardinality(Busy(wr)) - 1
         /\ Cardinality(Busy(wr)) \in Nat \ {0}
<1>1. IsFiniteSet(Busy(wr)) /\ w \in Busy(wr)
  BY FS_Subset DEF Busy
<1>2. Busy([wr EXCEPT ![w] = Rest]) = Busy(wr) \ {w}
  BY DEF Busy, Calls
<1>3. Cardinality(Busy(wr)) \in Nat /\ Cardinality(Busy(wr)) # 0
  BY <1>1, FS_CardinalityType, FS_EmptySet
<1> QED
  BY <1>1, <1>2, <1>3, FS_RemoveElement

\* TypeOK with what it needs to be inductive: every call under way has an id
\* set aside for it, and a batch is never empty.
TypeInv ==
  /\ TypeOK
  /\ check \in [step : {"idle", "walk"}, rows : SUBSET Entry, clean : BOOLEAN,
                alarm : BOOLEAN]
  /\ lastId + Cardinality(Busy(writer)) <= MaxEntries
  /\ export.step # "idle" => export.ids # {}

LEMMA Numbers ==
  /\ Retention \in Nat /\ MaxEntries \in Nat /\ MaxTime \in Nat /\ MaxFaults \in Nat
  /\ Batch \in Nat \ {0}
BY AuditAssumption

LEMMA TypeInit ==
  ASSUME Init
  PROVE  TypeInv
<1>1. Busy(writer) = {}
  BY DEF Init, Busy
<1>2. Cardinality(Busy(writer)) = 0
  BY <1>1, FS_EmptySet
<1>3. /\ writer \in [Writers -> [step : {"idle", "lock", "insert"}, at : 0..MaxTime,
                                  prev : Hash]]
      /\ prune \in [step : {"idle", "delete", "anchor"}, before : 0..MaxTime,
                    anchor : Hash]
      /\ export \in [step : {"idle", "ship", "advance"}, ids : SUBSET (1..MaxEntries)]
      /\ export.step = "idle"
      /\ cursor \in Hash /\ anchor \in Hash
  BY Numbers DEF Init, Rest, NoPrune, NoBatch, Hash
<1>4. check \in [step : {"idle", "walk"}, rows : SUBSET Entry, clean : BOOLEAN,
                 alarm : BOOLEAN]
  BY DEF Init, Fresh
<1>5. TypeOK
  <2>1. log = {} /\ \A e \in log : e.id <= lastId
    BY DEF Init
  <2>2. now \in 0..MaxTime /\ lastId \in 0..MaxEntries /\ faults \in 0..MaxFaults
    BY Numbers DEF Init
  <2>3. mu \in {"free", "pruner"} \cup Writers /\ shipped = {} /\ lost = {} /\ bent \in BOOLEAN
    BY DEF Init
  <2> QED
    BY <1>3, <1>4, <2>1, <2>2, <2>3 DEF TypeOK
<1>6. lastId + Cardinality(Busy(writer)) <= MaxEntries
  BY <1>2, Numbers DEF Init
<1> QED
  BY <1>3, <1>4, <1>5, <1>6 DEF TypeInv

\* What a new entry, a fault and a room for one more are.
LEMMA EntryTyped ==
  ASSUME NEW at \in 0..MaxTime, NEW prev \in Hash, lastId \in Nat, lastId + 1 <= MaxEntries
  PROVE  NewEntry(at, prev) \in Entry /\ NewEntry(at, prev).id = lastId + 1
BY Numbers DEF NewEntry, Entry, Hash

LEMMA TypeFault ==
  ASSUME TypeInv, Fault
  PROVE  faults' \in 0..MaxFaults
BY Numbers DEF TypeInv, TypeOK, Fault

LEMMA TypeWriters ==
  ASSUME IsFiniteSet(Writers), TypeInv, NEW w \in Writers, Stamp(w) \/ ReadHead(w) \/ Insert(w)
  PROVE  TypeInv'
<1> USE Numbers
<1>1. /\ writer \in Calls /\ log \in SUBSET Entry /\ lastId \in Nat
      /\ IsFiniteSet(Busy(writer)) /\ Cardinality(Busy(writer)) \in Nat
  BY FS_Subset, FS_CardinalityType DEF TypeInv, TypeOK, Calls, Call, Busy
<1>2. CASE Stamp(w)
  <2> DEFINE c == [step |-> "lock", at |-> now, prev |-> 0]
  <2>1. c \in Call /\ c # Rest /\ writer[w] = Rest /\ writer' = [writer EXCEPT ![w] = c]
    BY <1>2 DEF Stamp, Call, Rest, Hash, TypeInv, TypeOK
  <2>2. Cardinality(Busy(writer')) = Cardinality(Busy(writer)) + 1 /\ writer' \in Calls
    BY <1>1, <2>1, Starts DEF Calls
  <2>3. lastId + Cardinality(Busy(writer)) < MaxEntries
    BY <1>2 DEF Stamp, Room, Busy
  <2> QED
    BY <1>1, <1>2, <2>2, <2>3 DEF Stamp, TypeInv, TypeOK, Calls, Call, chainVars, exportVars
<1>3. CASE ReadHead(w)
  <2> DEFINE c == [writer[w] EXCEPT !.step = "insert", !.prev = Last(log)]
  <2>1. writer' = [writer EXCEPT ![w] = c]
    BY <1>1, <1>3 DEF ReadHead, Calls, Call
  <2>2. Last(log) \in Hash /\ writer[w] \in Call /\ writer[w].step = "lock"
    BY <1>1, <1>3, LastIsGreatest DEF ReadHead, Calls
  <2>3. c \in Call /\ c.step = "insert"
    BY <2>2 DEF Call
  <2>4. c # Rest /\ writer[w] # Rest
    <3>1. Rest.step = "idle"
      BY DEF Rest
    <3> HIDE DEF c
    <3> QED
      BY <2>2, <2>3, <3>1
  <2>5. Busy(writer') = Busy(writer) /\ writer' \in Calls
    BY <1>1, <2>1, <2>3, <2>4, Stays DEF Calls
  <2> QED
    BY <1>1, <1>3, <2>5 DEF ReadHead, TypeInv, TypeOK, Calls, Call, exportVars
<1>4. CASE Insert(w)
  <2>1. writer[w] # Rest /\ writer' = [writer EXCEPT ![w] = Rest] /\ Rest \in Call
    BY <1>4 DEF Insert, Rest, Call, Hash
  <2>2. /\ Cardinality(Busy(writer')) = Cardinality(Busy(writer)) - 1
        /\ Cardinality(Busy(writer)) \in Nat \ {0}
        /\ writer' \in Calls
    BY <1>1, <2>1, Ends DEF Calls
  <2>3. lastId + 1 <= MaxEntries
    BY <1>1, <2>2 DEF TypeInv
  <2>4. writer[w].at \in 0..MaxTime /\ writer[w].prev \in Hash
    BY <1>1 DEF Calls, Call
  <2>5. /\ NewEntry(writer[w].at, writer[w].prev) \in Entry
        /\ NewEntry(writer[w].at, writer[w].prev).id = lastId + 1
    BY <1>1, <2>3, <2>4, EntryTyped
  <2>6. /\ log' \subseteq Entry /\ lastId' \in 0..MaxEntries
        /\ \A e \in log' : e.id <= lastId'
        /\ lastId' <= lastId + 1
    BY <1>1, <1>4, <2>3, <2>5 DEF Insert, TypeInv, TypeOK, Entry
  <2>7. lastId' + Cardinality(Busy(writer')) <= MaxEntries
    BY <1>1, <2>2, <2>6 DEF TypeInv
  <2>8. faults' \in 0..MaxFaults
    BY <1>4, TypeFault DEF Insert, TypeInv, TypeOK
  <2> QED
    BY <1>4, <2>2, <2>6, <2>7, <2>8 DEF Insert, TypeInv, TypeOK, Calls, Call, exportVars
<1> QED
  BY <1>2, <1>3, <1>4

LEMMA TypePrune ==
  ASSUME IsFiniteSet(Writers), TypeInv, PruneRecord \/ FinishPrune
  PROVE  TypeInv'
<1> USE Numbers
<1>1. log \in SUBSET Entry /\ lastId \in Nat /\ Cardinality(Busy(writer)) \in Nat
  BY FS_Subset, FS_CardinalityType DEF TypeInv, TypeOK, Busy
<1>2. CASE PruneRecord
  <2>1. lastId + Cardinality(Busy(writer)) < MaxEntries
    BY <1>2 DEF PruneRecord, Room, Busy
  <2>2. Last(log) \in Hash /\ now \in 0..MaxTime
    BY <1>1, LastIsGreatest DEF TypeInv, TypeOK
  <2>3. NewEntry(now, Last(log)) \in Entry /\ NewEntry(now, Last(log)).id = lastId + 1
    BY <1>1, <2>1, <2>2, EntryTyped
  <2>4. /\ log' \subseteq Entry /\ lastId' \in 0..MaxEntries
        /\ \A e \in log' : e.id <= lastId'
        /\ lastId' + Cardinality(Busy(writer')) <= MaxEntries
    BY <1>1, <1>2, <2>1, <2>3 DEF PruneRecord, TypeInv, TypeOK, Entry
  <2>5. prune' \in [step : {"idle", "delete", "anchor"}, before : 0..MaxTime,
                    anchor : Hash]
    <3>1. PICK before \in 0..now :
             prune' = [step |-> "delete", before |-> before,
                       anchor |-> Last(OlderThan(before))]
      BY <1>2 DEF PruneRecord
    <3>2. Last(OlderThan(before)) \in Hash
      BY <1>1, LastIsGreatest DEF OlderThan
    <3> QED
      BY <2>2, <3>1, <3>2
  <2> QED
    BY <1>2, <2>4, <2>5 DEF PruneRecord, TypeInv, TypeOK, exportVars
<1>3. CASE PruneDelete
  <2>1. Ids(OlderThan(prune.before)) \subseteq 1..MaxEntries
    BY <1>1 DEF Ids, OlderThan, Entry
  <2> QED
    BY <1>1, <1>3, <2>1 DEF PruneDelete, TypeInv, TypeOK, exportVars, Gapped
<1>4. CASE PruneAnchor \/ PruneError
  <2>1. NoPrune \in [step : {"idle", "delete", "anchor"}, before : 0..MaxTime,
                    anchor : Hash]
    BY DEF NoPrune, Hash
  <2>2. prune' = NoPrune /\ mu' = "free" /\ anchor' \in Hash
    BY <1>4 DEF PruneAnchor, PruneError, TypeInv, TypeOK
  <2>3. bent' \in BOOLEAN /\ faults' \in 0..MaxFaults
    BY <1>4, TypeFault DEF PruneAnchor, PruneError, TypeInv, TypeOK
  <2>4. UNCHANGED <<now, log, lastId, writer, exportVars, lost>>
    BY <1>4 DEF PruneAnchor, PruneError
  <2>5. check' \in [step : {"idle", "walk"}, rows : SUBSET Entry, clean : BOOLEAN,
                    alarm : BOOLEAN] /\ check'.rows \subseteq Entry
    BY <1>4 DEF PruneAnchor, PruneError, TypeInv, TypeOK
  <2> QED
    BY <2>1, <2>2, <2>3, <2>4, <2>5 DEF TypeInv, TypeOK, exportVars
<1> QED
  BY <1>2, <1>3, <1>4 DEF FinishPrune

LEMMA TypeReaders ==
  ASSUME TypeInv, VerifyAuditChain \/ ExportOnce
  PROVE  TypeInv'
<1> USE Numbers
<1>1. CASE VerifyRows
  BY <1>1 DEF VerifyRows, TypeInv, TypeOK, chainVars, exportVars
<1>2. CASE VerifyWalk
  BY <1>2 DEF VerifyWalk, TypeInv, TypeOK, chainVars, exportVars
<1>3. CASE Fetch
  <2>1. PICK ids \in (SUBSET Ids(log)) \ {{}} : export' = [step |-> "ship", ids |-> ids]
    BY <1>3 DEF Fetch
  <2>2. Ids(log) \subseteq 1..MaxEntries
    BY DEF TypeInv, TypeOK, Ids, Entry
  <2> QED
    BY <1>3, <2>1, <2>2 DEF Fetch, TypeInv, TypeOK, chainVars
<1>4. CASE Ship
  <2>1. PICK part \in SUBSET export.ids, ok \in BOOLEAN :
           Sent(part, ok) /\ (UNCHANGED faults \/ Fault)
    BY <1>4 DEF Ship, Post, Write
  <2>2. /\ shipped' = shipped \cup part
        /\ export' = IF ok THEN [export EXCEPT !.step = "advance"] ELSE NoBatch
    BY <2>1 DEF Sent
  <2>3. export.step = "ship" /\ export.ids # {}
    BY <1>4 DEF Ship, TypeInv
  <2>4. /\ export' \in [step : {"idle", "ship", "advance"}, ids : SUBSET (1..MaxEntries)]
        /\ export'.step # "idle" => export'.ids # {}
    BY <2>2, <2>3 DEF NoBatch, TypeInv, TypeOK
  <2>5. faults' \in 0..MaxFaults
    BY <2>1, TypeFault DEF TypeInv, TypeOK
  <2> QED
    BY <1>4, <2>2, <2>4, <2>5 DEF Ship, TypeInv, TypeOK, chainVars
<1>5. CASE Advance
  <2>1. export.ids \in SUBSET (0..MaxEntries) /\ export.ids # {}
    BY <1>5 DEF Advance, TypeInv, TypeOK
  <2>2. \E i \in export.ids : \A k \in export.ids : k <= i
    BY <2>1, Greatest
  <2>3. (CHOOSE i \in export.ids : \A k \in export.ids : k <= i) \in export.ids
    BY <2>2
  <2>4. cursor' \in Hash /\ faults' \in 0..MaxFaults
    BY <1>5, <2>1, <2>3, TypeFault DEF Advance, TypeInv, TypeOK, Hash
  <2> QED
    BY <1>5, <2>4 DEF Advance, TypeInv, TypeOK, chainVars, NoBatch
<1> QED
  BY <1>1, <1>2, <1>3, <1>4, <1>5 DEF VerifyAuditChain, ExportOnce

LEMMA TypeCrash ==
  ASSUME TypeInv, Crash
  PROVE  TypeInv'
<1> USE Numbers
<1>1. Busy(writer') = {}
  BY DEF Crash, Busy
<1>2. Cardinality(Busy(writer')) = 0
  BY <1>1, FS_EmptySet
<1>3. writer' \in [Writers -> [step : {"idle", "lock", "insert"}, at : 0..MaxTime,
                               prev : Hash]]
  BY DEF Crash, Rest, Hash
<1>4. /\ prune' \in [step : {"idle", "delete", "anchor"}, before : 0..MaxTime,
                     anchor : Hash]
      /\ export' \in [step : {"idle", "ship", "advance"}, ids : SUBSET (1..MaxEntries)]
      /\ export'.step = "idle"
  BY DEF Crash, NoPrune, NoBatch, Hash
<1>5. check' \in [step : {"idle", "walk"}, rows : SUBSET Entry, clean : BOOLEAN,
                  alarm : BOOLEAN]
  BY DEF Crash, Fresh
<1>6. faults' \in 0..MaxFaults
  BY TypeFault DEF Crash
<1> QED
  BY <1>2, <1>3, <1>4, <1>5, <1>6 DEF Crash, TypeInv, TypeOK

LEMMA TypeStep ==
  ASSUME IsFiniteSet(Writers), TypeInv, [Next]_vars
  PROVE  TypeInv'
<1>1. CASE Tick
  BY <1>1, Numbers DEF Tick, TypeInv, TypeOK, chainVars, exportVars
<1>2. CASE UNCHANGED vars
  BY <1>2 DEF vars, TypeInv, TypeOK, chainVars, exportVars
<1> QED
  BY <1>1, <1>2, TypeWriters, TypePrune, TypeReaders, TypeCrash DEF Next, AppendAudit

\* Every state has the types the runs check, whatever crashes and fails.
THEOREM TypeCorrect ==
  ASSUME IsFiniteSet(Writers)
  PROVE  Spec => []TypeOK
<1>1. TypeInv => TypeOK
  BY DEF TypeInv
<1> QED
  BY <1>1, TypeInit, TypeStep, PTL DEF Spec

-----------------------------------------------------------------------------
(* The lock and the links *)

\* Who holds auditMu, and what the holder has read still being true.
LockInv ==
  /\ mu = "free" => prune = NoPrune
  /\ prune.step = "idle" => prune = NoPrune
  /\ prune.step # "idle" => mu = "pruner"
  /\ \A w \in Writers : writer[w].step = "insert" => mu = w /\ writer[w].prev = Last(log)

LEMMA Roles ==
  /\ \A w \in Writers : w # "free" /\ w # "pruner"
  /\ NoPrune.step = "idle" /\ Rest.step = "idle"
BY AuditAssumption DEF NoPrune, Rest

LEMMA LockStep ==
  ASSUME TypeInv, LockInv, [Next]_vars
  PROVE  LockInv'
<1> USE Roles
<1>1. ASSUME NEW w \in Writers, Stamp(w) PROVE LockInv'
  BY <1>1 DEF Stamp, LockInv, TypeInv, TypeOK, chainVars
<1>2. ASSUME NEW w \in Writers, ReadHead(w) PROVE LockInv'
  BY <1>2 DEF ReadHead, LockInv, TypeInv, TypeOK
<1>3. ASSUME NEW w \in Writers, Insert(w) PROVE LockInv'
  <2>1. /\ mu = w /\ mu' = "free" /\ prune = NoPrune /\ prune' = prune
        /\ writer' = [writer EXCEPT ![w] = Rest]
    BY <1>3 DEF Insert, LockInv
  <2> QED
    BY <2>1 DEF LockInv, TypeInv, TypeOK
<1>4. CASE PruneRecord
  <2>1. /\ mu' = "pruner" /\ prune'.step = "delete" /\ mu = "free"
        /\ writer' = writer
    BY <1>4 DEF PruneRecord
  <2> QED
    BY <2>1 DEF LockInv
<1>5. CASE PruneDelete
  <2>1. prune'.step = "anchor"
    BY <1>5 DEF PruneDelete, TypeInv, TypeOK
  <2> QED
    BY <1>5, <2>1 DEF PruneDelete, LockInv
<1>6. CASE PruneAnchor \/ PruneError
  <2>1. mu = "pruner" /\ mu' = "free" /\ prune' = NoPrune /\ writer' = writer /\ log' = log
    BY <1>6 DEF PruneAnchor, PruneError, LockInv
  <2> QED
    BY <2>1 DEF LockInv
<1>7. CASE Crash
  BY <1>7 DEF Crash, LockInv
<1>8. CASE Tick \/ VerifyAuditChain \/ ExportOnce \/ UNCHANGED vars
  <2>1. UNCHANGED <<mu, prune, writer, log>>
    BY <1>8 DEF Tick, VerifyAuditChain, VerifyRows, VerifyWalk, ExportOnce, Fetch, Ship,
                Advance, vars, chainVars
  <2> QED
    BY <2>1 DEF LockInv
<1> QED
  BY <1>1, <1>2, <1>3, <1>4, <1>5, <1>6, <1>7, <1>8 DEF Next, AppendAudit, FinishPrune

\* A link points backwards, an id names one entry, and nothing forks.
LinkInv ==
  /\ \A e \in log : e.prev < e.id
  /\ \A e, f \in log : e.id = f.id => e = f
  /\ NoFork

\* What a step does to the log: nothing, one entry at its end, or less of it.
LEMMA LogMoves ==
  ASSUME TypeInv, LockInv, [Next]_vars
  PROVE  \/ log' \subseteq log
         \/ \E at \in 0..MaxTime : log' = log \cup {NewEntry(at, Last(log))}
<1>1. ASSUME NEW w \in Writers, Insert(w)
      PROVE  \/ log' \subseteq log
             \/ \E at \in 0..MaxTime : log' = log \cup {NewEntry(at, Last(log))}
  <2>1. writer[w].prev = Last(log) /\ writer[w].at \in 0..MaxTime
    BY <1>1 DEF Insert, LockInv, TypeInv, TypeOK
  <2> QED
    BY <1>1, <2>1 DEF Insert
<1>2. CASE PruneRecord
  BY <1>2 DEF PruneRecord, TypeInv, TypeOK
<1>3. CASE PruneDelete
  BY <1>3 DEF PruneDelete
<1>4. ASSUME NEW w \in Writers, Stamp(w) \/ ReadHead(w) PROVE log' \subseteq log
  BY <1>4 DEF Stamp, ReadHead, chainVars
<1>5. CASE PruneAnchor \/ PruneError \/ Crash \/ Tick \/ VerifyAuditChain \/ ExportOnce
           \/ UNCHANGED vars
  BY <1>5 DEF PruneAnchor, PruneError, Crash, Tick, VerifyAuditChain, VerifyRows, VerifyWalk,
              ExportOnce, Fetch, Ship, Advance, vars, chainVars
<1> QED
  BY <1>1, <1>2, <1>3, <1>4, <1>5 DEF Next, AppendAudit, FinishPrune

LEMMA LinkStep ==
  ASSUME TypeInv, LockInv, LinkInv, [Next]_vars
  PROVE  LinkInv'
<1>1. CASE log' \subseteq log
  BY <1>1 DEF LinkInv, NoFork
<1>2. ASSUME NEW at \in 0..MaxTime, log' = log \cup {NewEntry(at, Last(log))}
      PROVE  LinkInv'
  <2> DEFINE n == NewEntry(at, Last(log))
  <2>1. /\ log \in SUBSET Entry /\ lastId \in Nat
        /\ \A e \in log : e.id \in Nat /\ e.prev \in Nat /\ e.id <= lastId
    BY Numbers DEF TypeInv, TypeOK, Entry, Hash
  <2>2. n.id = lastId + 1 /\ n.prev = Last(log)
    BY DEF NewEntry
  <2>3. \A e \in log : e.id <= Last(log)
    BY <2>1, LastIsGreatest
  <2>4. Last(log) \in Nat /\ Last(log) <= lastId
    <3>1. Last(log) \in Ids(log) \cup {0}
      BY <2>1, LastIsGreatest
    <3> QED
      BY <2>1, <3>1 DEF Ids
  <2> HIDE DEF n
  <2>5. \A e \in log : e.prev # n.prev /\ e.id # n.id
    BY <2>1, <2>2, <2>3, <2>4 DEF LinkInv
  <2>6. n.prev < n.id
    BY <2>1, <2>2, <2>4
  <2>7. log' = log \cup {n}
    BY <1>2 DEF n
  <2> QED
    BY <2>5, <2>6, <2>7 DEF LinkInv, NoFork
<1> QED
  BY <1>1, <1>2, LogMoves

\* Everything the chain needs of types, lock and links.
OrderInv == TypeInv /\ LockInv /\ LinkInv

LEMMA OrderInit ==
  ASSUME Init
  PROVE  OrderInv
<1>1. LockInv
  BY Roles DEF Init, LockInv
<1>2. LinkInv
  BY DEF Init, LinkInv, NoFork
<1> QED
  BY <1>1, <1>2, TypeInit DEF OrderInv

LEMMA OrderStep ==
  ASSUME IsFiniteSet(Writers), OrderInv, [Next]_vars
  PROVE  OrderInv'
BY TypeStep, LockStep, LinkStep DEF OrderInv

\* The chain never forks: the lock makes reading the head and inserting behind
\* it one step, for any number of writers and whatever retention deletes.
THEOREM NeverForks ==
  ASSUME IsFiniteSet(Writers)
  PROVE  Spec => []NoFork
<1>1. OrderInv => NoFork
  BY DEF OrderInv, LinkInv
<1> QED
  BY <1>1, OrderInit, OrderStep, PTL DEF Spec

-----------------------------------------------------------------------------
(* Verification *)

\* An entry that links to the last one keeps the rows verifying.
LEMMA Appended ==
  ASSUME NEW rows \in SUBSET Entry, NEW from, NEW n \in Entry, Verifies(rows, from),
         \A e \in rows : e.id < n.id,
         n.prev = IF rows = {} THEN from ELSE Last(rows)
  PROVE  Verifies(rows \cup {n}, from)
<1> DEFINE more == rows \cup {n}
<1>1. \A e \in more : e.id \in Nat
  BY Numbers DEF Entry
<1>2. Preceding(more, n) = rows
  BY <1>1 DEF Preceding
<1>3. \A e \in rows : Preceding(more, e) = Preceding(rows, e)
  BY <1>1 DEF Preceding
<1> HIDE DEF more
<1>4. \A e \in more : e \in rows \/ e = n
  BY DEF more
<1>5. Verifies(more, from)
  BY <1>2, <1>3, <1>4 DEF Verifies
<1> QED
  BY <1>5 DEF more

\* Cutting off what comes first leaves rows that verify from the last one cut.
LEMMA Cut ==
  ASSUME NEW rows \in SUBSET Entry, NEW from, NEW cut \in SUBSET rows, cut # {},
         Verifies(rows, from), \A e \in cut, f \in rows \ cut : e.id < f.id
  PROVE  Verifies(rows \ cut, Last(cut))
<1> DEFINE rest == rows \ cut
<1> SUFFICES ASSUME NEW e \in rest
             PROVE  e.prev = IF Preceding(rest, e) = {} THEN Last(cut)
                             ELSE Last(Preceding(rest, e))
  BY DEF Verifies
<1>1. \A f \in rows : f.id \in Nat
  BY Numbers DEF Entry
<1>2. cut \subseteq Preceding(rows, e)
  BY DEF Preceding
<1>3. e.prev = Last(Preceding(rows, e))
  BY <1>2 DEF Verifies
<1>4. Preceding(rows, e) = cut \cup Preceding(rest, e)
  BY <1>2 DEF Preceding
<1>5. CASE Preceding(rest, e) = {}
  BY <1>3, <1>4, <1>5
<1>6. CASE Preceding(rest, e) # {}
  <2> DEFINE P == Preceding(rest, e)
             l == Last(P)
  <2>1. P \in SUBSET rest /\ P \in SUBSET Entry
    BY DEF Preceding
  <2>2. l \in Ids(P) /\ \A f \in P : f.id <= l
    BY <1>6, <2>1, LastIsGreatest
  <2>3. PICK g \in P : g.id = l
    BY <2>2 DEF Ids
  <2>4. \A f \in cut : f.id <= l
    <3>1. g \in rows \ cut
      BY <2>1, <2>3
    <3>2. \A f \in cut : f.id < g.id /\ f.id \in Nat /\ g.id \in Nat
      BY <1>1, <3>1
    <3>3. \A f \in cut : f.id <= g.id
      BY <3>2
    <3> QED
      BY <2>3, <3>3
  <2>5. l \in Ids(Preceding(rows, e))
    BY <1>4, <2>2 DEF Ids
  <2>6. Preceding(rows, e) \in SUBSET Entry /\ \A f \in Preceding(rows, e) : f.id <= l
    BY <1>4, <2>1, <2>2, <2>4
  <2> HIDE DEF P, l
  <2>7. Last(Preceding(rows, e)) = l
    BY <2>5, <2>6, LastIsUnique
  <2> QED
    BY <1>3, <1>6, <2>7 DEF P, l
<1> QED
  BY <1>5, <1>6

\* Until something tears a prune, the log verifies from its anchor, or from the
\* one a prune under way is about to write.  An empty log was never written to.
ChainInv ==
  /\ ~bent /\ prune.step # "anchor" => Verifies(log, anchor)
  /\ ~bent /\ prune.step = "anchor" => Verifies(log, prune.anchor)
  /\ prune.step = "delete" =>
       /\ prune.anchor = Last(OlderThan(prune.before))
       /\ OlderThan(prune.before) # {}
       /\ log \ OlderThan(prune.before) # {}
  /\ log = {} => anchor = 0 /\ prune = NoPrune

LEMMA LastOfNone == Last({}) = 0
<1>1. {} \in SUBSET Entry
  OBVIOUS
<1>2. Last({}) \in Ids({}) \cup {0}
  BY <1>1, LastIsGreatest
<1> QED
  BY <1>2 DEF Ids

\* The new entry of an insert or of a prune keeps the log verifying.
LEMMA NewVerifies ==
  ASSUME OrderInv, ChainInv, NEW at \in 0..MaxTime, lastId + 1 <= MaxEntries,
         Verifies(log, anchor)
  PROVE  Verifies(log \cup {NewEntry(at, Last(log))}, anchor)
<1> DEFINE n == NewEntry(at, Last(log))
<1>1. log \in SUBSET Entry /\ lastId \in Nat /\ \A e \in log : e.id <= lastId
  BY DEF OrderInv, TypeInv, TypeOK
<1>2. Last(log) \in Hash
  BY <1>1, LastIsGreatest
<1>3. n \in Entry /\ n.id = lastId + 1
  BY <1>1, <1>2, EntryTyped
<1>4. n.prev = Last(log)
  BY DEF NewEntry
<1>5. \A e \in log : e.id < n.id
  <2>1. \A e \in log : e.id \in Nat
    BY <1>1, Numbers DEF Entry
  <2> QED
    BY <1>1, <1>3, <2>1
<1>6. n.prev = IF log = {} THEN anchor ELSE Last(log)
  BY <1>4, LastOfNone DEF ChainInv
<1> HIDE DEF n
<1>7. Verifies(log \cup {n}, anchor)
  BY <1>1, <1>3, <1>5, <1>6, Appended
<1> QED
  BY <1>7 DEF n

LEMMA ChainAppend ==
  ASSUME IsFiniteSet(Writers), OrderInv, ChainInv, NEW w \in Writers, Insert(w)
  PROVE  ChainInv'
<1>1. /\ writer[w].prev = Last(log) /\ writer[w].at \in 0..MaxTime /\ mu = w
      /\ prune = NoPrune /\ prune.step = "idle"
  BY Roles DEF Insert, OrderInv, LockInv, TypeInv, TypeOK
<1>2. lastId + 1 <= MaxEntries
  <2>1. writer \in Calls /\ writer[w] # Rest /\ lastId \in Nat
    BY Roles DEF Insert, OrderInv, TypeInv, TypeOK, Calls, Call
  <2>2. Cardinality(Busy(writer)) \in Nat \ {0}
    BY <2>1, Ends
  <2> QED
    BY <2>1, <2>2, Numbers DEF OrderInv, TypeInv
<1>3. UNCHANGED <<anchor, bent, prune>>
  BY DEF Insert
<1>4. CASE log' = log
  BY <1>1, <1>3, <1>4 DEF ChainInv
<1>5. CASE log' = log \cup {NewEntry(writer[w].at, Last(log))}
  <2>1. ~bent => Verifies(log', anchor)
    BY <1>1, <1>2, <1>5, NewVerifies DEF ChainInv
  <2>2. log' # {}
    BY <1>5
  <2> QED
    BY <1>1, <1>3, <2>1, <2>2 DEF ChainInv
<1> QED
  BY <1>1, <1>4, <1>5 DEF Insert

LEMMA ChainRecord ==
  ASSUME IsFiniteSet(Writers), OrderInv, ChainInv, PruneRecord
  PROVE  ChainInv'
<1> DEFINE n == NewEntry(now, Last(log))
<1>1. /\ prune = NoPrune /\ prune.step = "idle" /\ now \in 0..MaxTime
      /\ log' = log \cup {n} /\ UNCHANGED <<anchor, bent>>
      /\ log \in SUBSET Entry /\ lastId \in Nat /\ \A e \in log : e.id <= lastId
  BY Roles DEF PruneRecord, OrderInv, TypeInv, TypeOK
<1>2. lastId + 1 <= MaxEntries
  <2>1. Cardinality(Busy(writer)) \in Nat
    BY FS_Subset, FS_CardinalityType DEF Busy
  <2>2. lastId + Cardinality(Busy(writer)) < MaxEntries
    BY DEF PruneRecord, Room, Busy
  <2> QED
    BY <1>1, <2>1, <2>2, Numbers
<1>3. ~bent' => Verifies(log', anchor')
  BY <1>1, <1>2, NewVerifies DEF ChainInv
<1>4. PICK before \in 0..now :
         /\ OlderThan(before) # {}
         /\ prune' = [step |-> "delete", before |-> before,
                      anchor |-> Last(OlderThan(before))]
  BY DEF PruneRecord
<1>5. before <= now /\ n.at = now /\ before \in Nat
  BY <1>1, <1>4, Numbers DEF NewEntry
<1>6. OlderThan(before)' = OlderThan(before) /\ n \notin OlderThan(before)
  <2>1. ~(n.at < before)
    BY <1>1, <1>5, Numbers
  <2> HIDE DEF n
  <2> QED
    BY <1>1, <2>1 DEF OlderThan
<1>7. prune'.step = "delete" /\ prune'.before = before
      /\ prune'.anchor = Last(OlderThan(before))
  BY <1>4
<1>8. OlderThan(prune.before)' = OlderThan(before)
  BY <1>6, <1>7 DEF OlderThan
<1>9. n \in log' \ OlderThan(before)
  BY <1>1, <1>6
<1> QED
  BY <1>3, <1>4, <1>7, <1>8, <1>9 DEF ChainInv

LEMMA ChainDelete ==
  ASSUME OrderInv, ChainInv, PruneDelete
  PROVE  ChainInv'
<1> DEFINE cut == OlderThan(prune.before)
<1>1. /\ log' = log \ cut /\ bent' = (bent \/ Gapped(prune.before))
      /\ prune.step = "delete" /\ prune'.step = "anchor" /\ prune'.anchor = Last(cut)
      /\ cut # {} /\ log \ cut # {} /\ cut \in SUBSET log /\ log \in SUBSET Entry
  BY DEF PruneDelete, ChainInv, OlderThan, OrderInv, TypeInv, TypeOK
<1>2. ASSUME ~bent' PROVE Verifies(log \ cut, Last(cut))
  <2>1. \A e \in cut, f \in log \ cut : e.id < f.id
    <3> SUFFICES ASSUME NEW e \in cut, NEW f \in log \ cut
                 PROVE  e.id < f.id
      OBVIOUS
    <3>1. e.id \in Nat /\ f.id \in Nat
      BY <1>1, Numbers DEF Entry
    <3>2. ~(f.id < e.id)
      BY <1>1, <1>2 DEF Gapped
    <3>3. e.id # f.id
      BY <1>1 DEF OrderInv, LinkInv
    <3> QED
      BY <3>1, <3>2, <3>3
  <2>2. Verifies(log, anchor)
    BY <1>1, <1>2 DEF ChainInv
  <2> HIDE DEF cut
  <2> QED
    BY <1>1, <2>1, <2>2, Cut
<1> QED
  BY <1>1, <1>2 DEF ChainInv

LEMMA ChainFinish ==
  ASSUME OrderInv, ChainInv, PruneAnchor \/ PruneError \/ Crash
  PROVE  ChainInv'
<1>1. log' = log /\ prune' = NoPrune /\ prune'.step = "idle"
  BY Roles DEF PruneAnchor, PruneError, Crash
<1>2. log = {} => prune.step = "idle"
  BY Roles DEF ChainInv
<1>3. CASE PruneAnchor
  BY <1>1, <1>2, <1>3 DEF PruneAnchor, ChainInv
<1>4. CASE PruneError \/ Crash
  <2>1. anchor' = anchor /\ bent' = (bent \/ prune.step = "anchor")
    BY <1>4 DEF PruneError, Crash
  <2> QED
    BY <1>1, <1>2, <2>1 DEF ChainInv
<1> QED
  BY <1>3, <1>4

LEMMA ChainStep ==
  ASSUME IsFiniteSet(Writers), OrderInv, ChainInv, [Next]_vars
  PROVE  ChainInv'
<1>1. ASSUME NEW w \in Writers, Stamp(w) \/ ReadHead(w) PROVE ChainInv'
  <2>1. UNCHANGED <<log, anchor, prune, bent>>
    BY <1>1 DEF Stamp, ReadHead, chainVars
  <2> QED
    BY <2>1 DEF ChainInv, OlderThan
<1>2. CASE VerifyAuditChain \/ ExportOnce \/ Tick \/ UNCHANGED vars
  <2>1. UNCHANGED <<log, anchor, prune, bent>>
    BY <1>2 DEF VerifyAuditChain, VerifyRows, VerifyWalk, ExportOnce, Fetch, Ship, Advance,
                Tick, vars, chainVars
  <2> QED
    BY <2>1 DEF ChainInv, OlderThan
<1> QED
  BY <1>1, <1>2, ChainAppend, ChainRecord, ChainDelete, ChainFinish
  DEF Next, AppendAudit, FinishPrune

LEMMA ChainInit ==
  ASSUME Init
  PROVE  ChainInv
BY Roles DEF Init, ChainInv, Verifies

\* Neither appending nor pruning looks like tampering: whenever no one holds the
\* lock, the log verifies from its anchor, unless a prune was torn or cut off
\* entries that were not in the order of their ids.
THEOREM AlwaysVerifies ==
  ASSUME IsFiniteSet(Writers)
  PROVE  Spec => []ChainVerifies
<1>1. OrderInv /\ ChainInv => ChainVerifies
  BY Roles DEF OrderInv, LockInv, ChainInv, ChainVerifies
<1> QED
  BY <1>1, OrderInit, OrderStep, ChainInit, ChainStep, PTL DEF Spec

-----------------------------------------------------------------------------
(* The verdict *)

\* As long as no prune runs into it, what a verification has read still
\* verifies from the anchor it is going to read.
VerdictInv ==
  /\ check.step = "walk" /\ check.clean => Verifies(check.rows, anchor)
  /\ VerdictSound

LEMMA VerdictStep ==
  ASSUME OrderInv, ChainInv, VerdictInv, [Next]_vars
  PROVE  VerdictInv'
<1>1. CASE VerifyRows
  <2>1. /\ check'.rows = log /\ check'.clean = (prune = NoPrune /\ ~bent)
        /\ check'.alarm = FALSE /\ anchor' = anchor
    BY <1>1 DEF VerifyRows, chainVars
  <2> QED
    BY <2>1, Roles DEF VerdictInv, VerdictSound, ChainInv
<1>2. CASE VerifyWalk
  <2>1. /\ check'.clean = check.clean /\ check'.step = "idle" /\ check.step = "walk"
        /\ check'.alarm = ~Verifies(check.rows, anchor)
    BY <1>2 DEF VerifyWalk, OrderInv, TypeInv
  <2> QED
    BY <2>1 DEF VerdictInv, VerdictSound
<1>3. CASE PruneDelete \/ PruneAnchor
  <2>1. check'.clean = FALSE
    BY <1>3 DEF PruneDelete, PruneAnchor, OrderInv, TypeInv
  <2> QED
    BY <2>1 DEF VerdictInv, VerdictSound
<1>4. CASE Crash
  BY <1>4 DEF Crash, Fresh, VerdictInv, VerdictSound
<1>5. ASSUME NEW w \in Writers, Stamp(w) \/ ReadHead(w) \/ Insert(w) PROVE VerdictInv'
  <2>1. UNCHANGED <<check, anchor>>
    BY <1>5 DEF Stamp, ReadHead, Insert, chainVars
  <2> QED
    BY <2>1 DEF VerdictInv, VerdictSound
<1>6. CASE PruneRecord \/ PruneError \/ ExportOnce \/ Tick \/ UNCHANGED vars
  <2>1. UNCHANGED <<check, anchor>>
    BY <1>6 DEF PruneRecord, PruneError, ExportOnce, Fetch, Ship, Advance, Tick, vars, chainVars
  <2> QED
    BY <2>1 DEF VerdictInv, VerdictSound
<1> QED
  BY <1>1, <1>2, <1>3, <1>4, <1>5, <1>6 DEF Next, AppendAudit, FinishPrune, VerifyAuditChain

\* VerifyAuditChain takes no lock and still never cries wolf, unless a prune
\* runs into it: rows are only added behind those it has read.
THEOREM NoFalseAlarm ==
  ASSUME IsFiniteSet(Writers)
  PROVE  Spec => []VerdictSound
<1>1. Init => VerdictInv
  BY DEF Init, Fresh, VerdictInv, VerdictSound
<1>2. VerdictInv => VerdictSound
  BY DEF VerdictInv
<1> QED
  BY <1>1, <1>2, OrderInit, OrderStep, ChainInit, ChainStep, VerdictStep, PTL DEF Spec

-----------------------------------------------------------------------------
(* The exporter *)

Kept == Ids(log) \cup shipped \cup lost

\* An entry is in the log, shipped or lost, and a batch under way leaves none
\* between the cursor and its last entry out.
ExportInv ==
  /\ \A i \in 1..lastId : i \in Kept
  /\ cursor <= lastId
  /\ export.step # "idle" =>
       /\ export.ids \subseteq 1..lastId
       /\ \A i \in 1..lastId : \A k \in export.ids :
            cursor < i /\ i <= k => i \in export.ids \cup shipped \cup lost
  /\ export.step = "advance" => export.ids \subseteq shipped
  /\ CursorHonest

\* Only an insert hands out an id, and only retention takes an entry away.
LEMMA IdMoves ==
  ASSUME TypeInv, LockInv, [Next]_vars
  PROVE  \/ lastId' = lastId + 1 /\ Ids(log) \cup {lastId + 1} \subseteq Ids(log')
             /\ UNCHANGED <<cursor, export, shipped, lost>>
         \/ lastId' = lastId /\ Ids(log) \subseteq Ids(log') \cup shipped' \cup lost'
             /\ shipped \subseteq shipped' /\ lost \subseteq lost'
<1>1. ASSUME NEW at, NEW prev, log' = log \cup {NewEntry(at, prev)}
      PROVE  Ids(log) \cup {lastId + 1} \subseteq Ids(log')
  <2> DEFINE n == NewEntry(at, prev)
  <2>1. n.id = lastId + 1
    BY DEF NewEntry
  <2> HIDE DEF n
  <2>2. log' = log \cup {n}
    BY <1>1 DEF n
  <2> QED
    BY <2>1, <2>2 DEF Ids
<1>2. ASSUME NEW w \in Writers, Insert(w), lastId' = lastId + 1,
             log' = log \cup {NewEntry(writer[w].at, writer[w].prev)}
      PROVE  UNCHANGED <<cursor, export, shipped, lost>>
  BY <1>2 DEF Insert, exportVars
<1>3. ASSUME NEW w \in Writers, Insert(w), UNCHANGED <<log, lastId>>
      PROVE  lastId' = lastId /\ log' = log /\ shipped' = shipped /\ lost' = lost
  BY <1>3 DEF Insert, exportVars
<1>4. CASE PruneRecord
  BY <1>1, <1>4 DEF PruneRecord, exportVars
<1>5. CASE PruneDelete
  <2>1. /\ lastId' = lastId /\ shipped' = shipped /\ lost \subseteq lost'
        /\ log' = log \ OlderThan(prune.before)
        /\ lost' = lost \cup (Ids(OlderThan(prune.before)) \ shipped)
    BY <1>5 DEF PruneDelete, exportVars
  <2>2. Ids(log) \subseteq Ids(log') \cup Ids(OlderThan(prune.before))
    BY <2>1 DEF Ids
  <2> QED
    BY <2>1, <2>2
<1>6. CASE Ship
  <2>1. PICK part, ok : Sent(part, ok)
    BY <1>6 DEF Ship, Post, Write
  <2> QED
    BY <1>6, <2>1 DEF Ship, Sent, chainVars
<1>7. ASSUME NEW w \in Writers, Stamp(w) \/ ReadHead(w)
      PROVE  lastId' = lastId /\ log' = log /\ shipped' = shipped /\ lost' = lost
  BY <1>7 DEF Stamp, ReadHead, chainVars, exportVars
<1>8. CASE PruneAnchor \/ PruneError \/ VerifyAuditChain \/ Fetch \/ Advance \/ Crash \/ Tick
           \/ UNCHANGED vars
  <2>1. lastId' = lastId /\ log' = log /\ shipped' = shipped /\ lost' = lost
    BY <1>8 DEF PruneAnchor, PruneError, VerifyAuditChain, VerifyRows, VerifyWalk, Fetch,
                Advance, Crash, Tick, vars, chainVars, exportVars
  <2> QED
    BY <2>1
<1> QED
  BY <1>1, <1>2, <1>3, <1>4, <1>5, <1>6, <1>7, <1>8
  DEF Next, AppendAudit, Insert, FinishPrune, ExportOnce

\* How a step changes what the exporter is at.
LEMMA ExportMoves ==
  ASSUME Acknowledged, TypeInv, [Next]_vars
  PROVE  \/ UNCHANGED <<cursor, export>>
         \/ UNCHANGED cursor /\ export'.step = "idle"
         \/ Fetch
         \/ /\ export.step = "ship" /\ UNCHANGED cursor
            /\ export' = [export EXCEPT !.step = "advance"]
            /\ shipped' = shipped \cup export.ids /\ lost' = lost /\ lastId' = lastId
         \/ /\ export.step = "advance" /\ export'.step = "idle"
            /\ cursor' = CHOOSE i \in export.ids : \A k \in export.ids : k <= i
            /\ shipped' = shipped /\ lost' = lost /\ lastId' = lastId
<1>1. ASSUME NEW w \in Writers, Stamp(w) \/ ReadHead(w) \/ Insert(w)
      PROVE  UNCHANGED <<cursor, export>>
  BY <1>1 DEF Stamp, ReadHead, Insert, exportVars
<1>2. CASE PruneRecord \/ FinishPrune \/ VerifyAuditChain \/ Tick \/ UNCHANGED vars
  BY <1>2 DEF PruneRecord, FinishPrune, PruneDelete, PruneAnchor, PruneError,
              VerifyAuditChain, VerifyRows, VerifyWalk, Tick, vars, exportVars
<1>3. CASE Crash
  BY <1>3 DEF Crash, NoBatch
<1>4. CASE Ship
  BY <1>4 DEF Ship, Post, Sent, NoBatch, chainVars
<1>5. CASE Advance
  BY <1>5 DEF Advance, NoBatch, chainVars
<1> QED
  BY <1>1, <1>2, <1>3, <1>4, <1>5 DEF Next, AppendAudit, ExportOnce

LEMMA ExportStep ==
  ASSUME Acknowledged, TypeInv, LockInv, ExportInv, [Next]_vars
  PROVE  ExportInv'
<1>1. /\ lastId \in Nat /\ cursor \in Nat /\ log \in SUBSET Entry
      /\ export.ids \subseteq Nat /\ Ids(log) \subseteq Nat
      /\ \A e \in log : e.id <= lastId
  BY Numbers DEF TypeInv, TypeOK, Hash, Ids, Entry
<1>2. /\ \/ lastId' = lastId + 1 /\ UNCHANGED <<cursor, export>>
         \/ lastId' = lastId
      /\ shipped \subseteq shipped' /\ lost \subseteq lost'
  BY IdMoves
<1>3. \A i \in 1..lastId' : i \in Kept'
  BY <1>1, IdMoves DEF ExportInv, Kept
<1>4. CASE UNCHANGED <<cursor, export>> \/ (UNCHANGED cursor /\ export'.step = "idle")
  BY <1>1, <1>2, <1>3, <1>4 DEF ExportInv, CursorHonest
<1>5. CASE Fetch
  <2>1. PICK ids \in SUBSET {i \in Ids(log) : i > cursor} :
           /\ \A i \in Ids(log) \ ids : i > cursor => \A k \in ids : k < i
           /\ export' = [step |-> "ship", ids |-> ids]
    BY <1>5 DEF Fetch
  <2>2. export'.step = "ship" /\ export'.ids = ids
        /\ UNCHANGED <<cursor, lastId, shipped, lost>>
    BY <1>5, <2>1 DEF Fetch, chainVars
  <2>3. ids \subseteq 1..lastId
    BY <1>1, <2>1, Numbers DEF Ids, Entry
  <2>4. ASSUME NEW i \in 1..lastId, NEW k \in ids, cursor < i, i <= k
        PROVE  i \in ids \cup shipped \cup lost
    <3>1. CASE i \in Ids(log) \ ids
      BY <1>1, <2>1, <2>3, <2>4, <3>1
    <3> QED
      BY <3>1 DEF ExportInv, Kept
  <2> QED
    BY <1>3, <2>2, <2>3, <2>4 DEF ExportInv, CursorHonest
<1>6. CASE /\ export.step = "ship" /\ UNCHANGED cursor
           /\ export' = [export EXCEPT !.step = "advance"]
           /\ shipped' = shipped \cup export.ids /\ lost' = lost /\ lastId' = lastId
  <2>1. export'.ids = export.ids /\ export'.step = "advance"
    BY <1>6 DEF TypeInv, TypeOK
  <2> QED
    BY <1>3, <1>6, <2>1 DEF ExportInv, CursorHonest
<1>7. CASE /\ export.step = "advance" /\ export'.step = "idle"
           /\ cursor' = CHOOSE i \in export.ids : \A k \in export.ids : k <= i
           /\ shipped' = shipped /\ lost' = lost /\ lastId' = lastId
  <2>1. export.ids \in SUBSET (0..lastId) /\ export.ids # {} /\ export.ids \subseteq shipped
    BY <1>1, <1>7 DEF ExportInv, TypeInv
  <2>2. \E i \in export.ids : \A k \in export.ids : k <= i
    BY <1>1, <2>1, Greatest
  <2>3. cursor' \in export.ids /\ \A k \in export.ids : k <= cursor'
    BY <1>7, <2>2
  <2>4. cursor' <= lastId /\ cursor' \in Nat
    BY <1>1, <2>1, <2>3
  <2>5. ASSUME NEW i \in 1..lastId, i <= cursor' PROVE i \in shipped \cup lost
    <3>1. CASE i <= cursor
      BY <3>1 DEF ExportInv, CursorHonest
    <3>2. CASE cursor < i
      BY <1>7, <2>1, <2>3, <2>5, <3>2 DEF ExportInv
    <3> QED
      BY <1>1, <3>1, <3>2
  <2> QED
    BY <1>3, <1>7, <2>4, <2>5 DEF ExportInv, CursorHonest
<1> QED
  BY <1>4, <1>5, <1>6, <1>7, ExportMoves

\* With a collector that answers, the cursor passes no entry by: what lies
\* behind it was accepted, or retention took it first, whatever crashed, failed
\* or was sent twice, and however appends and prunes ran meanwhile.
THEOREM CursorStaysHonest ==
  ASSUME IsFiniteSet(Writers), Acknowledged
  PROVE  Spec => []CursorHonest
<1>1. Init => ExportInv
  BY DEF Init, ExportInv, CursorHonest, NoBatch
<1>2. OrderInv => TypeInv /\ LockInv
  BY DEF OrderInv
<1>3. ExportInv => CursorHonest
  BY DEF ExportInv
<1>4. OrderInv /\ ExportInv /\ [Next]_vars => ExportInv'
  BY <1>2, ExportStep
<1> QED
  BY <1>1, <1>3, <1>4, OrderInit, OrderStep, PTL DEF Spec

=============================================================================
