------------------------------ MODULE AuditLog ------------------------------
(***************************************************************************)
(* The hash-chained audit log: concurrent writers (server/internal/store/  *)
(* audit.go), retention (audit_prune.go), verification, and the exporter   *)
(* that ships entries to a collector (server/internal/siem/siem.go).       *)
(*                                                                         *)
(* SHA-256 is taken to have no collisions, so an entry's hash is named by  *)
(* the entry's id and 0 stands for the empty hash.  What an entry says is  *)
(* left out: only its time, its place and its link matter below.           *)
(***************************************************************************)
EXTENDS Naturals, FiniteSets

CONSTANTS
  Writers,              \* goroutines calling AppendAudit
  Retention,            \* ALERTHUB_AUDIT_RETENTION
  Batch,                \* siem Config.Batch
  AppendsWithinSecond,  \* is an entry in the log within the second of its stamp?
  PruneMayFail,         \* may a prune be cut short, by an error or a crash?
  Acknowledged,         \* does the collector answer, as HTTP does and syslog does not?
  MaxEntries,           \* bound on the entries ever written
  MaxTime,              \* bound on the clock
  MaxFaults             \* bound on errors and crashes

ASSUME AuditAssumption ==
  /\ {Retention, MaxEntries, MaxTime, MaxFaults} \subseteq Nat
  /\ Batch \in Nat \ {0}
  /\ {AppendsWithinSecond, PruneMayFail, Acknowledged} \subseteq BOOLEAN
  /\ "free" \notin Writers
  /\ "pruner" \notin Writers

VARIABLES
  now,       \* time.Now().Unix()
  log,       \* audit_log
  lastId,    \* the last id audit_log handed out
  anchor,    \* settings[audit_chain_anchor]
  mu,        \* holder of Store.auditMu
  writer,    \* per writer, how far its AppendAudit is
  prune,     \* how far PruneAudit is
  check,     \* how far VerifyAuditChain is, and what it reported last
  cursor,    \* cursors[siem_export]
  export,    \* how far exportOnce is
  shipped,   \* ids the collector has accepted
  lost,      \* ids pruned before the collector had them
  bent,      \* has a prune left the log without its anchor, or with a gap?
  faults     \* errors and crashes so far

chainVars  == <<log, lastId, anchor, mu>>
exportVars == <<cursor, export, shipped>>
vars == <<now, chainVars, writer, prune, check, exportVars, bent, lost, faults>>

-----------------------------------------------------------------------------

Hash  == 0..MaxEntries
Entry == [id : 1..MaxEntries, at : 0..MaxTime, prev : Hash]

Ids(rows) == {e.id : e \in rows}

\* ORDER BY id DESC LIMIT 1, 0 when there is no row.
Last(rows) == CHOOSE i \in Ids(rows) \cup {0} : \A k \in Ids(rows) : k <= i

Preceding(rows, e) == {f \in rows : f.id < e.id}

\* VerifyAuditChain's walk: every entry links to the one before it, the first
\* one to the anchor.
Verifies(rows, from) ==
  \A e \in rows :
    e.prev = IF Preceding(rows, e) = {} THEN from ELSE Last(Preceding(rows, e))

OlderThan(before) == {e \in log : e.at < before}

\* Stamps are taken before the lock, so what is older need not come first.
Gapped(before) ==
  \E e \in OlderThan(before) : \E f \in log \ OlderThan(before) : f.id < e.id

Rest == [step |-> "idle", at |-> 0, prev |-> 0]
Room == lastId + Cardinality({w \in Writers : writer[w] # Rest}) < MaxEntries

Fault == faults < MaxFaults /\ faults' = faults + 1

-----------------------------------------------------------------------------
(* AppendAudit *)

\* The entry is stamped before the lock is asked for.
Stamp(w) ==
  /\ writer[w] = Rest
  /\ Room
  /\ writer' = [writer EXCEPT ![w] = [step |-> "lock", at |-> now, prev |-> 0]]
  /\ UNCHANGED <<now, chainVars, prune, check, exportVars, bent, lost, faults>>

\* Fault variant: the head is read without the lock.
ReadHeadUnlocked(w) ==
  /\ writer[w].step = "lock"
  /\ writer' = [writer EXCEPT ![w].step = "insert", ![w].prev = Last(log)]
  /\ UNCHANGED <<now, chainVars, prune, check, exportVars, bent, lost, faults>>

ReadHead(w) ==
  /\ writer[w].step = "lock"
  /\ mu = "free"
  /\ mu' = w
  /\ writer' = [writer EXCEPT ![w].step = "insert", ![w].prev = Last(log)]
  /\ UNCHANGED <<now, log, lastId, anchor, prune, check, exportVars, bent, lost, faults>>

NewEntry(at, prev) == [id |-> lastId + 1, at |-> at, prev |-> prev]

\* Fault variant: the id is handed out again.
InsertReusingId(w) ==
  /\ writer[w].step = "insert"
  /\ log' = log \cup {NewEntry(writer[w].at, writer[w].prev)}
  /\ mu' = "free"
  /\ writer' = [writer EXCEPT ![w] = Rest]
  /\ UNCHANGED <<now, lastId, anchor, prune, check, exportVars, bent, lost, faults>>

\* An insert that fails leaves no entry: the caller logs it and goes on.
Insert(w) ==
  /\ writer[w].step = "insert"
  /\ \/ /\ log' = log \cup {NewEntry(writer[w].at, writer[w].prev)}
        /\ lastId' = lastId + 1
        /\ UNCHANGED faults
     \/ Fault /\ UNCHANGED <<log, lastId>>
  /\ mu' = "free"
  /\ writer' = [writer EXCEPT ![w] = Rest]
  /\ UNCHANGED <<now, anchor, prune, check, exportVars, bent, lost>>

-----------------------------------------------------------------------------
(* PruneAudit: one goroutine, three statements under the lock and no       *)
(* transaction around them.                                                *)

NoPrune == [step |-> "idle", before |-> 0, anchor |-> 0]

\* The cutoff was computed before the lock was granted, so it may be older
\* than the retention asks for by now.  The act is recorded first.
PruneRecord ==
  /\ prune = NoPrune
  /\ mu = "free"
  /\ Room
  /\ \E before \in {b \in 0..now : b + Retention <= now} :
       /\ OlderThan(before) # {}
       /\ prune' = [step |-> "delete", before |-> before,
                    anchor |-> Last(OlderThan(before))]
  /\ log' = log \cup {NewEntry(now, Last(log))}
  /\ lastId' = lastId + 1
  /\ mu' = "pruner"
  /\ UNCHANGED <<now, anchor, writer, check, exportVars, bent, lost, faults>>

\* Fault variant: the DELETE takes one second more than the anchor was chosen
\* for.
PruneDeleteInclusive ==
  /\ prune.step = "delete"
  /\ log' = log \ OlderThan(prune.before + 1)
  /\ lost' = lost \cup (Ids(OlderThan(prune.before + 1)) \ shipped)
  /\ bent' = (bent \/ Gapped(prune.before))
  /\ prune' = [prune EXCEPT !.step = "anchor"]
  /\ check' = [check EXCEPT !.clean = FALSE]
  /\ UNCHANGED <<now, lastId, anchor, mu, writer, exportVars, faults>>

PruneDelete ==
  /\ prune.step = "delete"
  /\ log' = log \ OlderThan(prune.before)
  /\ lost' = lost \cup (Ids(OlderThan(prune.before)) \ shipped)
  /\ bent' = (bent \/ Gapped(prune.before))
  /\ prune' = [prune EXCEPT !.step = "anchor"]
  /\ check' = [check EXCEPT !.clean = FALSE]
  /\ UNCHANGED <<now, lastId, anchor, mu, writer, exportVars, faults>>

PruneAnchor ==
  /\ prune.step = "anchor"
  /\ anchor' = prune.anchor
  /\ mu' = "free"
  /\ prune' = NoPrune
  /\ check' = [check EXCEPT !.clean = FALSE]
  /\ UNCHANGED <<now, log, lastId, writer, exportVars, bent, lost, faults>>

\* A statement fails: PruneAudit returns with what it has done so far.
PruneError ==
  /\ PruneMayFail
  /\ prune # NoPrune
  /\ Fault
  /\ mu' = "free"
  /\ prune' = NoPrune
  /\ bent' = (bent \/ prune.step = "anchor")
  /\ UNCHANGED <<now, log, lastId, anchor, writer, check, exportVars, lost>>

-----------------------------------------------------------------------------
(* VerifyAuditChain takes no lock: the rows are one query's snapshot and   *)
(* the anchor is read after it.                                            *)

Fresh == [step |-> "idle", rows |-> {}, clean |-> TRUE, alarm |-> FALSE]

VerifyRows ==
  /\ check.step = "idle"
  /\ check' = [step |-> "walk", rows |-> log, clean |-> prune = NoPrune /\ ~bent,
               alarm |-> FALSE]
  /\ UNCHANGED <<now, chainVars, writer, prune, exportVars, bent, lost, faults>>

\* Fault variant: the walk starts from genesis.
VerifyFromGenesis ==
  /\ check.step = "walk"
  /\ check' = [check EXCEPT !.step = "idle", !.rows = {},
                            !.alarm = ~Verifies(check.rows, 0)]
  /\ UNCHANGED <<now, chainVars, writer, prune, exportVars, bent, lost, faults>>

VerifyWalk ==
  /\ check.step = "walk"
  /\ check' = [check EXCEPT !.step = "idle", !.rows = {},
                            !.alarm = ~Verifies(check.rows, anchor)]
  /\ UNCHANGED <<now, chainVars, writer, prune, exportVars, bent, lost, faults>>

-----------------------------------------------------------------------------
(* exportOnce *)

NoBatch == [step |-> "idle", ids |-> {}]

\* Fault variant: only a full batch is worth a request.
FetchFull ==
  /\ export = NoBatch
  /\ \E ids \in SUBSET {i \in Ids(log) : i > cursor} :
       /\ Cardinality(ids) = Batch
       /\ \A i \in Ids(log) \ ids : i > cursor => \A k \in ids : k < i
       /\ export' = [step |-> "ship", ids |-> ids]
  /\ UNCHANGED <<now, chainVars, writer, prune, check, cursor, shipped, bent, lost, faults>>

\* GetCursor and AuditSince: the Batch oldest entries past the cursor.
Fetch ==
  /\ export = NoBatch
  /\ \E ids \in (SUBSET {i \in Ids(log) : i > cursor}) \ {{}} :
       /\ \A i \in Ids(log) \ ids : i > cursor =>
            Cardinality(ids) = Batch /\ \A k \in ids : k < i
       /\ Cardinality(ids) <= Batch
       /\ export' = [step |-> "ship", ids |-> ids]
  /\ UNCHANGED <<now, chainVars, writer, prune, check, cursor, shipped, bent, lost, faults>>

\* Fault variant: a failed request counts as delivered.
ShipHopefully ==
  /\ export.step = "ship"
  /\ \/ shipped' = shipped \cup export.ids /\ UNCHANGED faults
     \/ Fault /\ UNCHANGED shipped
  /\ export' = [export EXCEPT !.step = "advance"]
  /\ UNCHANGED <<now, chainVars, writer, prune, check, cursor, bent, lost>>

\* part of the batch has arrived, and Ship returned nil if ok.  An error ends the
\* pass with the cursor where it was.
Sent(part, ok) ==
  /\ shipped' = shipped \cup part
  /\ export' = IF ok THEN [export EXCEPT !.step = "advance"] ELSE NoBatch

\* httpSink.Ship: one request, which has arrived if the answer says so.
Post ==
  \/ Sent(export.ids, TRUE) /\ UNCHANGED faults
  \/ Fault /\ \E part \in SUBSET export.ids : Sent(part, FALSE)

\* syslogSink.Ship: one write per entry, which returns when the kernel has the
\* bytes.  What a breaking connection loses may go unnoticed.
Write ==
  \/ Sent(export.ids, TRUE) /\ UNCHANGED faults
  \/ Fault /\ \E part \in SUBSET export.ids, ok \in BOOLEAN : Sent(part, ok)

Ship ==
  /\ export.step = "ship"
  /\ IF Acknowledged THEN Post ELSE Write
  /\ UNCHANGED <<now, chainVars, writer, prune, check, cursor, bent, lost>>

Advance ==
  /\ export.step = "advance"
  /\ \/ /\ cursor' = CHOOSE i \in export.ids : \A k \in export.ids : k <= i
        /\ UNCHANGED faults
     \/ Fault /\ UNCHANGED cursor
  /\ export' = NoBatch
  /\ UNCHANGED <<now, chainVars, writer, prune, check, shipped, bent, lost>>

-----------------------------------------------------------------------------

\* The process dies: what is in the database stays, what is in memory goes.
Crash ==
  /\ prune # NoPrune => PruneMayFail
  /\ Fault
  /\ mu' = "free"
  /\ writer' = [w \in Writers |-> Rest]
  /\ prune' = NoPrune
  /\ check' = Fresh
  /\ export' = NoBatch
  /\ bent' = (bent \/ prune.step = "anchor")
  /\ UNCHANGED <<now, log, lastId, anchor, cursor, shipped, lost>>

Tick ==
  /\ now < MaxTime
  /\ AppendsWithinSecond => \A w \in Writers : writer[w] = Rest
  /\ now' = now + 1
  /\ UNCHANGED <<chainVars, writer, prune, check, exportVars, bent, lost, faults>>

-----------------------------------------------------------------------------

Init ==
  /\ now = 0
  /\ log = {}
  /\ lastId = 0
  /\ anchor = 0
  /\ mu = "free"
  /\ writer = [w \in Writers |-> Rest]
  /\ prune = NoPrune
  /\ check = Fresh
  /\ cursor = 0
  /\ export = NoBatch
  /\ shipped = {}
  /\ lost = {}
  /\ bent = FALSE
  /\ faults = 0

AppendAudit(w)   == ReadHead(w) \/ Insert(w)
FinishPrune      == PruneDelete \/ PruneAnchor \/ PruneError
VerifyAuditChain == VerifyRows \/ VerifyWalk
ExportOnce       == Fetch \/ Ship \/ Advance

Next ==
  \/ \E w \in Writers : Stamp(w) \/ AppendAudit(w)
  \/ PruneRecord \/ FinishPrune
  \/ VerifyAuditChain
  \/ ExportOnce
  \/ Crash
  \/ Tick

Spec == Init /\ [][Next]_vars

\* A goroutine inside a call goes on, and the exporter's ticker keeps firing.
\* Nothing obliges anyone to write, to prune or to verify.
FairSpec ==
  /\ Spec
  /\ \A w \in Writers : WF_vars(AppendAudit(w))
  /\ WF_vars(FinishPrune)
  /\ WF_vars(ExportOnce)

-----------------------------------------------------------------------------
(* Properties *)

TypeOK ==
  /\ now \in 0..MaxTime
  /\ log \subseteq Entry
  /\ lastId \in 0..MaxEntries
  /\ \A e \in log : e.id <= lastId
  /\ anchor \in Hash
  /\ mu \in {"free", "pruner"} \cup Writers
  /\ writer \in [Writers -> [step : {"idle", "lock", "insert"},
                             at : 0..MaxTime, prev : Hash]]
  /\ prune \in [step : {"idle", "delete", "anchor"}, before : 0..MaxTime,
                anchor : Hash]
  /\ check.rows \subseteq Entry
  /\ cursor \in Hash
  /\ export \in [step : {"idle", "ship", "advance"}, ids : SUBSET (1..MaxEntries)]
  /\ shipped \subseteq 1..MaxEntries
  /\ lost \subseteq 1..MaxEntries
  /\ bent \in BOOLEAN
  /\ faults \in 0..MaxFaults

\* The chain never forks, however the writers and a prune interleave: no two
\* entries link to the same predecessor.
NoFork == \A e, f \in log : e.prev = f.prev => e = f

\* Whenever no one holds the lock, the log as it stands verifies from its
\* anchor: neither appending nor pruning looks like tampering, crashes and
\* failed statements included.  Two histories are excepted: a prune cut short
\* between its DELETE and its anchor, and one whose entries were not stamped in
\* the order of their ids.
ChainVerifies == mu = "free" /\ ~bent => Verifies(log, anchor)

\* "Stores the hash of the last removed entry as the chain ANCHOR" before it
\* "deletes the old rows": the log verifies whatever happened to a prune.  The code
\* deletes first, and does not have this.
ChainSurvivesPrune == mu = "free" => Verifies(log, anchor)

\* A verification that no prune ran into raises no alarm, although it reads
\* the rows and the anchor at two different moments among running writers.
VerdictSound == check.clean => ~check.alarm

\* The cursor never passes an entry by: whatever crashed, failed or was sent
\* twice, what lies behind it was accepted by the collector or fell to
\* retention before it could be.
CursorHonest == \A i \in 1..lastId : i <= cursor => i \in shipped \cup lost

\* Every entry written gets to the collector, unless retention takes it first.
Exported == \A i \in 1..MaxEntries : (lastId >= i) ~> (i \in shipped \cup lost)
=============================================================================
