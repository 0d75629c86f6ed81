----------------------------- MODULE CapProofs -----------------------------
(***************************************************************************)
(* Facts about the mapping of CAP documents, for every document, and the   *)
(* safety properties of ingest, for every number of handlers, documents,   *)
(* requests given up and broadcasts refused.                               *)
(***************************************************************************)
EXTENDS Cap, FiniteSetTheorems, TLAPS

\* The collapse always yields a severity.
LEMMA CollapseType ==
  ASSUME NEW i \in Info PROVE CollapseSeverity(i) \in Severity
BY DEF CollapseSeverity, Severity, Notice, Warning, Critical, Emergency

LEMMA SeverityOfType ==
  ASSUME NEW c \in Content PROVE SeverityOf(c) \in Severity
<1>1. c.info \in Info
  BY DEF Content
<1>2. CollapseSeverity(c.info) \in Severity
  BY <1>1, CollapseType
<1> QED
  BY <1>2 DEF SeverityOf, Severity, Notice, Warning, Critical, Emergency

\* cap.go:254-260: a severity that is emitted and ingested again is the same.
THEOREM RoundTrip ==
  \A s \in Severity : CollapseSeverity(ExpandSeverity(s)) = s
<1> SUFFICES ASSUME NEW s \in Severity
             PROVE  CollapseSeverity(ExpandSeverity(s)) = s
  OBVIOUS
<1>0. s \in {0, 1, 2, 3}
  BY DEF Severity, Notice, Emergency
<1>1. CASE s = Emergency
  <2> DEFINE i == [urgency |-> "Immediate", grade |-> "Extreme", certainty |-> "Observed"]
  <2>1. ExpandSeverity(s) = i
    BY <1>1 DEF ExpandSeverity, Notice, Warning, Critical, Emergency
  <2>2. CollapseSeverity(i) = Emergency
    BY DEF CollapseSeverity, Notice, Warning, Critical, Emergency
  <2> QED
    BY <1>1, <2>1, <2>2
<1>2. CASE s = Critical
  <2> DEFINE i == [urgency |-> "Immediate", grade |-> "Severe", certainty |-> "Possible"]
  <2>1. ExpandSeverity(s) = i
    BY <1>2 DEF ExpandSeverity, Notice, Warning, Critical, Emergency
  <2>2. CollapseSeverity(i) = Critical
    BY DEF CollapseSeverity, Notice, Warning, Critical, Emergency
  <2> QED
    BY <1>2, <2>1, <2>2
<1>3. CASE s = Warning
  <2> DEFINE i == [urgency |-> "Unknown", grade |-> "Moderate", certainty |-> "Likely"]
  <2>1. ExpandSeverity(s) = i
    BY <1>3 DEF ExpandSeverity, Notice, Warning, Critical, Emergency
  <2>2. CollapseSeverity(i) = Warning
    BY DEF CollapseSeverity, Notice, Warning, Critical, Emergency
  <2> QED
    BY <1>3, <2>1, <2>2
<1>4. CASE s = Notice
  <2> DEFINE i == [urgency |-> "Future", grade |-> "Minor", certainty |-> "Possible"]
  <2>1. ExpandSeverity(s) = i
    BY <1>4 DEF ExpandSeverity, Notice, Warning, Critical, Emergency
  <2>2. CollapseSeverity(i) = Notice
    BY DEF CollapseSeverity, Notice, Warning, Critical, Emergency
  <2> QED
    BY <1>4, <2>1, <2>2
<1> QED
  BY <1>0, <1>1, <1>2, <1>3, <1>4 DEF Notice, Warning, Critical, Emergency

\* cap.go:128: no test or exercise is louder than a warning, whatever it says.
THEOREM TestsStayQuiet ==
  \A c \in Content : IsTest(c) => SeverityOf(c) <= Warning
<1> SUFFICES ASSUME NEW c \in Content, IsTest(c)
             PROVE  SeverityOf(c) <= Warning
  OBVIOUS
<1>1. c.info \in Info
  BY DEF Content
<1>2. CollapseSeverity(c.info) \in Severity
  BY <1>1, CollapseType
<1> QED
  BY <1>2 DEF SeverityOf, Severity, Notice, Warning, Critical, Emergency

\* cap.go:186-200: a document with an info block is never expired on arrival,
\* although its own time may be past.
THEOREM NeverExpiredOnArrival ==
  \A c \in Content, now \in Int : c.hasInfo => TTLOf(c, now) > 0
<1> SUFFICES ASSUME NEW c \in Content, NEW now \in Int, c.hasInfo
             PROVE  TTLOf(c, now) > 0
  OBVIOUS
<1>1. c.expires \in Int \cup {NoTime}
  BY DEF Content
<1> QED
  BY <1>1, CapMappingAssumption DEF TTLOf, TTLFrom

\* What another AlertHub makes of an alert it reads from this one's CAP feed: the
\* same severity, except that a drill is at most a warning.
THEOREM RelayKeepsSeverity ==
  ASSUME NEW a, a.severity \in Severity
  PROVE  SeverityOf(ToXML(a)) =
           IF a.source = "drill" /\ a.severity > Warning THEN Warning ELSE a.severity
<1>1. CollapseSeverity(ExpandSeverity(a.severity)) = a.severity
  BY RoundTrip
<1>2. /\ ToXML(a).hasInfo
      /\ ToXML(a).info = ExpandSeverity(a.severity)
      /\ IsTest(ToXML(a)) <=> a.source = "drill"
  BY DEF ToXML, IsTest
<1> QED
  BY <1>1, <1>2 DEF SeverityOf

-----------------------------------------------------------------------------
(* What ParseReferences makes of the three ways to fill <references>.       *)

LEMMA ParseInterval ==
  ASSUME NEW refs, NEW a \in Nat, NEW b \in Nat, a <= b + 1, Resolvable(refs) = a..b
  PROVE  ParseReferences(refs) = [k \in 1..(b - a + 1) |-> refs[a + k - 1]]
<1>1. Cardinality(Resolvable(refs)) = b - a + 1
  BY FS_Interval
<1>2. ASSUME NEW i \in a..b
      PROVE  Cardinality(Upto(refs, i)) = i - a + 1
  <2>1. Upto(refs, i) = a..i
    BY DEF Upto
  <2>2. a \in Int /\ i \in Int /\ a <= i
    OBVIOUS
  <2>3. Cardinality(a..i) = i - a + 1
    BY <2>2, FS_Interval
  <2> QED
    BY <2>1, <2>3
<1>3. ASSUME NEW k \in 1..(b - a + 1)
      PROVE  Place(refs, k) = a + k - 1
  <2>1. a + k - 1 \in Resolvable(refs)
    OBVIOUS
  <2>2. Cardinality(Upto(refs, a + k - 1)) = k
    BY <1>2
  <2>3. \A i \in Resolvable(refs) : Cardinality(Upto(refs, i)) = k => i = a + k - 1
    BY <1>2
  <2> QED
    BY <2>1, <2>2, <2>3 DEF Place
<1> QED
  BY <1>1, <1>3 DEF ParseReferences

LEMMA ParseChain ==
  ASSUME NEW n \in Nat
  PROVE  ParseReferences(References("chain", n)) = [k \in 1..n |-> k]
<1> DEFINE refs == [i \in 1..n |-> i]
<1>1. References("chain", n) = refs
  BY DEF References
<1>2. Resolvable(refs) = 1..n
  BY DEF Resolvable, Blank
<1>3. ParseReferences(refs) = [k \in 1..(n - 1 + 1) |-> refs[1 + k - 1]]
  BY <1>2, ParseInterval
<1> QED
  BY <1>1, <1>3

LEMMA ParseSloppy ==
  ASSUME NEW n \in Nat
  PROVE  ParseReferences(References("sloppy", n)) = [k \in 1..n |-> k]
<1> DEFINE chain == [i \in 1..n |-> i]
           refs == <<Blank>> \o chain
<1>1. References("sloppy", n) = refs
  BY DEF References
<1>2. /\ DOMAIN refs = 1..(n + 1)
      /\ refs[1] = 0
      /\ \A i \in 2..(n + 1) : refs[i] = i - 1
  <2>1. /\ chain \in Seq(Nat)
        /\ Len(chain) = n
        /\ \A i \in 1..n : chain[i] = i
    OBVIOUS
  <2>2. /\ <<Blank>> \in Seq(Nat)
        /\ Len(<<Blank>>) = 1
        /\ <<Blank>>[1] = 0
    BY DEF Blank
  <2> HIDE DEF chain
  <2> QED
    BY <2>1, <2>2
<1> HIDE DEF refs
<1>3. Resolvable(refs) = 2..(n + 1)
  BY <1>2 DEF Resolvable, Blank
<1>4. ParseReferences(refs) = [k \in 1..(n + 1 - 2 + 1) |-> refs[2 + k - 1]]
  BY <1>3, ParseInterval
<1> QED
  BY <1>1, <1>2, <1>4

LEMMA ParseLast ==
  ASSUME NEW n \in Nat \ {0}
  PROVE  ParseReferences(References("last", n)) = <<n>>
<1> DEFINE refs == <<n>>
<1>1. References("last", n) = refs
  BY DEF References
<1>2. Resolvable(refs) = 1..1
  BY DEF Resolvable, Blank
<1>3. ParseReferences(refs) = [k \in 1..(1 - 1 + 1) |-> refs[1 + k - 1]]
  <2> HIDE DEF refs
  <2>1. \A a, b \in Nat : a <= b + 1 /\ Resolvable(refs) = a..b =>
          ParseReferences(refs) = [k \in 1..(b - a + 1) |-> refs[a + k - 1]]
    BY ParseInterval
  <2>2. 1 \in Nat /\ 1 <= 1 + 1
    OBVIOUS
  <2> QED
    BY <2>1, <2>2, <1>2, Zenon
<1>4. ParseReferences(refs) = [k \in 1..1 |-> refs[k]]
  BY <1>3
<1> QED
  BY <1>1, <1>4

-----------------------------------------------------------------------------
(* The inductive invariant *)

\* The chain: an Alert first and only first, a Cancel only last, everything else
\* refers back in one of the issuer's styles.
ChainOK ==
  \A n \in 1..Len(docs) :
    /\ docs[n].type = "Alert" <=> n = 1
    /\ n > 1 => \E style \in Styles : docs[n].refs = References(style, n - 1)
    /\ n < Len(docs) => docs[n].type # "Cancel"

\* A handler works on a document of the chain, and only a Cancel has something to
\* recall.
HandlersOK ==
  \A h \in Handlers :
    /\ req[h] = Idle <=> req[h].doc = 0
    /\ req[h].doc <= Len(docs)
    /\ req[h] # Idle /\ docs[req[h].doc].type # "Cancel" => req[h].left = << >>

\* The issuer waits for one answer at a time, to what it composed last.
WaitingOK ==
  /\ \A h \in Handlers : req[h].waited => req[h].doc = Len(docs) /\ answered < Len(docs)
  /\ \A g, h \in Handlers : req[g].waited /\ req[h].waited => g = h

\* Only the first document is ever an alert of its own.
FirstAlone == \A id \in Id : id # 1 => live[id] = Gone

\* A Cancel that goes on to something else has dealt with the first document.
FirstRecalled ==
  \A h \in Handlers :
    req[h] # Idle /\ docs[req[h].doc].type = "Cancel" =>
      \/ req[h].left # << >> /\ req[h].left[1] = 1
      \/ live[1] = Gone
      \/ late

\* What was answered is in force, if nothing came late.
AnsweredHolds ==
  docs # << >> /\ answered = Len(docs) /\ ~late =>
    live[1] = IF docs[Len(docs)].type = "Cancel" THEN Gone
              ELSE SeverityOf(docs[Len(docs)].content)

Structure == TypeOK /\ ChainOK /\ HandlersOK /\ WaitingOK
IInv == Structure /\ FirstAlone /\ FirstRecalled /\ AnsweredHolds

\* What a Cancel recalls are documents of the chain; ...
LEMMA ParsedType ==
  ASSUME TypeOK, ChainOK, NEW n \in 1..Len(docs), docs[n].type = "Cancel"
  PROVE  ParseReferences(docs[n].refs) \in Seq(Id)
<1>1. n > 1 /\ n - 1 \in Nat \ {0} /\ n <= MaxDocs /\ MaxDocs \in Nat
  BY CapAssumption DEF TypeOK, ChainOK
<1>2. PICK style \in Styles : docs[n].refs = References(style, n - 1)
  BY <1>1 DEF ChainOK
<1>3. CASE style = "chain" \/ style = "sloppy"
  <2>1. ParseReferences(docs[n].refs) = [k \in 1..(n - 1) |-> k]
    BY <1>1, <1>2, <1>3, ParseChain, ParseSloppy
  <2> QED
    BY <1>1, <2>1 DEF Id
<1>4. CASE style = "last"
  <2>1. ParseReferences(docs[n].refs) = <<n - 1>>
    BY <1>1, <1>2, <1>4, ParseLast
  <2>2. n - 1 \in Id
    BY <1>1 DEF Id
  <2> QED
    BY <2>1, <2>2
<1> QED
  BY <1>3, <1>4, CapAssumption

\* ... and if issuers fill in the whole chain, it begins with the first one, whose
\* id every Update keeps.
LEMMA ParsedFirst ==
  ASSUME TypeOK, ChainOK, Styles \subseteq {"chain", "sloppy"}, NEW n \in 1..Len(docs), n > 1
  PROVE  /\ ParseReferences(docs[n].refs) # << >>
         /\ ParseReferences(docs[n].refs)[1] = 1
<1>1. PICK style \in Styles : docs[n].refs = References(style, n - 1)
  BY DEF ChainOK
<1>2. n - 1 \in Nat \ {0}
  OBVIOUS
<1>3. ParseReferences(docs[n].refs) = [k \in 1..(n - 1) |-> k]
  BY <1>1, <1>2, ParseChain, ParseSloppy
<1> QED
  BY <1>2, <1>3

LEMMA OneId ==
  ASSUME TypeOK, ChainOK, Styles \subseteq {"chain", "sloppy"},
         NEW n \in 1..Len(docs), docs[n].type # "Cancel"
  PROVE  AlertID(n) = 1
<1>1. CASE n = 1
  BY <1>1 DEF AlertID, ChainOK
<1>2. CASE n > 1
  <2>0. docs[n] \in Doc
    BY DEF TypeOK
  <2>1. docs[n].type \in MsgType /\ docs[n].type # "Alert"
    BY <1>2, <2>0 DEF Doc, ChainOK
  <2> QED
    BY <1>2, <2>1, ParsedFirst DEF AlertID, MsgType
<1> QED
  BY <1>1, <1>2

LEMMA ReferencesType ==
  ASSUME NEW style \in Styles, NEW n \in 1..MaxDocs
  PROVE  References(style, n) \in Seq(0..MaxDocs)
<1>1. MaxDocs \in Nat /\ n \in 0..MaxDocs /\ n \in Nat
  BY CapAssumption
<1>2. [i \in 1..n |-> i] \in Seq(0..MaxDocs)
  BY <1>1
<1>3. <<Blank>> \in Seq(0..MaxDocs)
  BY <1>1 DEF Blank
<1>4. CASE style = "chain"
  BY <1>2, <1>4 DEF References
<1>5. CASE style = "sloppy"
  <2> DEFINE chain == [i \in 1..n |-> i]
  <2>1. References(style, n) = <<Blank>> \o chain
    BY <1>5 DEF References
  <2>2. chain \in Seq(0..MaxDocs)
    BY <1>2
  <2> HIDE DEF chain
  <2> QED
    BY <1>3, <2>1, <2>2
<1>6. CASE style = "last"
  BY <1>1, <1>6 DEF References
<1> QED
  BY <1>4, <1>5, <1>6, CapAssumption

-----------------------------------------------------------------------------
(* Types, the chain and the handlers, for every style of references.        *)

LEMMA StructureInit == Init => Structure
<1> SUFFICES ASSUME Init PROVE Structure
  OBVIOUS
<1>1. /\ Idle \in Request /\ Idle.doc = 0 /\ ~Idle.waited
      /\ MaxDocs \in Nat /\ MaxTimeouts \in Nat /\ MaxFailures \in Nat
  BY CapAssumption DEF Idle, Request
<1>2. TypeOK
  <2>1. << >> \in Seq(Doc) /\ Len(<< >>) = 0 /\ Gone \in Severity \cup {Gone}
    OBVIOUS
  <2>2. docs \in Seq(Doc) /\ Len(docs) = 0 /\ answered = 0
    BY <2>1 DEF Init
  <2>3. Len(docs) <= MaxDocs /\ answered \in 0..Len(docs)
    BY <1>1, <2>2
  <2>4. req \in [Handlers -> Request] /\ live \in [Id -> Severity \cup {Gone}]
    BY <1>1, <2>1 DEF Init
  <2>5. timeouts \in 0..MaxTimeouts /\ failures \in 0..MaxFailures
    BY <1>1 DEF Init
  <2>6. late \in BOOLEAN
    BY DEF Init
  <2> QED
    BY <2>2, <2>3, <2>4, <2>5, <2>6 DEF TypeOK
<1> QED
  BY <1>1, <1>2 DEF Init, Structure, ChainOK, HandlersOK, WaitingOK

\* A handler returns, or goes on with the document it works on.
LEMMA HandlerStep ==
  ASSUME Structure, NEW h \in Handlers, UNCHANGED docs,
         NEW r \in Request, req' = [req EXCEPT ![h] = r], req[h].doc # 0,
         \/ r = Idle
         \/ /\ r.doc = req[h].doc
            /\ req[h].left = << >> => r.left = << >>
            /\ r.waited => req[h].waited,
         \/ answered' = answered
         \/ answered' = req[h].doc /\ req[h].waited /\ r = Idle,
         live' \in [Id -> Severity \cup {Gone}],
         timeouts' \in 0..MaxTimeouts, failures' \in 0..MaxFailures, late' \in BOOLEAN
  PROVE  Structure'
<1> USE DEF Structure
<1>1. Idle.doc = 0 /\ ~Idle.waited
  BY DEF Idle
<1>2. /\ Len(docs) \in Nat /\ req[h] \in Request /\ req[h].doc \in Nat
      /\ req[h].doc <= Len(docs) /\ req[h] # Idle /\ answered \in 0..Len(docs)
      /\ r.doc \in Nat
  BY <1>1, CapAssumption DEF TypeOK, HandlersOK, Request
<1>3. TypeOK'
  BY <1>2 DEF TypeOK
<1>4. ChainOK'
  BY DEF ChainOK
<1>5. HandlersOK'
  <2> SUFFICES ASSUME NEW g \in Handlers
               PROVE  /\ req'[g] = Idle <=> req'[g].doc = 0
                      /\ req'[g].doc <= Len(docs)
                      /\ req'[g] # Idle /\ docs[req'[g].doc].type # "Cancel" =>
                           req'[g].left = << >>
    BY DEF HandlersOK
  <2>1. CASE g = h
    BY <1>1, <1>2, <2>1 DEF TypeOK, HandlersOK
  <2>2. CASE g # h
    BY <2>2 DEF TypeOK, HandlersOK
  <2> QED
    BY <2>1, <2>2
<1>6. WaitingOK'
  <2>1. \A g \in Handlers : req'[g].waited => req[g].waited /\ req'[g].doc = req[g].doc
    BY <1>1, <1>2 DEF TypeOK
  <2>2. answered' # answered => \A g \in Handlers : ~req'[g].waited
    BY <1>1, <2>1 DEF WaitingOK, TypeOK
  <2> QED
    BY <2>1, <2>2 DEF WaitingOK
<1> QED
  BY <1>3, <1>4, <1>5, <1>6

\* What a step of Return leaves of a handler.
LEMMA ReturnStep ==
  ASSUME Structure, NEW h \in Handlers, NEW ok \in BOOLEAN, Return(h, ok)
  PROVE  /\ Idle \in Request
         /\ req' = [req EXCEPT ![h] = Idle]
         /\ \/ answered' = answered
            \/ answered' = req[h].doc /\ req[h].waited
BY CapAssumption DEF Return, Idle, Request

LEMMA RefusedType ==
  ASSUME TypeOK, Refused PROVE failures' \in 0..MaxFailures
BY CapAssumption DEF TypeOK, Refused

LEMMA StructureStep == Structure /\ [Next]_vars => Structure'
<1> SUFFICES ASSUME Structure, [Next]_vars PROVE Structure'
  OBVIOUS
<1> USE DEF Structure
<1>0. /\ MaxDocs \in Nat /\ MaxTimeouts \in Nat /\ MaxFailures \in Nat
      /\ Idle \in Request /\ Idle.doc = 0 /\ ~Idle.waited
      /\ Contents \subseteq Content
  BY CapAssumption DEF Idle, Request
<1>1. CASE Compose
  <2>1. PICK doc \in Doc :
          /\ docs' = Append(docs, doc)
          /\ doc.type = "Alert" <=> docs = << >>
          /\ docs # << >> => \E style \in Styles : doc.refs = References(style, Len(docs))
    <3>1. PICK content \in Contents :
            \/ /\ docs = << >>
               /\ docs' = <<[type |-> "Alert", refs |-> << >>, content |-> content]>>
            \/ /\ docs # << >>
               /\ \E type \in {"Update", "Cancel"}, style \in Styles :
                    docs' = Append(docs, [type |-> type, refs |-> References(style, Len(docs)),
                                          content |-> content])
      BY <1>1 DEF Compose
    <3>2. CASE docs = << >>
      <4> DEFINE doc == [type |-> "Alert", refs |-> << >>, content |-> content]
      <4>1. doc \in Doc /\ docs' = Append(docs, doc) /\ doc.type = "Alert"
        BY <3>1, <3>2 DEF Doc, MsgType
      <4> QED
        BY <3>2, <4>1
    <3>3. CASE docs # << >>
      <4>1. PICK type \in {"Update", "Cancel"}, style \in Styles :
              docs' = Append(docs, [type |-> type, refs |-> References(style, Len(docs)),
                                    content |-> content])
        BY <3>1, <3>3
      <4> DEFINE doc == [type |-> type, refs |-> References(style, Len(docs)),
                         content |-> content]
      <4>2. References(style, Len(docs)) \in Seq(0..MaxDocs)
        BY <3>3, ReferencesType DEF TypeOK
      <4>3. /\ doc \in Doc /\ doc.type # "Alert"
            /\ doc.refs = References(style, Len(docs))
        BY <4>2 DEF Doc, MsgType
      <4> QED
        BY <3>3, <4>1, <4>3
    <3> QED
      BY <3>2, <3>3
  <2>2. /\ answered = Len(docs) /\ Len(docs) < MaxDocs
        /\ docs # << >> => docs[Len(docs)].type # "Cancel"
        /\ UNCHANGED <<answered, timeouts, req, live, failures, late>>
    BY <1>1 DEF Compose
  <2>3. /\ Len(docs') = Len(docs) + 1
        /\ docs' \in Seq(Doc)
        /\ \A n \in 1..Len(docs) : docs'[n] = docs[n]
        /\ docs'[Len(docs) + 1] = doc
    BY <2>1 DEF TypeOK
  <2>4. \A h \in Handlers : ~req[h].waited
    BY <2>2 DEF WaitingOK, TypeOK
  <2>5. TypeOK'
    BY <1>0, <2>2, <2>3 DEF TypeOK
  <2>6. ChainOK'
    <3> SUFFICES ASSUME NEW n \in 1..Len(docs')
                 PROVE  /\ docs'[n].type = "Alert" <=> n = 1
                        /\ n > 1 => \E style \in Styles : docs'[n].refs = References(style, n - 1)
                        /\ n < Len(docs') => docs'[n].type # "Cancel"
      BY DEF ChainOK
    <3>1. CASE n \in 1..Len(docs)
      BY <2>2, <2>3, <3>1 DEF ChainOK, TypeOK
    <3>2. CASE n = Len(docs) + 1
      BY <2>1, <2>3, <3>2 DEF TypeOK
    <3> QED
      BY <2>3, <3>1, <3>2 DEF TypeOK
  <2>7. HandlersOK'
    BY <1>0, <2>2, <2>3 DEF HandlersOK, TypeOK, Request
  <2>8. WaitingOK'
    BY <2>2, <2>4 DEF WaitingOK
  <2> QED
    BY <2>5, <2>6, <2>7, <2>8
<1>2. ASSUME NEW h \in Handlers, Post(h) PROVE Structure'
  <2> DEFINE n == Len(docs)
             r == [doc |-> n,
                   left |-> IF docs[n].type = "Cancel" THEN ParseReferences(docs[n].refs)
                            ELSE << >>,
                   waited |-> TRUE]
  <2>1. /\ n \in 1..MaxDocs /\ n \in 1..Len(docs)
        /\ answered < n
        /\ req' = [req EXCEPT ![h] = r]
        /\ \A g \in Handlers : ~req[g].waited
        /\ UNCHANGED <<docs, answered, timeouts, live, failures, late>>
    BY <1>2 DEF Post, issuerVars, TypeOK
  <2>2. r.left \in Seq(Id)
    BY <2>1, ParsedType
  <2>3. r \in Request /\ r # Idle
    BY <1>0, <2>1, <2>2 DEF Request
  <2>4. TypeOK'
    BY <2>1, <2>3 DEF TypeOK
  <2>5. /\ r.doc = n /\ r.waited
        /\ docs[n].type # "Cancel" => r.left = << >>
    OBVIOUS
  <2> HIDE DEF r
  <2>6. HandlersOK'
    BY <1>0, <2>1, <2>3, <2>5 DEF HandlersOK, TypeOK
  <2>7. WaitingOK'
    BY <1>0, <2>1, <2>3, <2>5 DEF WaitingOK, TypeOK
  <2> QED
    BY <2>1, <2>4, <2>6, <2>7 DEF ChainOK
<1>3. ASSUME NEW h \in Handlers, TimeOut(h) PROVE Structure'
  <2> DEFINE r == [req[h] EXCEPT !.waited = FALSE]
  <2>1. /\ req[h] \in Request /\ req[h].waited
        /\ req' = [req EXCEPT ![h] = r]
        /\ timeouts' \in 0..MaxTimeouts
        /\ UNCHANGED <<docs, answered, live, failures, late>>
    BY <1>0, <1>3 DEF TimeOut, TypeOK
  <2>2. /\ r \in Request /\ r.doc = req[h].doc /\ r.left = req[h].left /\ ~r.waited
    BY <2>1 DEF Request
  <2>3. req[h].doc # 0
    BY <1>0, <2>1 DEF HandlersOK
  <2> HIDE DEF r
  <2> QED
    BY <2>1, <2>2, <2>3, HandlerStep DEF TypeOK
<1>4. ASSUME NEW h \in Handlers, Ingest(h) PROVE Structure'
  <2> DEFINE n == req[h].doc
  <2>1. n # 0 /\ n \in 1..Len(docs) /\ docs[n] \in Doc
    BY <1>4 DEF Ingest, HandlersOK, TypeOK, Request
  <2>2. SeverityOf(docs[n].content) \in Severity
    BY <1>0, <2>1, SeverityOfType DEF Doc
  <2>3. PICK ok \in BOOLEAN : Return(h, ok)
    BY <1>4 DEF Ingest
  <2>4. /\ live' \in [Id -> Severity \cup {Gone}]
        /\ failures' \in 0..MaxFailures /\ late' \in BOOLEAN
        /\ UNCHANGED <<docs, timeouts>>
    BY <1>4, <2>2, RefusedType DEF Ingest, TypeOK
  <2> QED
    BY <2>1, <2>3, <2>4, ReturnStep, HandlerStep DEF TypeOK
<1>5. ASSUME NEW h \in Handlers, Cancel(h) PROVE Structure'
  <2>1. /\ req[h].doc # 0 /\ req[h] \in Request
        /\ UNCHANGED <<docs, timeouts, late>>
    BY <1>5 DEF Cancel, HandlersOK, TypeOK
  <2>2. CASE /\ req[h].left # << >>
             /\ live' = [live EXCEPT ![req[h].left[1]] = Gone]
             /\ req' = [req EXCEPT ![h].left = Tail(@)]
             /\ UNCHANGED <<failures, answered>>
    <3> DEFINE r == [req[h] EXCEPT !.left = Tail(@)]
    <3>1. /\ req' = [req EXCEPT ![h] = r]
          /\ live' \in [Id -> Severity \cup {Gone}]
      BY <2>1, <2>2 DEF TypeOK
    <3>2. Tail(req[h].left) \in Seq(Id)
      BY <2>1, <2>2 DEF Request
    <3>3. /\ r \in Request /\ r.doc = req[h].doc /\ r.waited = req[h].waited
      BY <2>1, <3>2 DEF Request
    <3> HIDE DEF r
    <3> QED
      BY <2>1, <2>2, <3>1, <3>3, HandlerStep DEF TypeOK
  <2>3. CASE \E ok \in BOOLEAN : Return(h, ok) /\ (Refused \/ UNCHANGED failures) /\ UNCHANGED live
    <3>1. failures' \in 0..MaxFailures
      BY <2>3, RefusedType DEF TypeOK
    <3> QED
      BY <2>1, <2>3, <3>1, ReturnStep, HandlerStep DEF TypeOK
  <2> QED
    BY <1>5, <2>2, <2>3 DEF Cancel, Recall
<1>6. CASE UNCHANGED vars
  BY <1>6 DEF vars, issuerVars, TypeOK, ChainOK, HandlersOK, WaitingOK
<1> QED
  BY <1>1, <1>2, <1>3, <1>4, <1>5, <1>6 DEF Next

\* Documents, handlers and alerts keep their types, and the issuer never takes a
\* document as accepted that it has not composed, whatever style it refers in.
THEOREM TypeCorrect == Spec => []TypeOK
<1>1. Init => Structure
  BY StructureInit
<1>2. Structure /\ [Next]_vars => Structure'
  BY StructureStep
<1>3. Structure => TypeOK
  BY DEF Structure
<1> QED
  BY <1>1, <1>2, <1>3, PTL DEF Spec

-----------------------------------------------------------------------------
(* The safety properties, for issuers that refer to the whole chain.        *)

LEMMA InvInit == Init => IInv
BY StructureInit DEF Init, IInv, FirstAlone, FirstRecalled, AnsweredHolds, Id

\* An accepted document other than a Cancel is in force as the first one's alert.
LEMMA IngestStep ==
  ASSUME IInv, Styles \subseteq {"chain", "sloppy"}, NEW h \in Handlers, Ingest(h)
  PROVE  FirstAlone' /\ FirstRecalled' /\ AnsweredHolds'
<1> USE DEF IInv, Structure
<1> DEFINE n == req[h].doc
<1>1. /\ n \in 1..Len(docs) /\ n # 0 /\ docs[n] \in Doc /\ docs[n].type # "Cancel"
      /\ UNCHANGED docs
      /\ 1 \in Id /\ Len(docs) \in Nat
  BY CapAssumption DEF Ingest, HandlersOK, TypeOK, Request, Id
<1>2. AlertID(n) = 1
  BY <1>1, OneId
<1>3. CASE /\ live' = [live EXCEPT ![AlertID(n)] = SeverityOf(docs[n].content)]
           /\ late' = (late \/ n < Len(docs))
           /\ Return(h, TRUE)
  <2>1. /\ req' = [req EXCEPT ![h] = Idle]
        /\ answered' = IF req[h].waited THEN n ELSE answered
    BY <1>3 DEF Return
  <2>2. live' = [live EXCEPT ![1] = SeverityOf(docs[n].content)]
    BY <1>2, <1>3
  <2>0. ~late' => ~late /\ n = Len(docs)
    <3>1. late' <=> (late \/ n < Len(docs))
      BY <1>3, Zenon
    <3>2. n \in Nat /\ n <= Len(docs)
      BY <1>1
    <3> QED
      BY <1>1, <3>1, <3>2
  <2>3. FirstAlone'
    BY <2>2 DEF FirstAlone, TypeOK
  <2>4. FirstRecalled'
    <3> SUFFICES ASSUME NEW g \in Handlers, req'[g] # Idle, docs[req'[g].doc].type = "Cancel", ~late'
                 PROVE  req'[g].left # << >> /\ req'[g].left[1] = 1
      BY <1>1 DEF FirstRecalled
    <3>1. g # h /\ req'[g] = req[g]
      BY <2>1 DEF TypeOK
    <3>2. n = Len(docs) /\ req[g].doc \in 1..Len(docs)
      BY <1>1, <2>0, <3>1, CapAssumption DEF HandlersOK, TypeOK, Request
    <3> QED
      BY <1>1, <3>1, <3>2 DEF ChainOK
  <2>5. AnsweredHolds'
    <3> SUFFICES ASSUME docs # << >>, ~late'
                 PROVE  live'[1] = IF docs[Len(docs)].type = "Cancel" THEN Gone
                                   ELSE SeverityOf(docs[Len(docs)].content)
      BY <1>1 DEF AnsweredHolds
    <3>1. n = Len(docs)
      BY <2>0
    <3> QED
      BY <1>1, <2>2, <3>1 DEF TypeOK
  <2> QED
    BY <2>3, <2>4, <2>5
<1>4. CASE Return(h, FALSE) /\ UNCHANGED <<live, late>>
  <2>1. req' = [req EXCEPT ![h] = Idle] /\ UNCHANGED answered
    BY <1>4 DEF Return
  <2> QED
    BY <1>1, <1>4, <2>1 DEF FirstAlone, FirstRecalled, AnsweredHolds, TypeOK
<1> QED
  BY <1>3, <1>4 DEF Ingest

\* A Cancel recalls the first document before it is answered.
LEMMA CancelStep ==
  ASSUME IInv, NEW h \in Handlers, Cancel(h)
  PROVE  FirstAlone' /\ FirstRecalled' /\ AnsweredHolds'
<1> USE DEF IInv, Structure
<1>1. /\ req[h].doc \in 1..Len(docs) /\ req[h] # Idle /\ docs[req[h].doc].type = "Cancel"
      /\ req[h].doc = Len(docs)
      /\ UNCHANGED <<docs, late>>
      /\ 1 \in Id /\ Len(docs) \in Nat /\ req[h] \in Request
  BY CapAssumption DEF Cancel, HandlersOK, ChainOK, TypeOK, Request, Id
<1>2. CASE /\ req[h].left # << >>
           /\ live' = [live EXCEPT ![req[h].left[1]] = Gone]
           /\ req' = [req EXCEPT ![h].left = Tail(@)]
           /\ UNCHANGED answered
  <2>1. live' \in [Id -> Severity \cup {Gone}] /\ \A id \in Id : live'[id] = live[id] \/ live'[id] = Gone
    BY <1>2 DEF TypeOK
  <2>2. live[1] = Gone => live'[1] = Gone
    BY <1>1, <2>1
  <2>3. FirstAlone'
    BY <2>1 DEF FirstAlone
  <2>4. FirstRecalled'
    <3> SUFFICES ASSUME NEW g \in Handlers, req'[g] # Idle, docs[req'[g].doc].type = "Cancel", ~late,
                        live'[1] # Gone
                 PROVE  req'[g].left # << >> /\ req'[g].left[1] = 1
      BY <1>1 DEF FirstRecalled
    <3>1. req[h].left[1] # 1
      BY <1>1, <1>2 DEF TypeOK
    <3>2. live[1] = Gone
      BY <1>1, <3>1 DEF FirstRecalled
    <3> QED
      BY <2>2, <3>2
  <2>5. AnsweredHolds'
    BY <1>1, <1>2, <2>2 DEF AnsweredHolds
  <2> QED
    BY <2>3, <2>4, <2>5
<1>3. CASE UNCHANGED live /\ \E ok \in BOOLEAN : Return(h, ok) /\ (ok => req[h].left = << >>)
  <2>1. PICK ok \in BOOLEAN : Return(h, ok) /\ (ok => req[h].left = << >>)
    BY <1>3
  <2>2. /\ req' = [req EXCEPT ![h] = Idle]
        /\ answered' = IF ok /\ req[h].waited THEN req[h].doc ELSE answered
    BY <2>1 DEF Return
  <2>3. FirstAlone' /\ FirstRecalled'
    BY <1>1, <1>3, <2>2 DEF FirstAlone, FirstRecalled, TypeOK
  <2>4. AnsweredHolds'
    BY <1>1, <1>3, <2>1, <2>2 DEF AnsweredHolds, FirstRecalled
  <2> QED
    BY <2>3, <2>4
<1> QED
  BY <1>2, <1>3 DEF Cancel, Recall

LEMMA InvStep ==
  ASSUME Styles \subseteq {"chain", "sloppy"}, IInv, [Next]_vars
  PROVE  IInv'
<1> USE DEF IInv
<1>0. Structure'
  BY StructureStep
<1>1. CASE Compose
  <2> USE <1>1 DEF Structure
  <2>1. /\ answered = Len(docs) /\ Len(docs') # Len(docs)
        /\ \A n \in 1..Len(docs) : docs'[n] = docs[n]
        /\ UNCHANGED <<answered, req, live, late>>
    <3>1. PICK content \in Contents :
            \/ docs = << >> /\ docs' = <<[type |-> "Alert", refs |-> << >>, content |-> content]>>
            \/ \E type \in {"Update", "Cancel"}, style \in Styles :
                 docs' = Append(docs, [type |-> type, refs |-> References(style, Len(docs)),
                                       content |-> content])
      BY DEF Compose
    <3>2. CASE docs = << >> /\ docs' = <<[type |-> "Alert", refs |-> << >>, content |-> content]>>
      BY <3>2 DEF Compose, TypeOK
    <3>3. CASE \E type \in {"Update", "Cancel"}, style \in Styles :
                 docs' = Append(docs, [type |-> type, refs |-> References(style, Len(docs)),
                                       content |-> content])
      BY <3>3 DEF Compose, TypeOK
    <3> QED
      BY <3>1, <3>2, <3>3
  <2>2. FirstAlone'
    BY <2>1 DEF FirstAlone
  <2>3. FirstRecalled'
    BY <2>1, CapAssumption DEF FirstRecalled, HandlersOK, TypeOK, Request
  <2>4. AnsweredHolds'
    BY <2>1 DEF AnsweredHolds
  <2> QED
    BY <1>0, <2>2, <2>3, <2>4
<1>2. ASSUME NEW h \in Handlers, Post(h) PROVE IInv'
  <2> USE DEF Structure
  <2> DEFINE n == Len(docs)
             r == [doc |-> n,
                   left |-> IF docs[n].type = "Cancel" THEN ParseReferences(docs[n].refs)
                            ELSE << >>,
                   waited |-> TRUE]
  <2>1. /\ n \in 1..Len(docs)
        /\ req' = [req EXCEPT ![h] = r]
        /\ UNCHANGED <<docs, answered, live, late>>
    BY <1>2 DEF Post, issuerVars, TypeOK
  <2>2. docs[n].type = "Cancel" => r.left # << >> /\ r.left[1] = 1
    BY <2>1, ParsedFirst DEF ChainOK
  <2>3. r.doc = n
    OBVIOUS
  <2> HIDE DEF r
  <2>4. FirstRecalled'
    BY <2>1, <2>2, <2>3 DEF FirstRecalled, TypeOK
  <2> QED
    BY <1>0, <2>1, <2>4 DEF FirstAlone, AnsweredHolds
<1>3. ASSUME NEW h \in Handlers, TimeOut(h) PROVE IInv'
  <2> USE DEF Structure
  <2>1. /\ req[h].waited /\ req[h] # Idle /\ req[h] \in Request
        /\ req' = [req EXCEPT ![h].waited = FALSE]
        /\ UNCHANGED <<docs, answered, live, late>>
    BY <1>3 DEF TimeOut, TypeOK, Idle
  <2>2. \A g \in Handlers : /\ req'[g].doc = req[g].doc
                            /\ req'[g].left = req[g].left
                            /\ req'[g] # Idle => req[g] # Idle
    BY <2>1 DEF TypeOK, Request
  <2>3. FirstRecalled'
    BY <2>1, <2>2 DEF FirstRecalled
  <2> QED
    BY <1>0, <2>1, <2>3 DEF FirstAlone, AnsweredHolds
<1>4. ASSUME NEW h \in Handlers, Ingest(h) PROVE IInv'
  BY <1>0, <1>4, IngestStep
<1>5. ASSUME NEW h \in Handlers, Cancel(h) PROVE IInv'
  BY <1>0, <1>5, CancelStep
<1>6. CASE UNCHANGED vars
  BY <1>0, <1>6 DEF vars, issuerVars, FirstAlone, FirstRecalled, AnsweredHolds
<1> QED
  BY <1>1, <1>2, <1>3, <1>4, <1>5, <1>6 DEF Next

\* cap_handlers.go:46-68: if issuers refer to everything before a document, with
\* or without entries that do not resolve, one incident is never two alerts.
THEOREM OneAlert ==
  ASSUME Styles \subseteq {"chain", "sloppy"}
  PROVE  Spec => []OneAlertPerIncident
<1>1. Init => IInv
  BY InvInit
<1>2. IInv /\ [Next]_vars => IInv'
  BY InvStep
<1>3. IInv => OneAlertPerIncident
  BY DEF IInv, FirstAlone, OneAlertPerIncident
<1> QED
  BY <1>1, <1>2, <1>3, PTL DEF Spec

\* cap_handlers.go:97-121: what was answered last is what is in force, and an
\* answered Cancel has recalled everything, whatever attempts failed before it.
THEOREM LastWord ==
  ASSUME Styles \subseteq {"chain", "sloppy"}
  PROVE  Spec => []LastWordHolds
<1>1. Init => IInv
  BY InvInit
<1>2. IInv /\ [Next]_vars => IInv'
  BY InvStep
<1>3. IInv => LastWordHolds
  <2> SUFFICES ASSUME IInv, docs # << >>, answered = Len(docs), ~late
               PROVE  LET last == docs[Len(docs)]
                      IN  IF last.type = "Cancel" THEN \A id \in Id : live[id] = Gone
                          ELSE live[AlertID(Len(docs))] = SeverityOf(last.content)
    BY DEF LastWordHolds
  <2>1. Len(docs) \in 1..Len(docs)
    BY DEF IInv, Structure, TypeOK
  <2>2. CASE docs[Len(docs)].type = "Cancel"
    BY <2>2 DEF IInv, FirstAlone, AnsweredHolds
  <2>3. CASE docs[Len(docs)].type # "Cancel"
    <3>1. AlertID(Len(docs)) = 1
      BY <2>1, <2>3, OneId DEF IInv, Structure
    <3> QED
      BY <2>3, <3>1 DEF IInv, AnsweredHolds
  <2> QED
    BY <2>2, <2>3
<1> QED
  BY <1>1, <1>2, <1>3, PTL DEF Spec
=============================================================================
