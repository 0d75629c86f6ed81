-------------------------------- MODULE Cap --------------------------------
(***************************************************************************)
(* CAP ingest (server/internal/api/cap_handlers.go): an issuer reports one *)
(* incident in a chain of documents (an Alert, Updates, perhaps a Cancel), *)
(* posts each of them until it is answered, and gives up waiting at times, *)
(* while the handler it gave up on goes on.                                *)
(*                                                                         *)
(* The issuer composes a document once the one before was answered.        *)
(* AlertID is a hash of (sender, identifier) and injective here: an alert  *)
(* is named by the number of the document that created it.                 *)
(***************************************************************************)
EXTENDS CapMapping, Sequences, FiniteSets

CONSTANTS
  Handlers,      \* HTTP requests in flight at once
  Contents,      \* what documents say
  Styles,        \* how the issuer fills <references>
  MaxDocs,       \* bound on the chain
  MaxTimeouts,   \* bound on requests the issuer gives up on
  MaxFailures    \* bound on broadcasts the broker refuses

ASSUME CapAssumption ==
  /\ Contents \subseteq Content
  /\ Styles \subseteq {"chain", "sloppy", "last"}
  /\ {MaxDocs, MaxTimeouts, MaxFailures} \subseteq Nat

VARIABLES
  docs,       \* the chain, in order
  answered,   \* how many of them the issuer knows to be accepted
  req,        \* per handler, what it is doing
  live,       \* per alert, the severity of its last broadcast, Gone if recalled
  timeouts,   \* requests given up so far
  failures,   \* broadcasts refused so far
  late        \* an abandoned handler published after the next document was composed

issuerVars == <<docs, answered, timeouts>>
vars == <<issuerVars, req, live, failures, late>>

Gone   == -1
Id     == 1..MaxDocs
Blank  == 0        \* a reference without an identifier
MsgType == {"Alert", "Update", "Cancel"}
Doc    == [type : MsgType, refs : Seq(0..MaxDocs), content : Contents]

Idle    == [doc |-> 0, left |-> << >>, waited |-> FALSE]
Request == [doc : 0..MaxDocs, left : Seq(Id), waited : BOOLEAN]

-----------------------------------------------------------------------------
(* The issuer *)

\* The references of the document after the first n: all of them, oldest first, as
\* they are or behind an entry without an identifier, or the last one only.
References(style, n) ==
  LET chain == [i \in 1..n |-> i]
  IN  CASE style = "chain"  -> chain
        [] style = "sloppy" -> <<Blank>> \o chain
        [] style = "last"   -> <<n>>

Compose ==
  /\ answered = Len(docs)
  /\ Len(docs) < MaxDocs
  /\ \E content \in Contents :
       \/ /\ docs = << >>
          /\ docs' = <<[type |-> "Alert", refs |-> << >>, content |-> content]>>
       \/ /\ docs # << >>
          /\ docs[Len(docs)].type # "Cancel"
          /\ \E type \in {"Update", "Cancel"}, style \in Styles :
               docs' = Append(docs, [type |-> type, refs |-> References(style, Len(docs)),
                                     content |-> content])
  /\ UNCHANGED <<answered, timeouts, req, live, failures, late>>

-----------------------------------------------------------------------------
(* The handlers *)

\* The places of the references with an identifier.
Resolvable(refs) == {i \in DOMAIN refs : refs[i] # Blank}

\* Where the k-th of them stands.
Upto(refs, i) == {j \in Resolvable(refs) : j <= i}
Place(refs, k) == CHOOSE i \in Resolvable(refs) : Cardinality(Upto(refs, i)) = k

\* ParseReferences: entries without an identifier are dropped, the others keep
\* their order.
ParseReferences(refs) ==
  [k \in 1..Cardinality(Resolvable(refs)) |-> refs[Place(refs, k)]]

\* Fault variant: an Update is an alert of its own.
AlertIDOwn(n) == n

\* An Update takes over the id of the first alert it references.
AlertID(n) ==
  LET refs == ParseReferences(docs[n].refs)
  IN  IF docs[n].type = "Update" /\ refs # << >> THEN refs[1] ELSE n

\* The issuer posts what was not answered yet.
Post(h) ==
  /\ req[h] = Idle
  /\ answered < Len(docs)
  /\ \A g \in Handlers : ~req[g].waited
  /\ LET n == Len(docs)
     IN  req' = [req EXCEPT ![h] =
                  [ doc    |-> n,
                    left   |-> IF docs[n].type = "Cancel" THEN ParseReferences(docs[n].refs)
                               ELSE << >>,
                    waited |-> TRUE ]]
  /\ UNCHANGED <<issuerVars, live, failures, late>>

\* The issuer stops waiting; the handler does not notice.
TimeOut(h) ==
  /\ req[h].waited
  /\ timeouts < MaxTimeouts
  /\ timeouts' = timeouts + 1
  /\ req' = [req EXCEPT ![h].waited = FALSE]
  /\ UNCHANGED <<docs, answered, live, failures, late>>

\* The handler returns, with or without success, to whoever still waits.
Return(h, ok) ==
  /\ req' = [req EXCEPT ![h] = Idle]
  /\ answered' = IF ok /\ req[h].waited THEN req[h].doc ELSE answered

Refused ==
  /\ failures < MaxFailures
  /\ failures' = failures + 1

\* handleCAPIngest: PublishAlert, or 502.
Ingest(h) ==
  LET n == req[h].doc
  IN  /\ req[h] # Idle
      /\ docs[n].type # "Cancel"
      /\ \/ /\ live' = [live EXCEPT ![AlertID(n)] = SeverityOf(docs[n].content)]
            /\ late' = (late \/ n < Len(docs))
            /\ Return(h, TRUE)
            /\ UNCHANGED failures
         \/ /\ Refused
            /\ Return(h, FALSE)
            /\ UNCHANGED <<live, late>>
      /\ UNCHANGED <<docs, timeouts>>

\* Fault variant: recalling what is not in force is an error.
RecallKnown(h) ==
  LET id == req[h].left[1]
  IN  \/ /\ live[id] # Gone
         /\ live' = [live EXCEPT ![id] = Gone]
         /\ req' = [req EXCEPT ![h].left = Tail(@)]
         /\ UNCHANGED <<failures, answered>>
      \/ /\ live[id] = Gone
         /\ Return(h, FALSE)
         /\ UNCHANGED <<live, failures>>
      \/ Refused /\ Return(h, FALSE) /\ UNCHANGED live

\* Fault variant: a recall that failed is skipped.
RecallOrSkip(h) ==
  /\ \/ /\ live' = [live EXCEPT ![req[h].left[1]] = Gone]
        /\ UNCHANGED failures
     \/ Refused /\ UNCHANGED live
  /\ req' = [req EXCEPT ![h].left = Tail(@)]
  /\ UNCHANGED answered

\* handleCAPCancel, one reference: CancelByID, or 502 for the whole document.
\* CancelByID does not ask whether the alert is in force.
Recall(h) ==
  \/ /\ live' = [live EXCEPT ![req[h].left[1]] = Gone]
     /\ req' = [req EXCEPT ![h].left = Tail(@)]
     /\ UNCHANGED <<failures, answered>>
  \/ Refused /\ Return(h, FALSE) /\ UNCHANGED live

\* A Cancel that references nothing is refused.
Cancel(h) ==
  /\ req[h] # Idle
  /\ docs[req[h].doc].type = "Cancel"
  /\ \/ req[h].left # << >> /\ Recall(h)
     \/ /\ req[h].left = << >>
        /\ Return(h, ParseReferences(docs[req[h].doc].refs) # << >>)
        /\ UNCHANGED <<live, failures>>
  /\ UNCHANGED <<docs, timeouts, late>>

Init ==
  /\ docs = << >>
  /\ answered = 0
  /\ req = [h \in Handlers |-> Idle]
  /\ live = [id \in Id |-> Gone]
  /\ timeouts = 0
  /\ failures = 0
  /\ late = FALSE

Next ==
  \/ Compose
  \/ \E h \in Handlers : Post(h) \/ TimeOut(h) \/ Ingest(h) \/ Cancel(h)

Spec == Init /\ [][Next]_vars

\* The issuer tries again until it is answered, and handlers run.
FairSpec ==
  /\ Spec
  /\ WF_vars(\E h \in Handlers : Post(h))
  /\ \A h \in Handlers : WF_vars(Ingest(h) \/ Cancel(h))

-----------------------------------------------------------------------------
(* Properties *)

TypeOK ==
  /\ docs \in Seq(Doc) /\ Len(docs) <= MaxDocs
  /\ answered \in 0..Len(docs)
  /\ req \in [Handlers -> Request]
  /\ live \in [Id -> Severity \cup {Gone}]
  /\ timeouts \in 0..MaxTimeouts
  /\ failures \in 0..MaxFailures
  /\ late \in BOOLEAN

\* An Update takes the place of what it supersedes: however often documents are
\* posted, refused and handled late, one incident is never two alerts.
OneAlertPerIncident ==
  \A i, j \in Id : live[i] # Gone /\ live[j] # Gone => i = j

\* What the issuer said last holds, and nothing else: a Cancel answered with
\* success has recalled everything, also if an earlier attempt at it stopped half
\* way.  The exception is a handler given up on that publishes after all.
LastWordHolds ==
  docs # << >> /\ answered = Len(docs) /\ ~late =>
    LET last == docs[Len(docs)]
    IN  IF last.type = "Cancel" THEN \A id \in Id : live[id] = Gone
        ELSE live[AlertID(Len(docs))] = SeverityOf(last.content)

\* A document that is posted again after a failure gets through in the end: what
\* an attempt has already done is no obstacle to the next.
RetrySettles ==
  \A n \in Id : (Len(docs) >= n) ~> (answered >= n)
=============================================================================
