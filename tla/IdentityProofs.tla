--------------------------- MODULE IdentityProofs ---------------------------
(***************************************************************************)
(* Proofs about Identity, for any number of requests in progress, people,  *)
(* secrets, lists of codes, failures and crashes: accounts are single and  *)
(* settled, the recovery codes tally, and what is enabled was confirmed.   *)
(* And about Ephemeral: what its maps keep to, for any number of users,    *)
(* entries, clients and restarts, and any lifetimes.                       *)
(***************************************************************************)
EXTENDS Identity, Ephemeral, TLAPS

-----------------------------------------------------------------------------
(* Types *)

LEMMA Numbers ==
  /\ MaxSecrets \in Nat /\ MaxLists \in Nat /\ MaxFailures \in Nat /\ MaxCrashes \in Nat
  /\ Admin \in Account /\ People \subseteq Account
BY IdentityAssumption DEF Account

LEMMA NothingTyped ==
  /\ NoRow \in Row /\ NoRow.on = FALSE /\ NoRow.secret = 0
  /\ Idle \in Request /\ Idle.op = "idle"
BY Numbers DEF NoRow, Row, Idle, Request, Op, Account

\* What a request may be turned into keeps the table of requests typed.
LEMMA StartTyped ==
  ASSUME NEW h \in Handlers, NEW op \in Op, NEW who \in Account, NEW row \in Row,
         NEW code \in Code \cup {<<0, 0>>}, NEW to \in {"none", "session", "disable"},
         req \in [Handlers -> Request], Start(h, op, who, row, code, to)
  PROVE  /\ req' \in [Handlers -> Request]
         /\ Up /\ req[h].op = "idle" /\ req'[h].op = op /\ req'[h].who = who
         /\ req'[h].row = row /\ req'[h].code = code /\ req'[h].to = to
         /\ \A g \in Handlers \ {h} : req'[g] = req[g]
BY NothingTyped DEF Start, Request

LEMMA GotoTyped ==
  ASSUME NEW h \in Handlers, NEW op \in Op, req \in [Handlers -> Request], Goto(h, op)
  PROVE  /\ req' \in [Handlers -> Request]
         /\ req'[h].op = op /\ req'[h].who = req[h].who
         /\ \A g \in Handlers \ {h} : req'[g] = req[g]
BY DEF Goto, Request

LEMMA DoneTyped ==
  ASSUME NEW h \in Handlers, req \in [Handlers -> Request], Done(h)
  PROVE  /\ req' \in [Handlers -> Request]
         /\ req'[h].op = "idle"
         /\ \A g \in Handlers \ {h} : req'[g] = req[g]
BY NothingTyped DEF Done

LEMMA FailsTyped ==
  ASSUME failures \in 0..MaxFailures, Fails
  PROVE  failures' \in 0..MaxFailures
BY Numbers DEF Fails

LEMMA TypeInit ==
  ASSUME Init
  PROVE  TypeOK
<1>1. /\ rows \in [Account -> Nat] /\ req \in [Handlers -> Request] /\ totp \in Row
      /\ made \in [secrets : 0..MaxSecrets, lists : 0..MaxLists]
      /\ failures \in 0..MaxFailures /\ crashes \in 0..MaxCrashes
  BY Numbers, NothingTyped DEF Init
<1>2. /\ {issued, spent} \subseteq SUBSET Code
      /\ {pending, torn, crossed, raced} \subseteq BOOLEAN
  BY DEF Init
<1> QED
  BY <1>1, <1>2 DEF Init, TypeOK

LEMMA TypeStart ==
  ASSUME TypeOK, Seed \/ Promote \/ Backfill \/ Crash \/ Lapse \/ Begin
  PROVE  TypeOK'
<1> USE Numbers, NothingTyped
<1>1. CASE Seed
  BY <1>1 DEF Seed, TypeOK, totpVars, signInVars
<1>2. CASE Promote
  BY <1>2 DEF Promote, TypeOK, totpVars, signInVars
<1>3. CASE Backfill
  BY <1>3, FailsTyped DEF Backfill, TypeOK, totpVars, signInVars
<1>4. CASE Crash
  BY <1>4 DEF Crash, TypeOK, totpVars
<1>5. CASE Lapse
  BY <1>5 DEF Lapse, TypeOK, accountVars, totpVars
<1>6. CASE Begin
  <2>1. Pending \in Row
    BY <1>6 DEF Begin, Pending, Row, TypeOK
  <2>2. made' \in [secrets : 0..MaxSecrets, lists : 0..MaxLists]
    BY <1>6 DEF Begin, TypeOK
  <2> QED
    BY <1>6, <2>1, <2>2 DEF Begin, TypeOK, accountVars, signInVars
<1> QED
  BY <1>1, <1>2, <1>3, <1>4, <1>5, <1>6

LEMMA TypeSignIn ==
  ASSUME TypeOK, NEW h \in Handlers,
         \/ \E n \in People : Callback(h, n)
         \/ Create(h) \/ Join(h) \/ SignIn(h) \/ Login(h) \/ Answer(h)
  PROVE  TypeOK'
<1> USE Numbers, NothingTyped
<1>0. req \in [Handlers -> Request] /\ req[h] \in Request /\ req[h].who \in Account
  BY DEF TypeOK, Request
<1>1. ASSUME NEW n \in People, Callback(h, n) PROVE TypeOK'
  <2>1. PICK op \in {"issue", "create"} : Start(h, op, n, NoRow, <<0, 0>>, "none")
    BY <1>1 DEF Callback
  <2>2. op \in Op /\ n \in Account
    BY DEF Op
  <2>3. req' \in [Handlers -> Request]
    BY <1>0, <2>1, <2>2, StartTyped
  <2>4. failures' \in 0..MaxFailures
    BY <1>1 DEF Callback, Fails, TypeOK
  <2> QED
    BY <1>1, <2>3, <2>4 DEF Callback, TypeOK, accountVars, totpVars, signInVars
<1>2. CASE Create(h)
  <2>1. req' \in [Handlers -> Request]
    BY <1>0, <1>2, GotoTyped, DoneTyped DEF Create, Op
  <2>2. rows' \in [Account -> Nat]
    BY <1>0, <1>2 DEF Create, Insert, TypeOK
  <2>3. failures' \in 0..MaxFailures
    BY <1>2, FailsTyped DEF Create, TypeOK
  <2> QED
    BY <1>2, <2>1, <2>2, <2>3 DEF Create, TypeOK, totpVars, signInVars
<1>3. CASE Join(h)
  <2>1. req' \in [Handlers -> Request]
    BY <1>0, <1>3, GotoTyped DEF Join, Op
  <2>2. failures' \in 0..MaxFailures
    BY <1>3, FailsTyped DEF Join, TypeOK
  <2> QED
    BY <1>0, <1>3, <2>1, <2>2 DEF Join, TypeOK, totpVars, signInVars
<1>4. CASE SignIn(h)
  <2>1. req' \in [Handlers -> Request]
    BY <1>0, <1>4, DoneTyped DEF SignIn
  <2> QED
    BY <1>0, <1>4, <2>1 DEF SignIn, IssueTokens, TypeOK, accountVars, totpVars
<1>5. CASE Login(h)
  <2>1. Status \in Row
    BY DEF Status, NoRow, Row, TypeOK
  <2>2. "login" \in Op
    BY DEF Op
  <2>3. /\ Start(h, "login", Admin, Status, <<0, 0>>, "none")
           \/ Start(h, "login", Admin, NoRow, <<0, 0>>, "none")
        /\ failures' \in 0..MaxFailures
    BY <1>5, FailsTyped DEF Login, TypeOK
  <2>4. req' \in [Handlers -> Request]
    BY <1>0, <2>1, <2>2, <2>3, StartTyped
  <2> QED
    BY <1>5, <2>3, <2>4 DEF Login, TypeOK, accountVars, totpVars, signInVars
<1>6. CASE Answer(h)
  <2>1. req' \in [Handlers -> Request]
    BY <1>0, <1>6, DoneTyped DEF Answer
  <2> QED
    BY <1>6, <2>1 DEF Answer, IssueTokens, IssuePending, TypeOK, accountVars, totpVars
<1> QED
  BY <1>1, <1>2, <1>3, <1>4, <1>5, <1>6

\* What is about to be spent is a recovery code.
SpendInv == \A h \in Handlers : req[h].op = "spend" => req[h].code \in Code

LEMMA TypeFactor ==
  ASSUME TypeOK, SpendInv, NEW h \in Handlers,
         Confirm(h) \/ Enable(h) \/ Verify(h) \/ Spend(h) \/ Accept(h)
  PROVE  TypeOK'
<1> USE Numbers, NothingTyped
<1>0. /\ req \in [Handlers -> Request] /\ req[h] \in Request /\ totp \in Row
      /\ made.lists \in 0..MaxLists
  BY DEF TypeOK
<1>1. CASE Confirm(h)
  <2>1. req' \in [Handlers -> Request]
    BY <1>0, <1>1, StartTyped DEF Confirm, Op
  <2>2. confirmed' \subseteq 1..MaxSecrets
    <3>1. totp.secret \in 1..MaxSecrets
      BY <1>0, <1>1 DEF Confirm, Row
    <3> QED
      BY <1>1, <3>1 DEF Confirm, TypeOK
  <2> QED
    BY <1>1, <2>1, <2>2 DEF Confirm, TypeOK, accountVars, signInVars
<1>2. CASE Enable(h)
  <2>1. req' \in [Handlers -> Request]
    BY <1>0, <1>2, DoneTyped DEF Enable
  <2>2. made' \in [secrets : 0..MaxSecrets, lists : 0..MaxLists] /\ made.lists + 1 \in 1..MaxLists
    BY <1>0, <1>2 DEF Enable, TypeOK
  <2>3. List(made.lists + 1) \in SUBSET Code
    BY <2>2 DEF List, Code
  <2> HIDE DEF List
  <2>4. totp' \in Row /\ issued' \in SUBSET Code /\ spent' \in SUBSET Code /\ crossed' \in BOOLEAN
    BY <1>0, <1>2, <2>3 DEF Enable, TypeOK, Row
  <2> QED
    BY <1>2, <2>1, <2>2, <2>4 DEF Enable, TypeOK, accountVars, signInVars
<1>3. CASE Verify(h)
  <2>1. totp.codes \subseteq Code
    BY <1>0 DEF Row
  <2>2. PICK to \in {"session", "disable"} :
           \/ Start(h, "accept", Admin, NoRow, <<0, 0>>, to)
           \/ \E c \in totp.codes : Start(h, "spend", Admin, totp, c, to)
    BY <1>3 DEF Verify
  <2>3. req' \in [Handlers -> Request]
    BY <1>0, <2>1, <2>2, StartTyped DEF Op
  <2> QED
    BY <1>3, <2>3 DEF Verify, TypeOK, accountVars, totpVars, signInVars
<1>4. CASE Spend(h)
  <2>1. req[h].code \in Code \cup {<<0, 0>>} /\ req[h].row \in Row
        /\ req[h].to \in {"none", "session", "disable"}
    BY <1>0 DEF Request
  <2>2. req' = [req EXCEPT ![h] = [Idle EXCEPT !.op = "accept", !.to = req[h].to]]
    BY <1>4 DEF Spend
  <2>3. [Idle EXCEPT !.op = "accept", !.to = req[h].to] \in Request
    BY <2>1 DEF Request, Op
  <2>4. req' \in [Handlers -> Request]
    BY <1>0, <2>2, <2>3
  <2>5. req[h].code \in Code /\ spent' = spent \cup {req[h].code}
    BY <1>4 DEF Spend, At, SpendInv
  <2>6. Remaining(h) \in SUBSET Code
    BY <2>1 DEF Remaining, Row
  <2> HIDE DEF Remaining
  <2>7. totp' \in Row
    BY <1>0, <1>4, <2>6 DEF Spend, Row
  <2>8. crossed' \in BOOLEAN /\ failures' \in 0..MaxFailures
    BY <1>4, FailsTyped DEF Spend, TypeOK
  <2> QED
    BY <1>4, <2>4, <2>5, <2>7, <2>8 DEF Spend, TypeOK, accountVars, signInVars
<1>5. CASE Accept(h)
  <2>1. req' \in [Handlers -> Request]
    BY <1>0, <1>5, DoneTyped DEF Accept
  <2> QED
    BY <1>5, <2>1 DEF Accept, Disable, IssueTokens, TypeOK, accountVars
<1> QED
  BY <1>1, <1>2, <1>3, <1>4, <1>5

-----------------------------------------------------------------------------
(* What a step does to the requests *)

Elsewhere == {"idle", "create", "issue", "login", "accept"}

LEMMA RequestMoves ==
  ASSUME TypeOK, [Next]_vars, NEW g \in Handlers
  PROVE  \/ req'[g] = req[g]
         \/ req'[g].op \in Elsewhere
         \/ req'[g].op = "join" /\ req'[g].who = req[g].who /\ Create(g)
         \/ req'[g].op = "enable" /\ Confirm(g)
         \/ /\ req'[g].op = "spend" /\ req'[g].row = totp /\ req'[g].code \in totp.codes
            /\ Verify(g)
<1> USE NothingTyped, Numbers
<1>0. req \in [Handlers -> Request] /\ req[g] \in Request /\ totp \in Row
  BY DEF TypeOK
<1>1. CASE Seed \/ Promote \/ Backfill \/ Lapse \/ Begin \/ UNCHANGED vars
  BY <1>1 DEF Seed, Promote, Backfill, Lapse, Begin, vars
<1>2. CASE Crash
  BY <1>2 DEF Crash, Elsewhere
<1>3. ASSUME NEW h \in Handlers, NEW n \in People, Callback(h, n)
      PROVE  req'[g] = req[g] \/ req'[g].op \in Elsewhere
  <2>1. PICK op \in {"issue", "create"} : Start(h, op, n, NoRow, <<0, 0>>, "none")
    BY <1>3 DEF Callback
  <2>2. op \in Op /\ op \in Elsewhere /\ n \in Account
    BY DEF Op, Elsewhere
  <2> QED
    BY <1>0, <2>1, <2>2, StartTyped
<1>4. ASSUME NEW h \in Handlers, Create(h)
      PROVE  \/ req'[g] = req[g] \/ req'[g].op \in Elsewhere
             \/ g = h /\ req'[g].op = "join" /\ req'[g].who = req[g].who
  <2>1. Goto(h, "join") \/ Done(h)
    BY <1>4 DEF Create
  <2> QED
    BY <1>0, <2>1, GotoTyped, DoneTyped DEF Op, Elsewhere
<1>5. ASSUME NEW h \in Handlers, Join(h)
      PROVE  req'[g] = req[g] \/ req'[g].op \in Elsewhere
  BY <1>0, <1>5, GotoTyped DEF Join, Op, Elsewhere
<1>6. ASSUME NEW h \in Handlers, SignIn(h) \/ Answer(h) \/ Enable(h) \/ Accept(h)
      PROVE  req'[g] = req[g] \/ req'[g].op \in Elsewhere
  <2>1. Done(h)
    BY <1>6 DEF SignIn, Answer, Enable, Accept
  <2> QED
    BY <1>0, <2>1, DoneTyped DEF Elsewhere
<1>7. ASSUME NEW h \in Handlers, Login(h)
      PROVE  req'[g] = req[g] \/ req'[g].op \in Elsewhere
  <2>1. Status \in Row
    BY <1>0 DEF Status, NoRow, Row
  <2>2. \/ Start(h, "login", Admin, Status, <<0, 0>>, "none")
        \/ Start(h, "login", Admin, NoRow, <<0, 0>>, "none")
    BY <1>7 DEF Login
  <2>3. "login" \in Op /\ "login" \in Elsewhere
    BY DEF Op, Elsewhere
  <2> QED
    BY <1>0, <2>1, <2>2, <2>3, StartTyped
<1>8. ASSUME NEW h \in Handlers, Confirm(h)
      PROVE  req'[g] = req[g] \/ (g = h /\ req'[g].op = "enable")
  BY <1>0, <1>8, StartTyped DEF Confirm, Op
<1>9. ASSUME NEW h \in Handlers, Verify(h)
      PROVE  \/ req'[g] = req[g] \/ req'[g].op \in Elsewhere
             \/ /\ g = h /\ req'[g].op = "spend" /\ req'[g].row = totp
                /\ req'[g].code \in totp.codes
  <2>1. totp.codes \subseteq Code
    BY <1>0 DEF Row
  <2>2. PICK to \in {"session", "disable"} :
           \/ Start(h, "accept", Admin, NoRow, <<0, 0>>, to)
           \/ \E c \in totp.codes : Start(h, "spend", Admin, totp, c, to)
    BY <1>9 DEF Verify
  <2>3. "accept" \in Op /\ "accept" \in Elsewhere /\ "spend" \in Op
    BY DEF Op, Elsewhere
  <2>4. CASE Start(h, "accept", Admin, NoRow, <<0, 0>>, to)
    BY <1>0, <2>3, <2>4, StartTyped
  <2>5. ASSUME NEW c \in totp.codes, Start(h, "spend", Admin, totp, c, to)
        PROVE  \/ req'[g] = req[g]
               \/ /\ g = h /\ req'[g].op = "spend" /\ req'[g].row = totp
                  /\ req'[g].code \in totp.codes
    BY <1>0, <2>1, <2>3, <2>5, StartTyped
  <2> QED
    BY <2>2, <2>4, <2>5
<1>10. ASSUME NEW h \in Handlers, Spend(h)
       PROVE  req'[g] = req[g] \/ req'[g].op \in Elsewhere
  <2>1. req' = [req EXCEPT ![h] = [Idle EXCEPT !.op = "accept", !.to = req[h].to]]
    BY <1>10 DEF Spend
  <2>2. [Idle EXCEPT !.op = "accept", !.to = req[h].to].op = "accept"
    BY DEF Idle
  <2> QED
    BY <1>0, <2>1, <2>2 DEF Elsewhere
<1> QED
  BY <1>1, <1>2, <1>3, <1>4, <1>5, <1>6, <1>7, <1>8, <1>9, <1>10 DEF Next

TypeInv == TypeOK /\ SpendInv

LEMMA TypeStep ==
  ASSUME TypeInv, [Next]_vars
  PROVE  TypeInv'
<1>1. TypeOK'
  <2>1. CASE UNCHANGED vars
    BY <2>1 DEF TypeInv, TypeOK, vars, accountVars, totpVars, signInVars
  <2> QED
    BY <2>1, TypeStart, TypeSignIn, TypeFactor DEF TypeInv, Next
<1>2. SpendInv'
  <2> SUFFICES ASSUME NEW g \in Handlers, req'[g].op = "spend"
               PROVE  req'[g].code \in Code
    BY DEF SpendInv
  <2>1. totp.codes \subseteq Code
    BY DEF TypeInv, TypeOK, Row
  <2> QED
    BY <2>1, RequestMoves DEF TypeInv, SpendInv, Elsewhere
<1> QED
  BY <1>1, <1>2 DEF TypeInv

LEMMA InvInit ==
  ASSUME Init
  PROVE  TypeInv
BY TypeInit, NothingTyped DEF Init, TypeInv, SpendInv

\* Accounts, factors and requests keep their types, whatever overlaps or dies.
THEOREM TypeCorrect == Spec => []TypeOK
<1>1. TypeInv => TypeOK
  BY DEF TypeInv
<1> QED
  BY <1>1, InvInit, TypeStep, PTL DEF Spec

-----------------------------------------------------------------------------
(* Second factors *)

\* What is enabled has a secret and, if nothing was overwritten, the codes that
\* are left of the last enrolment.
FactorInv ==
  /\ totp.on => totp.secret > 0
  /\ CodesTally

LEMMA FactorStep ==
  ASSUME TypeInv, FactorInv, [Next]_vars
  PROVE  FactorInv'
<1>0. totp \in Row
  BY DEF TypeInv, TypeOK
<1>1. CASE Begin
  <2>1. totp' = Pending /\ Pending.on = FALSE
    BY <1>1 DEF Begin, Pending
  <2> QED
    BY <2>1 DEF FactorInv, CodesTally
<1>2. ASSUME NEW h \in Handlers, Enable(h) PROVE FactorInv'
  <2>1. CASE totp.secret = 0
    BY <1>2, <2>1 DEF Enable, FactorInv, CodesTally
  <2>2. CASE totp.secret # 0
    <3> DEFINE l == List(made.lists + 1)
    <3>1. totp' = [totp EXCEPT !.on = TRUE, !.codes = l] /\ issued' = l /\ spent' = {}
      BY <1>2, <2>2 DEF Enable
    <3> HIDE DEF l
    <3>2. totp'.codes = l /\ totp'.secret = totp.secret /\ totp.secret \in Nat
      BY <1>0, <3>1, Numbers DEF Row
    <3> QED
      BY <2>2, <3>1, <3>2 DEF FactorInv, CodesTally
  <2> QED
    BY <2>1, <2>2
<1>3. ASSUME NEW h \in Handlers, Spend(h) PROVE FactorInv'
  <2>1. CASE crossed'
    <3>1. totp'.on = totp.on /\ totp'.secret = totp.secret
      BY <1>0, <1>3 DEF Spend, Row
    <3> QED
      BY <2>1, <3>1 DEF FactorInv, CodesTally
  <2>2. CASE ~crossed' /\ totp.secret = 0
    <3>1. totp' = totp
      BY <1>3, <2>2 DEF Spend
    <3> QED
      BY <2>2, <3>1 DEF FactorInv, CodesTally
  <2>3. CASE ~crossed' /\ totp.secret # 0
    <3>1. /\ totp' = [totp EXCEPT !.codes = totp.codes \ {req[h].code}]
          /\ spent' = spent \cup {req[h].code} /\ issued' = issued /\ ~crossed
      BY <1>3, <2>3 DEF Spend, Remaining
    <3>2. /\ totp'.codes = totp.codes \ {req[h].code} /\ totp'.on = totp.on
          /\ totp'.secret = totp.secret
      BY <1>0, <3>1 DEF Row
    <3> QED
      BY <3>1, <3>2 DEF FactorInv, CodesTally
  <2> QED
    BY <2>1, <2>2, <2>3
<1>4. ASSUME NEW h \in Handlers, Accept(h) PROVE FactorInv'
  <2>1. CASE totp' = totp
    BY <1>4, <2>1 DEF Accept, FactorInv, CodesTally
  <2>2. CASE totp' = NoRow
    BY <2>2, NothingTyped DEF FactorInv, CodesTally
  <2> QED
    BY <1>4, <2>1, <2>2 DEF Accept, Disable
<1>5. CASE UNCHANGED <<totp, issued, spent, crossed>>
  BY <1>5 DEF FactorInv, CodesTally
<1>6. \/ UNCHANGED <<totp, issued, spent, crossed>> \/ Begin
      \/ \E h \in Handlers : Enable(h) \/ Spend(h) \/ Accept(h)
  BY DEF Next, vars, totpVars, Seed, Promote, Backfill, Crash, Lapse, Callback, Create, Join,
         SignIn, Login, Answer, Confirm, Verify
<1> QED
  BY <1>1, <1>2, <1>3, <1>4, <1>5, <1>6

\* The recovery codes in force are those the last enrolment showed less those
\* spent since, unless a list was written back from a stale read or not at all.
THEOREM CodesAlwaysTally == Spec => []CodesTally
<1>1. Init => FactorInv
  BY NothingTyped DEF Init, FactorInv, CodesTally
<1>2. FactorInv => CodesTally
  BY DEF FactorInv
<1> QED
  BY <1>1, <1>2, InvInit, TypeStep, FactorStep, PTL DEF Spec

\* A secret is confirmed by the time an enrolment is under way, unless it was
\* replaced meanwhile, and so is the one that is enabled.
ConfirmInv ==
  /\ EnabledIsConfirmed
  /\ ~raced /\ (\E h \in Handlers : req[h].op = "enable") =>
       totp.secret \in confirmed \cup {0}

LEMMA ConfirmStep ==
  ASSUME TypeInv, ConfirmInv, [Next]_vars
  PROVE  ConfirmInv'
<1>0. totp \in Row /\ req \in [Handlers -> Request]
  BY DEF TypeInv, TypeOK
<1>1. CASE Begin
  <2>1. totp'.on = FALSE /\ req' = req
    BY <1>1 DEF Begin, Pending
  <2>2. raced' \/ ~\E h \in Handlers : req'[h].op = "enable"
    BY <1>1 DEF Begin
  <2> QED
    BY <2>1, <2>2 DEF ConfirmInv, EnabledIsConfirmed
<1>2. ASSUME NEW h \in Handlers, Confirm(h) PROVE ConfirmInv'
  <2>1. confirmed' = confirmed \cup {totp.secret} /\ totp' = totp /\ raced' = raced
    BY <1>2 DEF Confirm
  <2> QED
    BY <2>1 DEF ConfirmInv, EnabledIsConfirmed
<1>3. \A h \in Handlers : Confirm(h) \/ (req'[h].op = "enable" => req[h].op = "enable")
  BY RequestMoves DEF TypeInv, Elsewhere
<1>4. ASSUME NEW h \in Handlers, Enable(h) PROVE ConfirmInv'
  <2>1. req[h].op = "enable" /\ UNCHANGED <<confirmed, raced>> /\ ~Confirm(h)
    BY <1>0, <1>4, NothingTyped DEF Enable, At, Confirm, Start
  <2>2. totp'.secret = totp.secret /\ (totp.secret = 0 => totp' = totp)
    <3>1. CASE totp.secret = 0
      BY <1>4, <3>1 DEF Enable
    <3>2. CASE totp.secret # 0
      <4>1. totp' = [totp EXCEPT !.on = TRUE, !.codes = List(made.lists + 1)]
        BY <1>4, <3>2 DEF Enable
      <4> QED
        BY <1>0, <3>2, <4>1 DEF Row
    <3> QED
      BY <3>1, <3>2
  <2>3. ~raced => totp.secret \in confirmed \cup {0}
    BY <2>1 DEF ConfirmInv
  <2> QED
    BY <2>1, <2>2, <2>3 DEF ConfirmInv, EnabledIsConfirmed
<1>5. ASSUME NEW h \in Handlers, Spend(h) PROVE ConfirmInv'
  <2>1. totp'.on = totp.on /\ totp'.secret = totp.secret /\ UNCHANGED <<confirmed, raced>>
    BY <1>0, <1>5 DEF Spend, Row
  <2>2. \A g \in Handlers : req'[g].op = "enable" => req[g].op = "enable"
    <3>1. req' = [req EXCEPT ![h] = [Idle EXCEPT !.op = "accept", !.to = req[h].to]]
      BY <1>5 DEF Spend
    <3>2. [Idle EXCEPT !.op = "accept", !.to = req[h].to].op = "accept"
      BY DEF Idle
    <3> QED
      BY <1>0, <3>1, <3>2
  <2> QED
    BY <2>1, <2>2 DEF ConfirmInv, EnabledIsConfirmed
<1>6. ASSUME NEW h \in Handlers, Accept(h) PROVE ConfirmInv'
  <2>1. /\ UNCHANGED <<confirmed, raced>> /\ (totp' = totp \/ totp' = NoRow)
        /\ req' = [req EXCEPT ![h] = Idle]
    BY <1>6 DEF Accept, Disable, Done
  <2> QED
    BY <1>0, <2>1, NothingTyped DEF ConfirmInv, EnabledIsConfirmed
<1>7. CASE UNCHANGED <<totp, confirmed, raced>> /\ \A h \in Handlers : ~Confirm(h)
  BY <1>3, <1>7 DEF ConfirmInv, EnabledIsConfirmed
<1>8. \/ UNCHANGED <<totp, confirmed, raced>> \/ Begin
      \/ \E h \in Handlers : Confirm(h) \/ Enable(h) \/ Spend(h) \/ Accept(h)
  BY DEF Next, vars, totpVars, Seed, Promote, Backfill, Crash, Lapse, Callback, Create, Join,
         SignIn, Login, Answer, Verify
<1> QED
  BY <1>1, <1>2, <1>4, <1>5, <1>6, <1>7, <1>8

\* A second factor that is asked for was confirmed with a code, unless a new
\* enrolment began while an earlier one was being confirmed.
THEOREM EnabledWasConfirmed == Spec => []EnabledIsConfirmed
<1>1. Init => ConfirmInv
  BY NothingTyped DEF Init, ConfirmInv, EnabledIsConfirmed
<1>2. ConfirmInv => EnabledIsConfirmed
  BY DEF ConfirmInv
<1> QED
  BY <1>1, <1>2, InvInit, TypeStep, ConfirmStep, PTL DEF Spec

-----------------------------------------------------------------------------
(* Accounts *)

Joining(n) == \E h \in Handlers : req[h].who = n /\ req[h].op = "join"

Known == \E n \in Account : rows[n] > 0

\* Between two starts the server may be missing a membership or the admin's
\* rights; a start makes up for both, unless the seeding was torn.
AccountInv ==
  /\ AccountsSettled
  /\ phase = "backfill" => Admin \in super \/ torn
  /\ Known /\ phase # "promote" => Admin \in super \/ torn

\* A request that is about to write a membership does nothing else.
LEMMA JoinStays ==
  ASSUME TypeOK, [Next]_vars, NEW g \in Handlers, req[g].op = "join"
  PROVE  req'[g] = req[g] \/ Join(g) \/ Crash
<1>0. req \in [Handlers -> Request] /\ req[g] # Idle
  BY NothingTyped DEF TypeOK
<1>1. CASE Seed \/ Promote \/ Backfill \/ Lapse \/ Begin \/ UNCHANGED vars
  BY <1>1 DEF Seed, Promote, Backfill, Lapse, Begin, vars
<1>2. ASSUME NEW h \in Handlers,
             (\E n \in People : Callback(h, n)) \/ Login(h) \/ Confirm(h) \/ Verify(h)
      PROVE  req'[g] = req[g]
  <2>1. req[h] = Idle /\ \E r : req' = [req EXCEPT ![h] = r]
    BY <1>2 DEF Callback, Login, Confirm, Verify, Start
  <2> QED
    BY <1>0, <2>1
<1>3. ASSUME NEW h \in Handlers,
             \/ Create(h) \/ SignIn(h) \/ Answer(h) \/ Enable(h) \/ Spend(h) \/ Accept(h)
             \/ Join(h)
      PROVE  req'[g] = req[g] \/ Join(g)
  <2>1. \E r : req' = [req EXCEPT ![h] = r]
    <3>1. CASE Create(h) \/ Join(h)
      <4>1. \E op : req' = [req EXCEPT ![h].op = op] \/ Done(h)
        BY <3>1 DEF Create, Join, Goto
      <4> QED
        BY <1>0, <4>1 DEF Done
    <3>2. CASE SignIn(h) \/ Answer(h) \/ Enable(h) \/ Spend(h) \/ Accept(h)
      BY <3>2 DEF SignIn, Answer, Enable, Spend, Accept, Done
    <3> QED
      BY <1>3, <3>1, <3>2
  <2>2. Join(h) \/ req[h].op # "join"
    BY <1>3 DEF Create, SignIn, Answer, Enable, Spend, Accept, At
  <2> QED
    BY <1>0, <2>1, <2>2
<1> QED
  BY <1>1, <1>2, <1>3 DEF Next

LEMMA AccountStep ==
  ASSUME TypeInv, AccountInv, [Next]_vars
  PROVE  AccountInv'
<1> USE Numbers
<1>0. /\ rows \in [Account -> Nat] /\ req \in [Handlers -> Request]
      /\ \A n \in Account : rows[n] = 0 \/ rows[n] = 1
  BY DEF TypeInv, TypeOK, AccountInv, AccountsSettled
<1>1. CASE Seed
  <2>1. phase' # "up" /\ UNCHANGED <<super, torn>> /\ phase = "seed"
    BY <1>1 DEF Seed
  <2>2. CASE Known
    <3>1. phase' = "backfill" /\ rows' = rows
      BY <1>1, <2>2 DEF Seed, Known
    <3> QED
      BY <2>1, <2>2, <3>1 DEF AccountInv, AccountsSettled, Up, Known
  <2>3. CASE ~Known
    <3>1. phase' = "promote" /\ rows' = [rows EXCEPT ![Admin] = 1]
      BY <1>1, <2>3 DEF Seed, Known
    <3>2. \A n \in Account : rows'[n] <= 1
      BY <1>0, <3>1
    <3> QED
      BY <2>1, <3>1, <3>2 DEF AccountInv, AccountsSettled, Up
  <2> QED
    BY <2>2, <2>3
<1>2. CASE Promote
  <2>1. phase' = "backfill" /\ Admin \in super' /\ rows' = rows
    BY <1>2 DEF Promote
  <2> QED
    BY <2>1 DEF AccountInv, AccountsSettled, Up
<1>3. CASE Backfill
  <2>1. /\ phase = "backfill" /\ UNCHANGED <<rows, super, torn>>
        /\ \A n \in Account : rows[n] > 0 => n \in members' \cup unjoined'
    BY <1>3 DEF Backfill
  <2>2. \A n \in Account : rows[n] = 1 => n \in members' \cup unjoined'
    BY <1>0, <2>1
  <2> QED
    BY <2>1, <2>2 DEF AccountInv, AccountsSettled, Known
<1>4. CASE Crash
  <2>1. /\ phase' = "seed" /\ UNCHANGED <<rows, super>>
        /\ torn' = (torn \/ phase = "promote")
    BY <1>4 DEF Crash
  <2> QED
    BY <2>1 DEF AccountInv, AccountsSettled, Up, Known
<1>5. ASSUME ~Crash, NEW n \in Account, Joining(n), \A h \in Handlers : ~Join(h)
      PROVE  Joining(n)'
  BY <1>5, JoinStays DEF Joining, TypeInv
<1>6. ASSUME NEW h \in Handlers, Create(h) PROVE AccountInv'
  <2>1. /\ UNCHANGED <<phase, super, torn, members, unjoined>> /\ phase = "up" /\ Up
        /\ req[h].who \in Account /\ req[h].op = "create"
    BY <1>0, <1>6 DEF Create, At, Up, Request
  <2>2. ~Crash /\ \A g \in Handlers : ~Join(g)
    <3>1. phase' = "up"
      BY <2>1
    <3>2. ASSUME NEW g \in Handlers, Join(g) PROVE FALSE
      <4>1. req[g].op = "join" /\ Goto(g, "issue") /\ g # h
        BY <2>1, <3>2 DEF Join, At
      <4>2. req'[h] = req[h]
        BY <1>0, <4>1 DEF Goto
      <4>3. req'[h].op # "create"
        BY <1>0, <1>6, GotoTyped, DoneTyped DEF Create, Op
      <4> QED
        BY <2>1, <4>2, <4>3
    <3> QED
      BY <3>1, <3>2 DEF Crash
  <2>3. CASE rows' = rows
    <3>1. \A n \in Account : Joining(n) => Joining(n)'
      BY <1>5, <2>2
    <3> QED
      BY <2>1, <2>3, <3>1 DEF AccountInv, AccountsSettled, Joining, Up, Known
  <2>4. CASE Insert(req[h].who) /\ Goto(h, "join")
    <3>0. PICK m \in Account : m = req[h].who
      BY <2>1
    <3>1. rows' = [rows EXCEPT ![m] = 1]
      BY <2>4, <3>0 DEF Insert
    <3>2. Joining(m)'
      BY <1>0, <2>4, <3>0, GotoTyped DEF Joining, Op
    <3>3. \A n \in Account : Joining(n) => Joining(n)'
      BY <1>5, <2>2
    <3>4. \A n \in Account :
             /\ rows'[n] <= 1
             /\ rows'[n] = 1 => n \in members \cup unjoined \/ Joining(n)'
      <4>1. \A n \in Account \ {m} : rows'[n] = rows[n]
        BY <1>0, <3>1
      <4>2. rows'[m] = 1
        BY <1>0, <2>1, <3>1
      <4>3. \A n \in Account : rows[n] = 1 => n \in members \cup unjoined \/ Joining(n)
        BY <2>1 DEF AccountInv, AccountsSettled, Joining
      <4>4. \A n \in Account \ {m} :
               /\ rows'[n] <= 1
               /\ rows'[n] = 1 => n \in members \cup unjoined \/ Joining(n)'
        BY <1>0, <3>3, <4>1, <4>3
      <4> QED
        BY <3>2, <4>2, <4>4
    <3>5. Admin \in super \/ torn
      BY <2>1 DEF AccountInv, AccountsSettled
    <3> QED
      BY <2>1, <3>4, <3>5 DEF AccountInv, AccountsSettled, Joining, Up
  <2> QED
    BY <1>6, <2>3, <2>4 DEF Create
<1>7. ASSUME NEW h \in Handlers, Join(h) PROVE AccountInv'
  <2>1. /\ UNCHANGED <<phase, rows, super, torn>> /\ phase = "up" /\ Up
        /\ members \cup unjoined \cup {req[h].who} = members' \cup unjoined'
        /\ Goto(h, "issue")
    BY <1>7 DEF Join, At, Up
  <2>2. ASSUME NEW n \in Account, Joining(n) PROVE Joining(n)' \/ n = req[h].who
    <3>1. \A g \in Handlers \ {h} : req'[g] = req[g]
      BY <1>0, <2>1 DEF Goto
    <3> QED
      BY <2>2, <3>1 DEF Joining
  <2>3. \A n \in Account : rows[n] = 1 => n \in members' \cup unjoined' \/ Joining(n)'
    BY <2>1, <2>2 DEF AccountInv, AccountsSettled, Joining
  <2> QED
    BY <2>1, <2>3 DEF AccountInv, AccountsSettled, Joining, Up, Known
<1>8. CASE UNCHANGED <<phase, accountVars>> /\ ~Crash /\ \A h \in Handlers : ~Join(h)
  <2>1. \A n \in Account : Joining(n) => Joining(n)'
    BY <1>5, <1>8
  <2> QED
    BY <1>8, <2>1 DEF accountVars, AccountInv, AccountsSettled, Joining, Up, Known
<1>9. \/ UNCHANGED <<phase, accountVars>> \/ Seed \/ Promote \/ Backfill \/ Crash
      \/ \E h \in Handlers : Create(h) \/ Join(h)
  BY DEF Next, vars, Lapse, Begin, Callback, SignIn, Login, Answer, Confirm, Enable, Verify,
         Spend, Accept
<1> QED
  BY <1>1, <1>2, <1>3, <1>4, <1>6, <1>7, <1>8, <1>9

\* One account to a person however many callbacks overlap, and once the server is
\* up every account is a member of the organisation and the admin is super-admin,
\* with the exceptions AccountsSettled names.
THEOREM AccountsAreSettled == Spec => []AccountsSettled
<1>1. Init => AccountInv
  BY DEF Init, AccountInv, AccountsSettled, Up, Known
<1>2. AccountInv => AccountsSettled
  BY DEF AccountInv
<1> QED
  BY <1>1, <1>2, InvInit, TypeStep, AccountStep, PTL DEF Spec

-----------------------------------------------------------------------------
(* Ephemeral *)

EntryInv ==
  /\ now \in Nat /\ next \in Nat /\ began \subseteq Entry
  /\ \A e \in began : e.id < next /\ e.at <= now
  /\ \A e, f \in began : e.id = f.id => e = f
  /\ \A e \in began : \A u, v \in e.owner : u = v
  /\ putting \subseteq began /\ held \subseteq began
  /\ putting \cap held = {}

RedeemInv ==
  \A r \in redeemed :
    /\ r.entry \in began /\ r.entry \notin held /\ r.entry \notin putting
    /\ r.at <= r.entry.at + Lifetime(r.entry)
    /\ \A s \in redeemed : r.entry = s.entry => r = s

SweepInv ==
  /\ \A m \in Map : swept[m] \in Nat
  /\ swept = [m \in Map |-> swept[m]]
  /\ Bounded

\* A ceremony is under way, or has left its trace, or neither: never both.
CeremonyInv ==
  /\ working \subseteq began
  /\ \A e \in working : e \notin held /\ e \notin putting
  /\ \A p \in registered :
       /\ p.entry \in began /\ p.entry.owner = {p.user}
       /\ p.entry \notin held /\ p.entry \notin putting /\ p.entry \notin working
  /\ \A p, q \in registered : p.entry = q.entry => p = q
  /\ creds \subseteq registered
  /\ \A p, q \in creds : p.cred = q.cred => p = q

-----------------------------------------------------------------------------
(* The entries *)

LEMMA InitEntries == EphemeralInit => EntryInv
BY DEF EphemeralInit, EntryInv

LEMMA LifetimeIsNat ==
  ASSUME Sizes, NEW e PROVE Lifetime(e) \in Nat
BY DEF Sizes, Lifetime

\* The steps that are about entries.
LEMMA StampEntries ==
  ASSUME EntryInv, NEW map \in Map, NEW owner \in SUBSET Users,
         \A u, v \in owner : u = v, Stamp(map, owner)
  PROVE  EntryInv'
<1> DEFINE e == [id |-> next, map |-> map, owner |-> owner, at |-> now]
<1>1. /\ next' = next + 1 /\ now' = now /\ held' = held
      /\ putting' = putting \cup {e} /\ began' = began \cup {e}
  BY DEF Stamp
<1>2. /\ e \in Entry /\ e.id = next /\ e.at = now /\ e \notin began
      /\ \A u, v \in e.owner : u = v
  BY DEF EntryInv, Entry
<1>. HIDE DEF e
<1>3. \A f, g \in began' : f.id = g.id => f = g
  BY <1>1, <1>2 DEF EntryInv, Entry
<1>4. /\ began' \subseteq Entry
      /\ \A f \in began' : /\ f.id < next' /\ f.at <= now'
                           /\ \A u, v \in f.owner : u = v
  BY <1>1, <1>2 DEF EntryInv, Entry
<1>5. putting' \subseteq began' /\ held' \subseteq began' /\ putting' \cap held' = {}
  BY <1>1, <1>2 DEF EntryInv
<1>6. QED
  BY <1>1, <1>3, <1>4, <1>5 DEF EntryInv

LEMMA NextEntries == EntryInv /\ [EphemeralNext]_ephemeralVars => EntryInv'
<1>1. SUFFICES ASSUME EntryInv, [EphemeralNext]_ephemeralVars PROVE EntryInv'
  OBVIOUS
<1>2. ASSUME NEW u \in Users, PutSSOCode(u) \/ BeginRegistration(u) PROVE EntryInv'
  BY <1>1, <1>2, StampEntries DEF PutSSOCode, BeginRegistration, Map
<1>3. CASE BeginLogin
  BY <1>1, <1>3, StampEntries DEF BeginLogin, Map
<1>4. ASSUME NEW e \in putting, Put(e) PROVE EntryInv'
  BY <1>1, <1>4 DEF EntryInv, Put
<1>5. ASSUME NEW e \in held, Take(e) PROVE EntryInv'
  BY <1>1, <1>5 DEF EntryInv, Take
<1>6. CASE Restart
  BY <1>1, <1>6 DEF EntryInv, Restart
<1>7. CASE Tick
  BY <1>1, <1>7 DEF EntryInv, Tick, heldVars, Entry
<1>8. ASSUME UNCHANGED now, UNCHANGED heldVars PROVE EntryInv'
  BY <1>1, <1>8 DEF EntryInv, heldVars
<1>9. QED
  BY <1>1, <1>2, <1>3, <1>4, <1>5, <1>6, <1>7, <1>8
     DEF EphemeralNext, Exchange, TakeSession, AddPasskey, ResolveLogin, DeletePasskey,
         Allow, Deny, ephemeralVars

-----------------------------------------------------------------------------
(* One use *)

LEMMA InitRedeem == EphemeralInit => RedeemInv
BY DEF EphemeralInit, RedeemInv

LEMMA NextRedeem == Sizes /\ EntryInv /\ RedeemInv /\ [EphemeralNext]_ephemeralVars => RedeemInv'
<1>1. SUFFICES ASSUME Sizes, EntryInv, RedeemInv, [EphemeralNext]_ephemeralVars PROVE RedeemInv'
  OBVIOUS
<1>2. ASSUME NEW map \in Map, NEW owner \in SUBSET Users, Stamp(map, owner)
      PROVE  RedeemInv'
  <2>1. \A e \in began : e.id # next
    BY <1>1 DEF EntryInv, Entry
  <2>2. QED
    BY <1>1, <1>2, <2>1 DEF RedeemInv, Stamp
<1>3. ASSUME NEW e \in putting, Put(e) PROVE RedeemInv'
  BY <1>1, <1>3 DEF RedeemInv, Put
<1>4. ASSUME NEW e \in held, Take(e) PROVE RedeemInv'
  <2>1. /\ UNCHANGED <<began, putting>> /\ held' \subseteq held /\ e \notin held'
        /\ e \in began /\ e \notin putting
        /\ \A r \in redeemed : r.entry # e
    BY <1>1, <1>4 DEF Take, EntryInv, RedeemInv
  <2>2. CASE Expired(e, now)
    BY <1>1, <1>4, <2>1, <2>2 DEF Take, RedeemInv
  <2>3. CASE ~Expired(e, now)
    <3>1. redeemed' = redeemed \cup {[entry |-> e, at |-> now]}
      BY <1>4, <2>3 DEF Take
    <3>2. now <= e.at + Lifetime(e)
      BY <1>1, <2>1, <2>3, LifetimeIsNat DEF Expired, EntryInv, Entry
    <3>3. QED
      BY <1>1, <2>1, <3>1, <3>2 DEF RedeemInv
  <2>4. QED
    BY <2>2, <2>3
<1>5. CASE Restart
  BY <1>1, <1>5 DEF RedeemInv, Restart
<1>6. ASSUME UNCHANGED heldVars PROVE RedeemInv'
  BY <1>1, <1>6 DEF RedeemInv, heldVars
<1>7. QED
  BY <1>1, <1>2, <1>3, <1>4, <1>5, <1>6
     DEF EphemeralNext, PutSSOCode, BeginRegistration, BeginLogin, Map, Exchange, TakeSession,
         AddPasskey, ResolveLogin, DeletePasskey, Allow, Deny, Tick, ephemeralVars

\* A code or a ceremony is redeemed once at most, and alive.
THEOREM OneUse == ASSUME Sizes PROVE EphemeralSpec => []UsedOnce
<1>1. EntryInv /\ RedeemInv => UsedOnce
  BY DEF EntryInv, RedeemInv, UsedOnce
<1>2. EntryInv /\ RedeemInv /\ [EphemeralNext]_ephemeralVars => RedeemInv'
  BY NextRedeem
<1>3. QED
  BY InitEntries, NextEntries, InitRedeem, <1>1, <1>2, PTL DEF EphemeralSpec

-----------------------------------------------------------------------------
(* What abandoned entries leave behind *)

LEMMA InitSweep == EphemeralInit => SweepInv
BY DEF EphemeralInit, SweepInv, Bounded

LEMMA NextSweep == Sizes /\ EntryInv /\ SweepInv /\ [EphemeralNext]_ephemeralVars => SweepInv'
<1>1. SUFFICES ASSUME Sizes, EntryInv, SweepInv, [EphemeralNext]_ephemeralVars PROVE SweepInv'
  OBVIOUS
<1>2. ASSUME NEW e \in putting, Put(e) PROVE SweepInv'
  <2>1. e \in Entry /\ e.map \in Map /\ e.at \in Nat /\ Lifetime(e) \in Nat
    BY <1>1, LifetimeIsNat DEF EntryInv, Entry
  <2>2. swept' = [swept EXCEPT ![e.map] = e.at] /\ swept'[e.map] = e.at
        /\ \A m \in Map : m # e.map => swept'[m] = swept[m]
    BY <1>1, <1>2, <2>1 DEF Put, SweepInv
  <2>3. ASSUME NEW f \in held' PROVE swept'[f.map] <= f.at + Lifetime(f)
    <3>1. CASE f = e
      BY <2>1, <2>2, <3>1
    <3>2. CASE f # e
      <4>1. f \in held /\ (f.map # e.map \/ ~Expired(f, e.at))
        BY <1>2, <3>2 DEF Put
      <4>2. f.map \in Map /\ f.at \in Nat /\ Lifetime(f) \in Nat
        BY <1>1, <4>1, LifetimeIsNat DEF EntryInv, Entry
      <4>3. QED
        BY <1>1, <2>1, <2>2, <4>1, <4>2 DEF SweepInv, Bounded, Expired
    <3>3. QED
      BY <3>1, <3>2
  <2>4. QED
    BY <1>1, <2>1, <2>2, <2>3 DEF SweepInv, Bounded
<1>3. CASE Restart
  BY <1>3 DEF Restart, SweepInv, Bounded
<1>4. ASSUME UNCHANGED swept, held' \subseteq held PROVE SweepInv'
  BY <1>1, <1>4 DEF SweepInv, Bounded, Lifetime
<1>5. QED
  BY <1>1, <1>2, <1>3, <1>4
     DEF EphemeralNext, Stamp, PutSSOCode, BeginRegistration, BeginLogin, Exchange, TakeSession,
         Take, AddPasskey, ResolveLogin, DeletePasskey, Allow, Deny, Tick, heldVars, ephemeralVars

\* Whatever is held was alive at the last put into its map.
THEOREM MapsAreSwept == ASSUME Sizes PROVE EphemeralSpec => []Bounded
<1>1. SweepInv => Bounded
  BY DEF SweepInv
<1>2. EntryInv /\ SweepInv /\ [EphemeralNext]_ephemeralVars => SweepInv'
  BY NextSweep
<1>3. QED
  BY InitEntries, NextEntries, InitSweep, <1>1, <1>2, PTL DEF EphemeralSpec

-----------------------------------------------------------------------------
(* Credentials *)

LEMMA InitCeremony == EphemeralInit => CeremonyInv
BY DEF EphemeralInit, CeremonyInv

LEMMA NextCeremony == EntryInv /\ CeremonyInv /\ [EphemeralNext]_ephemeralVars => CeremonyInv'
<1>1. SUFFICES ASSUME EntryInv, CeremonyInv, [EphemeralNext]_ephemeralVars PROVE CeremonyInv'
  OBVIOUS
<1>2. ASSUME NEW map \in Map, NEW owner \in SUBSET Users, Stamp(map, owner)
      PROVE  CeremonyInv'
  <2>1. \A e \in began : e.id # next
    BY <1>1 DEF EntryInv, Entry
  <2>2. QED
    BY <1>1, <1>2, <2>1 DEF CeremonyInv, Stamp, credVars
<1>3. ASSUME NEW e \in putting, Put(e) PROVE CeremonyInv'
  BY <1>1, <1>3 DEF CeremonyInv, Put, credVars
<1>4. ASSUME NEW e \in held, Take(e), working' \subseteq working \cup {e}
      PROVE  CeremonyInv'
  <2>1. /\ UNCHANGED <<began, putting, creds, registered>>
        /\ held' = held \ {e} /\ e \in began /\ e \notin putting
    BY <1>1, <1>4 DEF Take, EntryInv
  <2>2. QED
    BY <1>1, <1>4, <2>1 DEF CeremonyInv
<1>5. ASSUME NEW e \in working, AddPasskey(e) PROVE CeremonyInv'
  <2>1. UNCHANGED <<began, putting, held>> /\ working' = working \ {e}
    BY <1>5 DEF AddPasskey, heldVars
  <2>2. CASE UNCHANGED <<creds, registered>>
    BY <1>1, <2>1, <2>2 DEF CeremonyInv
  <2>3. CASE \E c \in CredIds, u \in e.owner :
               /\ \A p \in creds : p.cred # c
               /\ creds' = creds \cup {[cred |-> c, user |-> u, entry |-> e]}
               /\ registered' = registered \cup {[cred |-> c, user |-> u, entry |-> e]}
    <3>1. PICK c \in CredIds, u \in e.owner :
               /\ \A p \in creds : p.cred # c
               /\ creds' = creds \cup {[cred |-> c, user |-> u, entry |-> e]}
               /\ registered' = registered \cup {[cred |-> c, user |-> u, entry |-> e]}
      BY <2>3
    <3> DEFINE new == [cred |-> c, user |-> u, entry |-> e]
    <3>2. new.cred = c /\ new.user = u /\ new.entry = e
      OBVIOUS
    <3>3. e \in began /\ e \notin held /\ e \notin putting /\ e.owner = {u}
      BY <1>1, <3>1 DEF CeremonyInv, EntryInv
    <3>4. \A p \in registered : p.entry # e
      BY <1>1 DEF CeremonyInv
    <3>. HIDE DEF new
    <3>5. QED
      BY <1>1, <2>1, <3>1, <3>2, <3>3, <3>4 DEF CeremonyInv, new
  <2>4. QED
    BY <1>5, <2>2, <2>3 DEF AddPasskey
<1>6. ASSUME NEW e \in working, ResolveLogin(e) PROVE CeremonyInv'
  BY <1>1, <1>6 DEF CeremonyInv, ResolveLogin, heldVars
<1>7. ASSUME NEW p \in creds, DeletePasskey(p) PROVE CeremonyInv'
  BY <1>1, <1>7 DEF CeremonyInv, DeletePasskey, heldVars
<1>8. CASE Restart
  BY <1>1, <1>8 DEF CeremonyInv, Restart
<1>9. ASSUME UNCHANGED heldVars, UNCHANGED credVars PROVE CeremonyInv'
  BY <1>1, <1>9 DEF CeremonyInv, heldVars, credVars
<1>10. QED
  BY <1>1, <1>2, <1>3, <1>4, <1>5, <1>6, <1>7, <1>8, <1>9
     DEF EphemeralNext, PutSSOCode, BeginRegistration, BeginLogin, Map, Exchange, TakeSession,
         Allow, Deny, Tick, ephemeralVars

\* A credential stems from a ceremony of its own, begun by its user.
THEOREM CredentialsAreTraced == EphemeralSpec => []CredentialsTraced
<1>1. EntryInv /\ CeremonyInv => CredentialsTraced
  BY DEF EntryInv, CeremonyInv, CredentialsTraced
<1>2. QED
  BY InitEntries, NextEntries, InitCeremony, NextCeremony, <1>1, PTL DEF EphemeralSpec

-----------------------------------------------------------------------------
(* The limiter *)

\* Seen from a window of this life: an open one is the last its client had, and
\* has counted every request it let through; without one they are all past.
Ahead(g) ==
  LET w == hits[g.key]
  IN  IF w.count = 0 THEN g.open + Window < now
      ELSE g.open + Window < w.open \/ (g.open = w.open /\ g.n <= w.count)

HitInv ==
  /\ now \in Nat /\ life \in Nat
  /\ hits \in [Keys -> [count : 0..Max, open : Nat]]
  /\ \A k \in Keys : hits[k].open <= now
  /\ grants \subseteq [key : Keys, life : Nat, open : Nat, n : 1..Max, at : Nat]
  /\ \A g \in grants : /\ g.life <= life /\ g.open <= g.at /\ g.at <= g.open + Window
                       /\ g.life = life => Ahead(g)
  /\ \A g, h \in grants : SameClient(g, h) =>
       \/ g.open + Window < h.open
       \/ h.open + Window < g.open
       \/ g.open = h.open /\ (g.n = h.n => g = h)

LEMMA InitHits == Sizes /\ EphemeralInit => HitInv
BY DEF EphemeralInit, HitInv, NoWindow, Sizes

LEMMA NextHits == Sizes /\ HitInv /\ [EphemeralNext]_ephemeralVars => HitInv'
<1>1. SUFFICES ASSUME Sizes, HitInv, [EphemeralNext]_ephemeralVars PROVE HitInv'
  OBVIOUS
<1>2. Window \in Nat /\ Max \in Nat \ {0}
  BY <1>1 DEF Sizes
<1>3. ASSUME NEW k \in Keys, Allow(k) PROVE HitInv'
  <2> DEFINE new == [key |-> k, life |-> life, open |-> Hit(k).open,
                     n |-> Hit(k).count, at |-> now]
  <2>1. /\ Hit(k) \in [count : 1..Max, open : Nat]
        /\ Hit(k).open <= now /\ now <= Hit(k).open + Window
    BY <1>1, <1>2, <1>3 DEF HitInv, Allow, Hit, Over
  <2>2. /\ new \in [key : Keys, life : Nat, open : Nat, n : 1..Max, at : Nat]
        /\ new.key = k /\ new.life = life /\ new.open = Hit(k).open
        /\ new.n = Hit(k).count /\ new.at = now
    BY <1>1, <2>1 DEF HitInv
  <2>3. /\ grants' = grants \cup {new} /\ UNCHANGED <<now, life>>
        /\ hits' \in [Keys -> [count : 0..Max, open : Nat]]
        /\ hits'[k] = Hit(k)
        /\ \A x \in Keys \ {k} :
             hits'[x] = IF Over(hits[x]) THEN NoWindow ELSE hits[x]
    BY <1>1, <1>2, <1>3, <2>1 DEF HitInv, Allow, NoWindow
  <2>. HIDE DEF new
  <2>4. \A g \in grants : g.key = k /\ g.life = life =>
          \/ g.open + Window < Hit(k).open
          \/ g.open = Hit(k).open /\ g.n < Hit(k).count
    BY <1>1, <1>2 DEF HitInv, Ahead, Hit, Over
  <2>5. \A x \in Keys : hits'[x].open <= now'
    BY <1>1, <2>1, <2>3 DEF HitInv, NoWindow
  <2>6. ASSUME NEW g \in grants'
        PROVE  /\ g.life <= life' /\ g.open <= g.at /\ g.at <= g.open + Window
               /\ g.life = life' => Ahead(g)'
    <3>1. CASE g = new
      BY <1>1, <1>2, <2>1, <2>2, <2>3, <3>1 DEF Ahead, HitInv
    <3>2. CASE g # new
      <4>1. g \in grants
        BY <2>3, <3>2
      <4>2. CASE g.key = k
        BY <1>1, <1>2, <2>1, <2>3, <2>4, <4>1, <4>2 DEF HitInv, Ahead
      <4>3. CASE g.key # k
        BY <1>1, <1>2, <2>3, <4>1, <4>3 DEF HitInv, Ahead, Over, NoWindow
      <4>4. QED
        BY <4>2, <4>3
    <3>3. QED
      BY <3>1, <3>2
  <2>7. ASSUME NEW g \in grants', NEW h \in grants', SameClient(g, h)
        PROVE  \/ g.open + Window < h.open
               \/ h.open + Window < g.open
               \/ g.open = h.open /\ (g.n = h.n => g = h)
    <3>1. CASE g = new /\ h = new
      BY <3>1
    <3>2. CASE g = new /\ h # new
      <4>1. h \in grants /\ h.key = k /\ h.life = life
        BY <2>2, <2>3, <2>7, <3>2 DEF SameClient
      <4>2. QED
        BY <1>1, <2>1, <2>2, <2>4, <3>2, <4>1 DEF HitInv
    <3>3. CASE g # new /\ h = new
      <4>1. g \in grants /\ g.key = k /\ g.life = life
        BY <2>2, <2>3, <2>7, <3>3 DEF SameClient
      <4>2. QED
        BY <1>1, <2>1, <2>2, <2>4, <3>3, <4>1 DEF HitInv
    <3>4. CASE g # new /\ h # new
      BY <1>1, <2>3, <2>7, <3>4 DEF HitInv
    <3>5. QED
      BY <3>1, <3>2, <3>3, <3>4
  <2>8. grants' \subseteq [key : Keys, life : Nat, open : Nat, n : 1..Max, at : Nat]
    BY <1>1, <2>2, <2>3 DEF HitInv
  <2>9. QED
    BY <1>1, <2>3, <2>5, <2>6, <2>7, <2>8 DEF HitInv
<1>4. ASSUME NEW k \in Keys, Deny(k) PROVE HitInv'
  <2>1. /\ UNCHANGED <<now, life, grants>>
        /\ hits' \in [Keys -> [count : 0..Max, open : Nat]]
        /\ \A x \in Keys : hits'[x] = IF Over(hits[x]) THEN NoWindow ELSE hits[x]
    BY <1>1, <1>2, <1>4 DEF HitInv, Deny, NoWindow
  <2>2. \A x \in Keys : hits'[x].open <= now'
    BY <1>1, <2>1 DEF HitInv, NoWindow
  <2>3. ASSUME NEW g \in grants, g.life = life PROVE Ahead(g)'
    BY <1>1, <1>2, <2>1, <2>3 DEF HitInv, Ahead, Over, NoWindow
  <2>4. QED
    BY <1>1, <2>1, <2>2, <2>3 DEF HitInv
<1>5. CASE Restart
  <2>1. /\ hits' \in [Keys -> [count : 0..Max, open : Nat]]
        /\ \A k \in Keys : hits'[k].open <= now'
        /\ life' = life + 1 /\ UNCHANGED <<now, grants>>
    BY <1>1, <1>2, <1>5 DEF Restart, NoWindow, HitInv
  <2>2. \A g \in grants : g.life <= life' /\ g.life # life'
    BY <1>1, <2>1 DEF HitInv
  <2>3. QED
    BY <1>1, <2>1, <2>2 DEF HitInv
<1>6. CASE Tick
  <2>1. now' = now + 1 /\ UNCHANGED <<life, hits, grants>>
    BY <1>6 DEF Tick, hitVars
  <2>2. \A g \in grants : Ahead(g) => Ahead(g)'
    BY <1>1, <1>2, <2>1 DEF HitInv, Ahead
  <2>3. QED
    BY <1>1, <2>1, <2>2 DEF HitInv
<1>7. ASSUME UNCHANGED <<now, life>>, UNCHANGED hitVars PROVE HitInv'
  BY <1>1, <1>7 DEF HitInv, Ahead, hitVars
<1>8. QED
  BY <1>1, <1>3, <1>4, <1>5, <1>6, <1>7
     DEF EphemeralNext, PutSSOCode, BeginRegistration, BeginLogin, Stamp, Put, Exchange,
         TakeSession, Take, AddPasskey, ResolveLogin, DeletePasskey, ephemeralVars

\* Max requests a window, and never more than two windows in any stretch of its
\* length: what the limiter promises each client while the server runs.
THEOREM QuotaIsKept == ASSUME Sizes PROVE EphemeralSpec => []QuotaHolds
<1>1. HitInv => QuotaHolds
  <2>1. SUFFICES ASSUME HitInv PROVE QuotaHolds
    OBVIOUS
  <2>2. \A g, h \in grants : SameClient(g, h) /\ g.open = h.open /\ g.n = h.n => g = h
    BY <2>1 DEF HitInv, Sizes
  <2>3. ASSUME NEW f \in grants, NEW g \in grants, NEW h \in grants,
               SameClient(f, g), SameClient(g, h), f.open < g.open, g.open < h.open
        PROVE  h.at > f.at + Window
    <3>1. f.open + Window < g.open /\ g.open + Window < h.open
      BY <2>1, <2>3 DEF HitInv, Sizes
    <3>2. f.at <= f.open + Window /\ h.open <= h.at
      BY <2>1 DEF HitInv
    <3>3. QED
      BY <2>1, <3>1, <3>2 DEF HitInv, Sizes
  <2>4. QED
    BY <2>1, <2>2, <2>3 DEF QuotaHolds, HitInv
<1>2. HitInv /\ [EphemeralNext]_ephemeralVars => HitInv'
  BY NextHits
<1>3. EphemeralInit => HitInv
  BY InitHits
<1>4. QED
  BY <1>1, <1>2, <1>3, PTL DEF EphemeralSpec
=============================================================================
