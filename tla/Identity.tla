------------------------------ MODULE Identity ------------------------------
(***************************************************************************)
(* Accounts, second factors and sign-in (server/main.go at start,          *)
(* internal/store/users.go and orgs.go, internal/twofa,                    *)
(* internal/api/auth_handlers.go and oidc_handlers.go).  Every request is  *)
(* a goroutine, every statement a transaction of its own, and the rows are *)
(* shared.                                                                 *)
(*                                                                         *)
(* One local account, the admin, has a password and may enrol TOTP; the    *)
(* people of the identity provider get their account at their first        *)
(* sign-in.  OIDC and SAML are one provider here, and passwords, signatures *)
(* and ciphertexts are taken to be valid.                                  *)
(***************************************************************************)
EXTENDS Naturals, FiniteSets

CONSTANTS
  Handlers,       \* requests in progress at once
  Admin,          \* the account seedAdmin creates
  People,         \* subjects of the identity provider
  MaxSecrets,     \* bound on TOTP secrets generated
  MaxLists,       \* bound on lists of recovery codes generated
  MaxFailures,    \* bound on statements and reads that fail
  MaxCrashes      \* bound on restarts

ASSUME IdentityAssumption ==
  /\ Admin \notin People
  /\ {MaxSecrets, MaxLists, MaxFailures, MaxCrashes} \subseteq Nat

VARIABLES
  phase,      \* how far the start of the server is
  rows,       \* users: rows per name
  super,      \* users.is_superadmin
  members,    \* accounts with a row in memberships
  totp,       \* the admin's row in user_totp
  made,       \* secrets and lists generated so far
  req,        \* what each request is doing
  session,    \* accounts holding tokens
  pending,    \* the admin holds a token that waits for the second factor
  failures, crashes

\* History: what the properties compare the rows with.
VARIABLES
  torn,       \* the seeding was cut short
  unjoined,   \* accounts whose membership failed to be written since the last start
  issued,     \* recovery codes the last enrolment showed
  spent,      \* those that were accepted since
  crossed,    \* recovery codes were overwritten from a stale read, or not written
  confirmed,  \* secrets confirmed with a code
  raced       \* an enrolment was begun anew while another was being confirmed

accountVars == <<rows, super, members, torn, unjoined>>
totpVars    == <<totp, made, issued, spent, crossed, confirmed, raced>>
signInVars  == <<session, pending>>
vars == <<phase, accountVars, totpVars, signInVars, req, failures, crashes>>

Account == {Admin} \cup People

\* Two of the ten codes of a list.
Code    == (1..MaxLists) \X {1, 2}
List(l) == {l} \X {1, 2}

\* user_totp: a secret, 0 if there is no row.
Row   == [secret : 0..MaxSecrets, on : BOOLEAN, codes : SUBSET Code]
NoRow == [secret |-> 0, on |-> FALSE, codes |-> {}]

Op   == {"idle", "create", "join", "issue", "login", "enable", "spend", "accept"}
Idle == [op |-> "idle", who |-> Admin, row |-> NoRow, code |-> <<0, 0>>, to |-> "none"]
Request == [op : Op, who : Account, row : Row, code : Code \cup {<<0, 0>>},
            to : {"none", "session", "disable"}]

Up == phase = "up"

Fails ==
  /\ failures < MaxFailures
  /\ failures' = failures + 1

Start(h, op, who, row, code, to) ==
  /\ Up
  /\ req[h] = Idle
  /\ req' = [req EXCEPT ![h] = [op |-> op, who |-> who, row |-> row, code |-> code, to |-> to]]

At(h, op)   == Up /\ req[h].op = op
Goto(h, op) == req' = [req EXCEPT ![h].op = op]
Done(h)     == req' = [req EXCEPT ![h] = Idle]

-----------------------------------------------------------------------------
(* Start of the server *)

\* seedAdmin: nothing on a database with users.
Seed ==
  /\ phase = "seed"
  /\ IF \E n \in Account : rows[n] > 0
       THEN phase' = "backfill" /\ UNCHANGED rows
       ELSE phase' = "promote" /\ rows' = [rows EXCEPT ![Admin] = 1]
  /\ UNCHANGED <<super, members, torn, unjoined, totpVars, signInVars, req, failures, crashes>>

\* MakeSuperadmin
Promote ==
  /\ phase = "promote"
  /\ phase' = "backfill"
  /\ super' = super \cup {Admin}
  /\ UNCHANGED <<rows, members, torn, unjoined, totpVars, signInVars, req, failures, crashes>>

\* BackfillMemberships: every account without a membership gets one.  An error is
\* logged, and the server starts all the same.
Backfill ==
  /\ phase = "backfill"
  /\ phase' = "up"
  /\ \/ /\ members' = members \cup {n \in Account : rows[n] > 0}
        /\ unjoined' = {}
        /\ UNCHANGED failures
     \/ /\ Fails
        /\ unjoined' = {n \in Account : rows[n] > 0} \ members
        /\ UNCHANGED members
  /\ UNCHANGED <<rows, super, torn, totpVars, signInVars, req, crashes>>

\* The process dies: requests are gone, tokens and rows are not.
Crash ==
  /\ crashes < MaxCrashes
  /\ crashes' = crashes + 1
  /\ phase' = "seed"
  /\ torn' = (torn \/ phase = "promote")
  /\ req' = [h \in Handlers |-> Idle]
  /\ UNCHANGED <<rows, super, members, unjoined, totpVars, session, pending, failures>>

-----------------------------------------------------------------------------
(* Sign-in by the identity provider *)

\* An access and a refresh token; who holds them until they lapse.
IssueTokens(n) == session' = session \cup {n}

\* A token that says the password was right, for handle2FAVerify.
IssuePending == pending' = TRUE

\* handleOIDCCallback, handleSAMLACS: the identity is valid; is the account known?
\* A lookup that fails, for whatever reason, is taken for a person not seen before.
Callback(h, n) ==
  /\ \/ /\ rows[n] > 0
        /\ Start(h, "issue", n, NoRow, <<0, 0>>, "none")
        /\ UNCHANGED failures
     \/ /\ Start(h, "create", n, NoRow, <<0, 0>>, "none")
        /\ IF rows[n] = 0 THEN UNCHANGED failures ELSE Fails
  /\ UNCHANGED <<phase, accountVars, totpVars, signInVars, crashes>>

\* Fault variant: users.upn is not unique.
InsertFree(n) == rows' = [rows EXCEPT ![n] = @ + 1]

\* users.upn is unique.
Insert(n) == rows[n] = 0 /\ rows' = [rows EXCEPT ![n] = 1]

\* ensureSSOUser: CreateSSOUser, which loses against a callback for the same person.
Create(h) ==
  /\ At(h, "create")
  /\ \/ Insert(req[h].who) /\ Goto(h, "join") /\ UNCHANGED failures
     \/ rows[req[h].who] > 0 /\ Done(h) /\ UNCHANGED <<rows, failures>>
     \/ Fails /\ Done(h) /\ UNCHANGED rows
  /\ UNCHANGED <<phase, super, members, torn, unjoined, totpVars, signInVars, crashes>>

\* AddMembership; its error is dropped.
Join(h) ==
  /\ At(h, "join")
  /\ Goto(h, "issue")
  /\ \/ members' = members \cup {req[h].who} /\ UNCHANGED <<unjoined, failures>>
     \/ Fails /\ unjoined' = unjoined \cup {req[h].who} /\ UNCHANGED members
  /\ UNCHANGED <<phase, rows, super, torn, totpVars, signInVars, crashes>>

\* The tokens are handed out, behind a one-time code.
SignIn(h) ==
  /\ At(h, "issue")
  /\ IssueTokens(req[h].who)
  /\ Done(h)
  /\ UNCHANGED <<phase, accountVars, totpVars, pending, failures, crashes>>

-----------------------------------------------------------------------------
(* Password and second factor: the admin *)

\* What the middleware asks of a request for the account's own settings.
Authn == rows[Admin] > 0 /\ Admin \in session

\* TwoFA.Status
Status == [NoRow EXCEPT !.on = totp.on]

\* handleLogin: TwoFA.Status is read; a read that fails counts as not enrolled.
Login(h) ==
  /\ rows[Admin] > 0
  /\ \/ Start(h, "login", Admin, Status, <<0, 0>>, "none") /\ UNCHANGED failures
     \/ Fails /\ Start(h, "login", Admin, NoRow, <<0, 0>>, "none")
  /\ UNCHANGED <<phase, accountVars, totpVars, signInVars, crashes>>

\* Tokens, or a pending token if a second factor is asked for.
Answer(h) ==
  /\ At(h, "login")
  /\ IF req[h].row.on
       THEN IssuePending /\ UNCHANGED session
       ELSE IssueTokens(Admin) /\ UNCHANGED pending
  /\ Done(h)
  /\ UNCHANGED <<phase, accountVars, totpVars, failures, crashes>>

\* Tokens and pending tokens lapse.
Lapse ==
  /\ \/ Admin \in session /\ session' = session \ {Admin} /\ UNCHANGED pending
     \/ pending /\ pending' = FALSE /\ UNCHANGED session
  /\ UNCHANGED <<phase, accountVars, totpVars, req, failures, crashes>>

\* Fault variant: the secret is replaced and the enrolment stays enabled.
PendingEnabled == [secret |-> made.secrets + 1, on |-> totp.on, codes |-> totp.codes]

\* UpsertTOTPPending: a new secret, not enabled.
Pending == [secret |-> made.secrets + 1, on |-> FALSE, codes |-> {}]

\* handle2FABegin
Begin ==
  /\ Up
  /\ Authn
  /\ made.secrets < MaxSecrets
  /\ made' = [made EXCEPT !.secrets = @ + 1]
  /\ totp' = Pending
  /\ raced' = (raced \/ \E h \in Handlers : req[h].op = "enable")
  /\ UNCHANGED <<phase, accountVars, issued, spent, crossed, confirmed, signInVars, req, failures, crashes>>

\* TwoFA.Enable, first half: the code is right for the secret that was read.
Confirm(h) ==
  /\ Authn
  /\ totp.secret > 0
  /\ Start(h, "enable", Admin, NoRow, <<0, 0>>, "none")
  /\ confirmed' = confirmed \cup {totp.secret}
  /\ UNCHANGED <<phase, accountVars, totp, made, issued, spent, crossed, raced, signInVars, failures, crashes>>

\* EnableTOTP: whatever secret the row holds by now.
Enable(h) ==
  /\ At(h, "enable")
  /\ made.lists < MaxLists
  /\ made' = [made EXCEPT !.lists = @ + 1]
  /\ IF totp.secret = 0 THEN UNCHANGED <<totp, issued, spent, crossed>>
     ELSE /\ totp' = [totp EXCEPT !.on = TRUE, !.codes = List(made.lists + 1)]
          /\ issued' = List(made.lists + 1)
          /\ spent' = {}
          /\ crossed' = FALSE
  /\ Done(h)
  /\ UNCHANGED <<phase, accountVars, confirmed, raced, signInVars, failures, crashes>>

\* VerifyLogin, first half, of a login or a step-up: the row is read, and the code
\* is the current one of the secret or one of the recovery codes.
Verify(h) ==
  /\ totp.on
  /\ \E to \in {"session", "disable"} :
       /\ IF to = "session" THEN pending ELSE Authn
       /\ \/ Start(h, "accept", Admin, NoRow, <<0, 0>>, to)
          \/ \E c \in totp.codes : Start(h, "spend", Admin, totp, c, to)
  /\ UNCHANGED <<phase, accountVars, totpVars, signInVars, failures, crashes>>

\* Fault variant: the code that was used is written back with the others.
RemainingAll(h) == req[h].row.codes

\* What SetTOTPRecovery writes: the list as it was read, without the code.
Remaining(h) == req[h].row.codes \ {req[h].code}

\* VerifyLogin, second half: the rest of the list is written back, an error is
\* dropped, and the code is accepted either way.
Spend(h) ==
  /\ At(h, "spend")
  /\ spent' = spent \cup {req[h].code}
  /\ \/ /\ totp' = IF totp.secret = 0 THEN totp ELSE [totp EXCEPT !.codes = Remaining(h)]
        /\ crossed' = (crossed \/ totp # req[h].row)
        /\ UNCHANGED failures
     \/ Fails /\ crossed' = TRUE /\ UNCHANGED totp
  /\ req' = [req EXCEPT ![h] = [Idle EXCEPT !.op = "accept", !.to = req[h].to]]
  /\ UNCHANGED <<phase, accountVars, made, issued, confirmed, raced, signInVars, crashes>>

\* handle2FADisable, once the step-up is through: DeleteTOTP.
Disable == totp' = NoRow

\* The accepted code leads to tokens, or to the end of the enrolment.
Accept(h) ==
  /\ At(h, "accept")
  /\ \/ req[h].to = "session" /\ IssueTokens(Admin) /\ UNCHANGED totp
     \/ req[h].to = "disable" /\ Disable /\ UNCHANGED session
  /\ Done(h)
  /\ UNCHANGED <<phase, accountVars, made, issued, spent, crossed, confirmed, raced, pending, failures, crashes>>

Init ==
  /\ phase = "seed"
  /\ rows = [n \in Account |-> 0]
  /\ super = {} /\ members = {}
  /\ totp = NoRow
  /\ made = [secrets |-> 0, lists |-> 0]
  /\ req = [h \in Handlers |-> Idle]
  /\ session = {} /\ pending = FALSE
  /\ failures = 0 /\ crashes = 0
  /\ torn = FALSE /\ unjoined = {}
  /\ issued = {} /\ spent = {} /\ crossed = FALSE
  /\ confirmed = {} /\ raced = FALSE

Next ==
  \/ Seed \/ Promote \/ Backfill \/ Crash \/ Lapse \/ Begin
  \/ \E h \in Handlers :
       \/ \E n \in People : Callback(h, n)
       \/ Create(h) \/ Join(h) \/ SignIn(h)
       \/ Login(h) \/ Answer(h) \/ Confirm(h) \/ Enable(h)
       \/ Verify(h) \/ Spend(h) \/ Accept(h)

Spec == Init /\ [][Next]_vars

-----------------------------------------------------------------------------
(* Properties *)

TypeOK ==
  /\ phase \in {"seed", "promote", "backfill", "up"}
  /\ rows \in [Account -> Nat]
  /\ super \subseteq {Admin} /\ members \subseteq Account /\ unjoined \subseteq Account
  /\ totp \in Row
  /\ made \in [secrets : 0..MaxSecrets, lists : 0..MaxLists]
  /\ req \in [Handlers -> Request]
  /\ session \subseteq Account
  /\ {issued, spent} \subseteq SUBSET Code
  /\ confirmed \subseteq 1..MaxSecrets
  /\ {pending, torn, crossed, raced} \subseteq BOOLEAN
  /\ failures \in 0..MaxFailures /\ crashes \in 0..MaxCrashes

\* A person has one account however many callbacks overlap, and every account is
\* a member of the organisation once the server is up, through crashes between
\* the two inserts, unless the membership failed to be written since the start.
\* The admin is super-admin then, unless the seeding was cut short.
AccountsSettled ==
  /\ \A n \in Account :
       /\ rows[n] <= 1
       /\ Up /\ rows[n] = 1 =>
            \/ n \in members \cup unjoined
            \/ \E h \in Handlers : req[h].who = n /\ req[h].op = "join"
  /\ Up => Admin \in super \/ torn

\* The recovery codes in force are those the last enrolment showed and that were
\* not used since, through new enrolments and step-ups in between, as long as no
\* list was written back that another request had changed, or could not be.
CodesTally == totp.on /\ ~crossed => totp.codes = issued \ spent

\* A second factor that is asked for was confirmed with a code, unless a new
\* enrolment began while an earlier one was being confirmed.
EnabledIsConfirmed == totp.on /\ ~raced => totp.secret \in confirmed
=============================================================================
