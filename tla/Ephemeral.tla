------------------------------ MODULE Ephemeral ------------------------------
(***************************************************************************)
(* What the server keeps in memory for a short time, behind a mutex: the   *)
(* one-time codes that end a single sign-on (server/internal/api/          *)
(* oidc_handlers.go), the ceremonies of passkeys (internal/passkey/        *)
(* passkey.go, store/passkey.go) and the windows of the rate limiter       *)
(* (api/ratelimit.go).  Entries lapse by themselves: they are looked at,   *)
(* and cleared away, when somebody comes by.                               *)
(*                                                                         *)
(* Signatures are taken to be checked: a step of a ceremony that has a     *)
(* wrong one fails.  Random ids are numbers handed out in order.           *)
(***************************************************************************)
EXTENDS Naturals

CONSTANTS
  Users,
  CodeLife,       \* how long a code lives: 60 s
  CeremonyLife,   \* how long a ceremony lives: 5 minutes
  CredIds,        \* credential ids authenticators come up with
  Keys,           \* client addresses
  Max,            \* rateLimiter.max
  Window          \* rateLimiter.window

\* What the source gives them: 10 requests a minute at the rate limited endpoints.
Sizes == {CodeLife, CeremonyLife, Window} \subseteq Nat /\ Max \in Nat \ {0}

VARIABLES
  now,            \* time.Now()
  next,           \* the next id
  putting,        \* entries stamped, on their way into their map
  held,           \* ssoCodes and Service.sessions
  working,        \* ceremonies taken by a finish that is not through
  creds,          \* passkey_credentials
  hits            \* rateLimiter.hits

\* History.
VARIABLES
  life,           \* how often the server was started
  began,          \* entries ever stamped
  redeemed,       \* when which of them was taken alive
  swept,          \* per map, the time the last put swept it by
  registered,     \* credentials ever stored, with their ceremony
  grants          \* requests the limiter let through

heldVars == <<next, putting, held, began, redeemed, swept>>
credVars == <<working, creds, registered>>
hitVars  == <<hits, grants>>
ephemeralVars == <<now, life, heldVars, credVars, hitVars>>

-----------------------------------------------------------------------------

Map == {"codes", "sessions"}

\* owner is {} for a login without a name.
Entry == [id : Nat, map : Map, owner : SUBSET Users, at : Nat]

Lifetime(e) == IF e.map = "codes" THEN CodeLife ELSE CeremonyLife

Expired(e, t) == t > e.at + Lifetime(e)

-----------------------------------------------------------------------------
(* putSSOCode and putSession: id and time are taken before the lock, so that  *)
(* puts need not come in the order of their times.                            *)

Stamp(map, owner) ==
  LET e == [id |-> next, map |-> map, owner |-> owner, at |-> now]
  IN  /\ next' = next + 1
      /\ putting' = putting \cup {e}
      /\ began' = began \cup {e}
      /\ UNCHANGED <<now, life, held, redeemed, swept, credVars, hitVars>>

\* handleOIDCCallback and handleSAMLACS, BeginRegistration, BeginLogin.
PutSSOCode(u)        == Stamp("codes", {u})
BeginRegistration(u) == Stamp("sessions", {u})
BeginLogin           == Stamp("sessions", {})

\* What has expired in the map by the time of the new entry goes.
Put(e) ==
  /\ e \in putting
  /\ putting' = putting \ {e}
  /\ held' = {f \in held : f.map # e.map \/ ~Expired(f, e.at)} \cup {e}
  /\ swept' = [swept EXCEPT ![e.map] = e.at]
  /\ UNCHANGED <<now, life, next, began, redeemed, credVars, hitVars>>

-----------------------------------------------------------------------------
(* takeSSOCode and takeSession: gone from the map in any case, good only if    *)
(* still alive.                                                                *)

Take(e) ==
  /\ e \in held
  /\ held' = held \ {e}
  /\ redeemed' = IF Expired(e, now) THEN redeemed
                 ELSE redeemed \cup {[entry |-> e, at |-> now]}
  /\ UNCHANGED <<now, life, next, putting, began, swept, creds, registered, hitVars>>

\* handleOIDCExchange
Exchange(e) == e.map = "codes" /\ Take(e) /\ UNCHANGED working

\* The first half of FinishRegistration and FinishLogin.  A session of another
\* user, or of the other ceremony, is used up and leads to nothing.
TakeSession(e, caller) ==
  /\ e.map = "sessions"
  /\ Take(e)
  /\ working' = IF Expired(e, now) \/ e.owner # caller THEN working
                ELSE working \cup {e}

\* The second half of FinishRegistration: the attestation is bad, the insert
\* fails, for instance because the credential id is there already, or it is
\* stored.
AddPasskey(e) ==
  /\ e \in working /\ e.owner # {}
  /\ working' = working \ {e}
  /\ \/ \E c \in CredIds, u \in e.owner :
          /\ \A p \in creds : p.cred # c
          /\ creds' = creds \cup {[cred |-> c, user |-> u, entry |-> e]}
          /\ registered' = registered \cup {[cred |-> c, user |-> u, entry |-> e]}
     \/ UNCHANGED <<creds, registered>>
  /\ UNCHANGED <<now, life, heldVars, hitVars>>

\* The second half of FinishLogin: tokens for the owner of the credential, or an
\* error.  What it counts on the credential is left out.
ResolveLogin(e) ==
  /\ e \in working /\ e.owner = {}
  /\ working' = working \ {e}
  /\ UNCHANGED <<now, life, heldVars, creds, registered, hitVars>>

\* handlePasskeyDelete
DeletePasskey(p) ==
  /\ p \in creds
  /\ creds' = creds \ {p}
  /\ UNCHANGED <<now, life, heldVars, working, registered, hitVars>>

-----------------------------------------------------------------------------
(* rateLimiter.allow: fixed windows, opened by the first hit.                  *)

NoWindow == [count |-> 0, open |-> 0]

Over(w) == w.count = 0 \/ now > w.open + Window

\* The window of k after one more hit.
Hit(k) ==
  IF Over(hits[k]) THEN [count |-> 1, open |-> now]
  ELSE [count |-> hits[k].count + 1, open |-> hits[k].open]

Allow(k) ==
  /\ Over(hits[k]) \/ hits[k].count < Max
  /\ hits' = [x \in Keys |-> IF x = k THEN Hit(k)
                             ELSE IF Over(hits[x]) THEN NoWindow ELSE hits[x]]
  /\ grants' = grants \cup {[key |-> k, life |-> life, open |-> Hit(k).open,
                             n |-> Hit(k).count, at |-> now]}
  /\ UNCHANGED <<now, life, heldVars, credVars>>

\* A hit that is turned away is not counted.
Deny(k) ==
  /\ ~Over(hits[k]) /\ hits[k].count >= Max
  /\ hits' = [x \in Keys |-> IF Over(hits[x]) THEN NoWindow ELSE hits[x]]
  /\ UNCHANGED <<now, life, heldVars, credVars, grants>>

-----------------------------------------------------------------------------

\* All of it is in memory but the credentials.
Restart ==
  /\ life' = life + 1
  /\ putting' = {} /\ held' = {} /\ working' = {}
  /\ hits' = [k \in Keys |-> NoWindow]
  /\ swept' = [m \in Map |-> 0]
  /\ UNCHANGED <<now, next, began, redeemed, creds, registered, grants>>

Tick ==
  /\ now' = now + 1
  /\ UNCHANGED <<life, heldVars, credVars, hitVars>>

EphemeralInit ==
  /\ now = 0 /\ next = 0 /\ life = 0
  /\ putting = {} /\ held = {} /\ began = {} /\ redeemed = {}
  /\ swept = [m \in Map |-> 0]
  /\ working = {} /\ creds = {} /\ registered = {}
  /\ hits = [k \in Keys |-> NoWindow] /\ grants = {}

EphemeralNext ==
  \/ \E u \in Users : PutSSOCode(u) \/ BeginRegistration(u)
  \/ BeginLogin
  \/ \E e \in putting : Put(e)
  \/ \E e \in held : Exchange(e) \/ \E caller \in {{}} \cup {{u} : u \in Users} :
                                       TakeSession(e, caller)
  \/ \E e \in working : AddPasskey(e) \/ ResolveLogin(e)
  \/ \E p \in creds : DeletePasskey(p)
  \/ \E k \in Keys : Allow(k) \/ Deny(k)
  \/ Restart
  \/ Tick

EphemeralSpec == EphemeralInit /\ [][EphemeralNext]_ephemeralVars

-----------------------------------------------------------------------------
(* Properties *)

\* A code or a ceremony is good for one use, in its lifetime, whoever else puts
\* and takes meanwhile, in whatever order their puts get the lock.
UsedOnce ==
  /\ \A r, s \in redeemed : r.entry.id = s.entry.id => r = s
  /\ \A r \in redeemed : r.at <= r.entry.at + Lifetime(r.entry)

\* "Sweep abandoned codes so the map can't grow unbounded": what is in a map was
\* still alive at the time the last put went by.
Bounded == \A e \in held : swept[e.map] <= e.at + Lifetime(e)

\* A stored credential belongs to the user who began the ceremony it came from,
\* a ceremony stores one at most, and no credential is stored twice at a time.
CredentialsTraced ==
  /\ \A p \in registered : p.entry \in began /\ p.entry.owner = {p.user}
  /\ \A p, q \in registered : p.entry.id = q.entry.id => p = q
  /\ creds \subseteq registered
  /\ \A p, q \in creds : p.cred = q.cred => p = q

\* A client gets at most Max requests through in a window, and although windows
\* begin when it likes, requests of three of its windows are more than Window
\* apart: at most 2 * Max in any stretch of that length, while the server runs.
SameClient(g, h) == g.key = h.key /\ g.life = h.life

QuotaHolds ==
  /\ \A g \in grants : g.n \in 1..Max
  /\ \A g, h \in grants : SameClient(g, h) /\ g.open = h.open /\ g.n = h.n => g = h
  /\ \A f, g, h \in grants :
       SameClient(f, g) /\ SameClient(g, h) /\ f.open < g.open /\ g.open < h.open
         => h.at > f.at + Window
=============================================================================
