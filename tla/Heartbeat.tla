----------------------------- MODULE Heartbeat -----------------------------
(***************************************************************************)
(* The fail-loud layers: the signed heartbeat with the server's verdict on *)
(* itself (RunHeartbeat, selfCheck in server/internal/api/api.go), the     *)
(* browser's watchdog over it (web/app.js) and the dead-man ping to a      *)
(* switch outside the house (server/internal/watchdog/watchdog.go).        *)
(*                                                                         *)
(* A unit of time is one heartbeat interval.  Ages saturate, so time and   *)
(* faults may go on for ever in a finite state space.                      *)
(***************************************************************************)
EXTENDS Naturals, FiniteSets

CONSTANTS
  PingEvery,    \* watchdog Config.Interval
  Grace,        \* silence after which the far end of the dead-man ping alarms
  MaxTurns      \* bound on what may change around the program in a unit of time

ASSUME HeartbeatAssumption ==
  /\ {PingEvery, Grace, MaxTurns} \subseteq Nat \ {0}
  /\ PingEvery < Grace       \* "comfortably shorter than the grace period"

VARIABLES
  store,        \* what Store.Ping meets: "up", "down", or "hung" (no answer)
  alive,        \* is the server process running?
  due, pingDue, \* time to the next beat and to the next ping
  pubErr,       \* lastPublishErr is not empty
  retained,     \* the retained beat of system/heartbeat, None if there is none
  link,         \* is the browser connected to the broker?
  arriving,     \* beats whose signature the browser is verifying
  page,         \* the browser's liveness state
  banner,       \* what the fail-loud banner shows
  far,          \* the dead-man switch: how long ago it heard, and what
  spell,        \* for how long now all has been well, or not (for the properties)
  turns         \* what has changed around the program in this unit of time

server == <<store, alive, due, pingDue, pubErr, retained>>
client == <<link, arriving, page, banner>>
vars == <<server, client, far, spell, turns>>

-----------------------------------------------------------------------------

DegradedAt == 3
OfflineAt  == 6
Horizon    == OfflineAt + 1

\* Long enough for every bound the properties state.
Long == Horizon + Grace

Older(age, cap) == IF age < cap THEN age + 1 ELSE age

Beat == [ok : BOOLEAN, age : 0..Horizon]
None == [ok |-> FALSE, age |-> Horizon + 1]

Page == [watching : BOOLEAN, since : 0..Horizon, degraded : BOOLEAN,
         drift : 0..3, streak : 0..2,
         state : {"init", "ok", "degraded", "offline"}]

\* Every request of selfCheck waits for the store.
Answers == alive /\ store # "hung"

\* Fault variant: the beat is green whatever became of the store.
HealthyUnasked == ~pubErr

\* selfCheck: the store answers and the last publish noted was accepted.
Healthy == store = "up" /\ ~pubErr

\* A spell ends when the other kind of moment comes, or with a reconnection,
\* which may make the browser count from an old beat.
AllWell(s, a, l) == s = "up" /\ a /\ l
NewSpell(well) == [well |-> well, ticks |-> 0]
Turn(well) == IF spell.well = well THEN spell ELSE NewSpell(well)

OneTurn == turns < MaxTurns /\ turns' = turns + 1

-----------------------------------------------------------------------------
(* The server *)

\* Fault variant: an accepted beat does not clear the error of the one before.
PublishBeatSticky ==
  /\ Answers
  /\ due = 0
  /\ due' = 1
  /\ \/ /\ retained' = [ok |-> Healthy, age |-> 0]
        /\ arriving' = IF link THEN arriving \cup {retained'} ELSE arriving
        /\ UNCHANGED pubErr
        /\ spell' = Turn(AllWell(store, alive, link))
     \/ /\ pubErr' = TRUE
        /\ spell' = Turn(FALSE)
        /\ UNCHANGED <<retained, arriving>>
  /\ UNCHANGED <<store, alive, pingDue, link, page, banner, far, turns>>

\* RunHeartbeat's beat.  A publish that fails leaves the old beat retained and
\* is what the next beat reports.
PublishBeat ==
  /\ Answers
  /\ due = 0
  /\ due' = 1
  /\ \/ /\ retained' = [ok |-> Healthy, age |-> 0]
        /\ arriving' = IF link THEN arriving \cup {retained'} ELSE arriving
        /\ pubErr' = FALSE
        /\ spell' = Turn(AllWell(store, alive, link))
     \/ /\ pubErr' = TRUE
        /\ spell' = Turn(FALSE)
        /\ UNCHANGED <<retained, arriving>>
  /\ UNCHANGED <<store, alive, pingDue, link, page, banner, far, turns>>

\* Fault variant: the ping says only that the process is there.
PingAlways ==
  /\ alive
  /\ pingDue = 0
  /\ pingDue' = PingEvery
  /\ far' = [age |-> 0, ok |-> TRUE]
  /\ UNCHANGED <<store, alive, due, pubErr, retained, client, spell, turns>>

\* Watchdog.ping: success, an explicit failure, or a ping that is lost.
Ping ==
  /\ Answers
  /\ pingDue = 0
  /\ pingDue' = PingEvery
  /\ far' = [age |-> 0, ok |-> Healthy]
  /\ UNCHANGED <<store, alive, due, pubErr, retained, client, spell, turns>>

PingLost ==
  /\ Answers
  /\ pingDue = 0
  /\ pingDue' = PingEvery
  /\ UNCHANGED <<store, alive, due, pubErr, retained, client, far, spell, turns>>

StoreTurns ==
  /\ OneTurn
  /\ store' \in {"up", "down", "hung"} \ {store}
  /\ spell' = Turn(AllWell(store', alive, link))
  /\ UNCHANGED <<alive, due, pingDue, pubErr, retained, client, far>>

\* The broker is part of the process: connections and retained beats go with it.
Die ==
  /\ OneTurn
  /\ alive
  /\ alive' = FALSE
  /\ retained' = None
  /\ link' = FALSE
  /\ spell' = Turn(FALSE)
  /\ UNCHANGED <<store, due, pingDue, pubErr, arriving, page, banner, far>>

\* A start beats and pings at once.
Restart ==
  /\ OneTurn
  /\ ~alive
  /\ alive' = TRUE
  /\ due' = 0 /\ pingDue' = 0
  /\ pubErr' = FALSE
  /\ UNCHANGED <<store, retained, client, far, spell>>

-----------------------------------------------------------------------------
(* The browser *)

\* The subscription brings the retained beat, however old it is.
Connect ==
  /\ OneTurn
  /\ alive /\ ~link
  /\ link' = TRUE
  /\ arriving' = IF retained = None THEN arriving ELSE arriving \cup {retained}
  /\ page' = IF page.watching THEN page ELSE [page EXCEPT !.watching = TRUE, !.since = 0]
  /\ spell' = NewSpell(AllWell(store, alive, TRUE))
  /\ UNCHANGED <<server, banner, far>>

Disconnect ==
  /\ OneTurn
  /\ link
  /\ link' = FALSE
  /\ spell' = Turn(FALSE)
  /\ UNCHANGED <<server, arriving, page, banner, far>>

\* What applyServerHealth leaves on the banner.
Painted(state, degraded, shown) ==
  IF state # "ok" THEN shown ELSE IF degraded THEN "self" ELSE "none"

\* handleHeartbeat after the verification it awaits: two beats may be handled in
\* either order.  Any authentic beat counts as a sign of life now.
HandleHeartbeat ==
  \E b \in arriving :
    /\ arriving' = arriving \ {b}
    /\ page' = [page EXCEPT !.since = 0, !.degraded = ~b.ok,
                  !.drift = IF b.age > DegradedAt THEN Older(@, 3) ELSE 0]
    /\ banner' = Painted(page.state, ~b.ok, banner)
    /\ UNCHANGED <<server, link, far, spell, turns>>

\* evalLiveness for a silence: the verdict, the streak.
Verdict(p, since) ==
  IF since > OfflineAt THEN [state |-> "offline", streak |-> 0]
  ELSE IF since > DegradedAt
    THEN [state |-> IF p.state = "offline" THEN "offline" ELSE "degraded", streak |-> 0]
  ELSE LET n == Older(p.streak, 2)
       IN  [state |-> IF p.state = "offline" /\ n < 2 THEN "offline" ELSE "ok",
            streak |-> n]

\* Fault variant: recovery hides the banner, whatever the server said of itself.
ShownPlain(old, new, degraded) ==
  IF old = new THEN banner ELSE IF new = "ok" THEN "none" ELSE new

\* Fault variant: the banner is not hidden on recovery.
ShownAsState(old, new, degraded) == IF old = new THEN banner ELSE new

\* setFailState: nothing when the state does not change.
Shown(old, new, degraded) ==
  IF old = new THEN banner
  ELSE IF new = "ok" THEN Painted("ok", degraded, banner) ELSE new

\* evalLiveness, once the page has heard of the server at all.
EvalLiveness(since) ==
  LET v == Verdict(page, since)
  IN  IF page.watching
        THEN /\ page' = [page EXCEPT !.since = since, !.state = v.state, !.streak = v.streak]
             /\ banner' = Shown(page.state, v.state, page.degraded)
        ELSE UNCHANGED <<page, banner>>

\* The browser's own timer fires oftener than beats come.
Evaluate ==
  /\ EvalLiveness(page.since)
  /\ UNCHANGED <<server, link, arriving, far, spell, turns>>

\* A unit of time with the last evaluation in it.  What is due at the server
\* comes first, and a verification takes less than a unit.
Tick ==
  /\ arriving = {}
  /\ Answers => due > 0 /\ pingDue > 0
  /\ due' = IF due > 0 THEN due - 1 ELSE 0
  /\ pingDue' = IF pingDue > 0 THEN pingDue - 1 ELSE 0
  /\ retained' = IF retained = None THEN None
                 ELSE [retained EXCEPT !.age = Older(@, Horizon)]
  /\ EvalLiveness(Older(page.since, Horizon))
  /\ far' = [far EXCEPT !.age = Older(@, Grace + 1)]
  /\ spell' = [spell EXCEPT !.ticks = Older(@, Long)]
  /\ turns' = 0
  /\ UNCHANGED <<store, alive, pubErr, link, arriving>>

-----------------------------------------------------------------------------

Init ==
  /\ store = "up" /\ alive = TRUE
  /\ due = 0 /\ pingDue = 0
  /\ pubErr = FALSE
  /\ retained = None
  /\ link = FALSE
  /\ arriving = {}
  /\ page = [watching |-> FALSE, since |-> 0, degraded |-> FALSE, drift |-> 0,
             streak |-> 0, state |-> "init"]
  /\ banner = "none"
  /\ far = [age |-> 0, ok |-> TRUE]
  /\ spell = NewSpell(FALSE)
  /\ turns = 0

Next ==
  \/ PublishBeat
  \/ Ping \/ PingLost
  \/ StoreTurns
  \/ Die \/ Restart
  \/ Connect \/ Disconnect
  \/ HandleHeartbeat
  \/ Evaluate
  \/ Tick

Spec == Init /\ [][Next]_vars

\* The two tickers of the server and the browser's timer keep firing, and a
\* verification finishes.  Nobody owes a restart, a connection or a store.
FairSpec ==
  /\ Spec
  /\ WF_vars(PublishBeat) /\ WF_vars(Ping \/ PingLost)
  /\ WF_vars(HandleHeartbeat) /\ WF_vars(Tick)

-----------------------------------------------------------------------------
(* Properties *)

TypeOK ==
  /\ store \in {"up", "down", "hung"}
  /\ alive \in BOOLEAN /\ link \in BOOLEAN /\ pubErr \in BOOLEAN
  /\ due \in 0..1 /\ pingDue \in 0..PingEvery
  /\ retained \in Beat \cup {None}
  /\ arriving \subseteq Beat
  /\ page \in Page
  /\ banner \in {"none", "self", "degraded", "offline"}
  /\ far \in [age : 0..Grace + 1, ok : BOOLEAN]
  /\ turns \in 0..MaxTurns
  /\ spell \in [well : BOOLEAN, ticks : 0..Long]

\* Silence is never mistaken for "no alerts": once something between the store
\* and the screen has been broken for more than the degraded window, the banner
\* says so.  A reconnection starts the window over, for it brings the retained beat.
FailLoud ==
  page.watching /\ ~spell.well /\ spell.ticks > DegradedAt => banner # "none"

\* And it stops: when store, server and link have been well for long enough
\* for two beats and two evaluations, nothing is left on the banner.
CalmReturns == spell.well /\ spell.ticks > 2 => banner = "none"

\* The louder problem owns the banner: offline is never painted over by what
\* the server says of itself, and what it says is not lost when the link returns.
BannerHonest ==
  banner = CASE page.state = "init" -> "none"
             [] page.state = "ok"   -> IF page.degraded THEN "self" ELSE "none"
             [] OTHER               -> page.state

\* The far end notices a server that is dead, hung or without its store, even
\* when every page is closed.
FarAlarm == ~far.ok \/ far.age > Grace
Sick == ~alive \/ store # "up"
FarEndNotices == Sick ~> (FarAlarm \/ ~Sick)

=============================================================================
