--------------------------- MODULE SelfTestProofs ---------------------------
(***************************************************************************)
(* Proofs about how the system is tested while it runs: Heartbeat, for any *)
(* ping interval, grace period and series of faults, and Drill, for any    *)
(* number of devices and drills.                                           *)
(***************************************************************************)
EXTENDS Heartbeat, Drill, TLAPS

-----------------------------------------------------------------------------
(* Heartbeat *)

\* The browser is connected to a server that runs, and has begun to watch.
Linked == link => alive /\ page.watching

\* A spell that is well has everything well; a page that watches has been
\* evaluated since its first connection, and has noticed a long silence.
Evaluated ==
  /\ spell.well => AllWell(store, alive, link)
  /\ page.watching /\ spell.ticks > 0 => page.state # "init"
  /\ page.watching /\ page.since > DegradedAt => page.state \in {"degraded", "offline"}

\* In an ill spell nothing green arrives, but for what was under way when it began:
\* either the silence is as long as the spell, or what was heard last said so.
NoFalseCalm ==
  ~spell.well =>
    /\ spell.ticks > 0 => \A b \in arriving : ~b.ok
    /\ page.watching =>
         page.degraded \/ page.since >= Horizon \/ page.since >= spell.ticks

\* In a well spell a beat is published, and handled, in every unit of time.  The
\* first may still report an older error; the second does not.
BeatsCalm ==
  spell.well =>
    /\ spell.ticks >= 1 /\ due = 0 => arriving = {}
    /\ spell.ticks >= 1 /\ due = 1 => ~pubErr /\ (arriving = {} => page.since = 0)
    /\ spell.ticks >= 2 =>
         /\ ~pubErr
         /\ \A b \in arriving : b.ok
         /\ page.since <= 1 /\ page.streak >= 1
         /\ due = 1 /\ arriving = {} => ~page.degraded
    /\ spell.ticks >= 3 => ~page.degraded /\ page.state = "ok" /\ page.streak = 2

HeartbeatInv == TypeOK /\ Linked /\ Evaluated /\ NoFalseCalm /\ BeatsCalm /\ BannerHonest

-----------------------------------------------------------------------------
(* Operators *)

LEMMA Times ==
  /\ PingEvery \in Nat \ {0} /\ Grace \in Nat \ {0} /\ MaxTurns \in Nat \ {0}
  /\ DegradedAt = 3 /\ OfflineAt = 6 /\ Horizon = 7
  /\ Long \in Nat /\ Long >= 8
BY HeartbeatAssumption DEF DegradedAt, OfflineAt, Horizon, Long

LEMMA OlderFacts ==
  ASSUME NEW cap \in Nat, NEW age \in 0..cap
  PROVE  /\ Older(age, cap) \in 0..cap
         /\ age <= Older(age, cap) /\ Older(age, cap) <= age + 1
         /\ age < cap => Older(age, cap) = age + 1
         /\ age >= cap => Older(age, cap) = cap
BY DEF Older

LEMMA TurnFacts ==
  ASSUME TypeOK, NEW w \in BOOLEAN
  PROVE  /\ Turn(w) \in [well : BOOLEAN, ticks : 0..Long] /\ NewSpell(w) \in [well : BOOLEAN, ticks : 0..Long]
         /\ Turn(w).well = w /\ NewSpell(w).well = w /\ NewSpell(w).ticks = 0
         /\ Turn(w) = spell \/ Turn(w).ticks = 0
<1>1. NewSpell(w) \in [well : BOOLEAN, ticks : 0..Long] /\ NewSpell(w).well = w /\ NewSpell(w).ticks = 0
  BY Times DEF NewSpell
<1>2. spell \in [well : BOOLEAN, ticks : 0..Long]
  BY DEF TypeOK
<1>3. CASE spell.well = w
  BY <1>1, <1>2, <1>3 DEF Turn
<1>4. CASE spell.well # w
  BY <1>1, <1>2, <1>4 DEF Turn
<1> QED
  BY <1>3, <1>4

LEMMA VerdictFacts ==
  ASSUME NEW p \in Page, NEW since \in 0..Horizon
  PROVE  /\ Verdict(p, since).state \in {"ok", "degraded", "offline"}
         /\ Verdict(p, since).streak \in 0..2
         /\ since > DegradedAt => Verdict(p, since).state \in {"degraded", "offline"}
         /\ since <= DegradedAt =>
              /\ Verdict(p, since).streak >= 1
              /\ p.streak >= 1 => Verdict(p, since).streak = 2 /\ Verdict(p, since).state = "ok"
<1>1. p.streak \in 0..2 /\ since \in Nat /\ 2 \in Nat
  BY Times DEF Page
<1>2. /\ Older(p.streak, 2) \in 0..2 /\ Older(p.streak, 2) >= 1
      /\ p.streak >= 1 => Older(p.streak, 2) = 2
  BY <1>1, OlderFacts DEF Older
<1>3. CASE since > OfflineAt
  <2>1. Verdict(p, since) = [state |-> "offline", streak |-> 0]
    BY <1>3 DEF Verdict
  <2> QED
    BY <1>1, <1>3, <2>1, Times
<1>4. CASE ~(since > OfflineAt) /\ since > DegradedAt
  <2>1. Verdict(p, since) = [state |-> IF p.state = "offline" THEN "offline" ELSE "degraded", streak |-> 0]
    BY <1>4 DEF Verdict
  <2> QED
    BY <1>1, <1>4, <2>1, Times
<1>5. CASE ~(since > OfflineAt) /\ ~(since > DegradedAt)
  <2> DEFINE n == Older(p.streak, 2)
  <2>1. Verdict(p, since) =
          [state |-> IF p.state = "offline" /\ n < 2 THEN "offline" ELSE "ok", streak |-> n]
    BY <1>5 DEF Verdict
  <2> HIDE DEF n
  <2>2. n \in 0..2 /\ n >= 1 /\ (p.streak >= 1 => n = 2)
    BY <1>2 DEF n
  <2> QED
    BY <1>1, <1>5, <2>1, <2>2, Times
<1> QED
  BY <1>3, <1>4, <1>5

-----------------------------------------------------------------------------
(* What the browser's steps do *)

LEMMA PageFacts ==
  ASSUME TypeOK
  PROVE  /\ page \in Page /\ page.watching \in BOOLEAN /\ page.since \in 0..Horizon
         /\ page.degraded \in BOOLEAN /\ page.drift \in 0..3 /\ page.streak \in 0..2
         /\ page.state \in {"init", "ok", "degraded", "offline"}
         /\ spell \in [well : BOOLEAN, ticks : 0..Long]
         /\ spell.well \in BOOLEAN /\ spell.ticks \in 0..Long /\ spell.ticks \in Nat
         /\ \A b \in arriving : b.ok \in BOOLEAN /\ b.age \in 0..Horizon
<1>1. page \in Page /\ spell \in [well : BOOLEAN, ticks : 0..Long] /\ arriving \subseteq Beat
  BY DEF TypeOK
<1>2. /\ page.watching \in BOOLEAN /\ page.since \in 0..Horizon
      /\ page.degraded \in BOOLEAN /\ page.drift \in 0..3 /\ page.streak \in 0..2
      /\ page.state \in {"init", "ok", "degraded", "offline"}
  BY <1>1 DEF Page
<1>3. spell.well \in BOOLEAN /\ spell.ticks \in 0..Long /\ spell.ticks \in Nat
  BY <1>1, Times
<1>4. \A b \in arriving : b.ok \in BOOLEAN /\ b.age \in 0..Horizon
  BY <1>1 DEF Beat
<1> QED
  BY <1>1, <1>2, <1>3, <1>4

LEMMA ConnectEffect ==
  ASSUME TypeOK, Connect
  PROVE  /\ alive /\ link' = TRUE /\ page' \in Page /\ page'.watching = TRUE
         /\ page'.state = page.state /\ page'.degraded = page.degraded /\ page'.streak = page.streak
         /\ page' = page \/ page'.since = 0
         /\ spell'.ticks = 0 /\ spell' \in [well : BOOLEAN, ticks : 0..Long]
         /\ spell'.well <=> store = "up"
         /\ arriving' \subseteq Beat
         /\ UNCHANGED <<server, banner, far>> /\ turns < MaxTurns /\ turns' = turns + 1
<1>1. page' = IF page.watching THEN page ELSE [page EXCEPT !.watching = TRUE, !.since = 0]
  BY DEF Connect
<1>2. /\ page' \in Page /\ page'.watching = TRUE
      /\ page'.state = page.state /\ page'.degraded = page.degraded /\ page'.streak = page.streak
      /\ page' = page \/ page'.since = 0
  <2>1. CASE page.watching
    BY <1>1, <2>1, PageFacts
  <2>2. CASE ~page.watching
    <3>1. page' = [page EXCEPT !.watching = TRUE, !.since = 0]
      BY <1>1, <2>2
    <3>2. 0 \in 0..Horizon
      BY Times
    <3> QED
      BY <3>1, <3>2, PageFacts DEF Page
  <2> QED
    BY <2>1, <2>2
<1> DEFINE w == AllWell(store, alive, TRUE)
<1>3. w \in BOOLEAN
  BY DEF AllWell
<1>4. spell' = NewSpell(w) /\ alive
  BY DEF Connect
<1>5. w <=> store = "up"
  BY <1>4 DEF AllWell
<1> HIDE DEF w
<1>6. spell'.ticks = 0 /\ spell' \in [well : BOOLEAN, ticks : 0..Long] /\ spell'.well = w
  BY <1>3, <1>4, TurnFacts
<1>7. arriving' \subseteq Beat
  BY DEF Connect, TypeOK
<1> QED
  BY <1>1, <1>2, <1>4, <1>5, <1>6, <1>7 DEF Connect, OneTurn

LEMMA HandleEffect ==
  ASSUME TypeOK, HandleHeartbeat
  PROVE  \E b \in arriving :
           /\ arriving' = arriving \ {b}
           /\ page' \in Page /\ page'.watching = page.watching /\ page'.since = 0
           /\ page'.state = page.state /\ page'.streak = page.streak
           /\ page'.degraded <=> ~b.ok
           /\ banner' = Painted(page.state, ~b.ok, banner)
           /\ UNCHANGED <<server, link, far, spell, turns>>
<1>1. PICK b \in arriving :
        /\ arriving' = arriving \ {b}
        /\ page' = [page EXCEPT !.since = 0, !.degraded = ~b.ok,
                      !.drift = IF b.age > DegradedAt THEN Older(@, 3) ELSE 0]
        /\ banner' = Painted(page.state, ~b.ok, banner)
        /\ UNCHANGED <<server, link, far, spell, turns>>
  BY DEF HandleHeartbeat
<1> DEFINE d == IF b.age > DegradedAt THEN Older(page.drift, 3) ELSE 0
           g == ~b.ok
<1>2. d \in 0..3
  <2>1. Older(page.drift, 3) \in 0..3
    BY PageFacts, OlderFacts
  <2> QED
    BY <2>1
<1>3. g \in BOOLEAN /\ 0 \in 0..Horizon
  BY Times
<1>4. page' = [page EXCEPT !.since = 0, !.degraded = g, !.drift = d]
  BY <1>1
<1> HIDE DEF d, g
<1>5. /\ page' \in Page /\ page'.watching = page.watching /\ page'.since = 0
      /\ page'.state = page.state /\ page'.streak = page.streak /\ page'.degraded = g
  BY <1>2, <1>3, <1>4, PageFacts DEF Page
<1>6. page'.degraded <=> ~b.ok
  BY <1>5 DEF g
<1> QED
  BY <1>1, <1>5, <1>6

LEMMA EvalEffect ==
  ASSUME TypeOK, NEW since \in 0..Horizon, EvalLiveness(since)
  PROVE  /\ page' \in Page /\ page'.watching = page.watching /\ page'.degraded = page.degraded
         /\ ~page.watching => page' = page /\ banner' = banner
         /\ page.watching =>
              /\ page'.since = since
              /\ page'.state = Verdict(page, since).state
              /\ page'.streak = Verdict(page, since).streak
              /\ page'.state \in {"ok", "degraded", "offline"}
              /\ banner' = Shown(page.state, page'.state, page.degraded)
         /\ banner' \in {"none", "self", "degraded", "offline"}
<1> DEFINE v == Verdict(page, since)
<1>1. v.state \in {"ok", "degraded", "offline"} /\ v.streak \in 0..2
  BY PageFacts, VerdictFacts
<1>2. /\ page.watching => /\ page' = [page EXCEPT !.since = since, !.state = v.state, !.streak = v.streak]
                          /\ banner' = Shown(page.state, v.state, page.degraded)
      /\ ~page.watching => page' = page /\ banner' = banner
  BY DEF EvalLiveness
<1> HIDE DEF v
<1>3. page.watching => /\ page' \in Page /\ page'.watching = page.watching
                       /\ page'.degraded = page.degraded
                       /\ page'.since = since /\ page'.state = v.state /\ page'.streak = v.streak
  BY <1>1, <1>2, PageFacts DEF Page
<1>4. banner \in {"none", "self", "degraded", "offline"}
  BY DEF TypeOK
<1>5. banner' \in {"none", "self", "degraded", "offline"}
  BY <1>1, <1>2, <1>4, PageFacts DEF Shown, Painted
<1> QED
  BY <1>1, <1>2, <1>3, <1>5, PageFacts DEF v

LEMMA EvaluateEffect ==
  ASSUME TypeOK, Evaluate
  PROVE  /\ page' \in Page /\ page'.watching = page.watching /\ page'.degraded = page.degraded
         /\ page'.since = page.since
         /\ ~page.watching => page' = page /\ banner' = banner
         /\ page.watching =>
              /\ page'.state = Verdict(page, page.since).state
              /\ page'.streak = Verdict(page, page.since).streak
              /\ page'.state \in {"ok", "degraded", "offline"}
              /\ banner' = Shown(page.state, page'.state, page.degraded)
         /\ banner' \in {"none", "self", "degraded", "offline"}
         /\ UNCHANGED <<server, link, arriving, far, spell, turns>>
<1>1. EvalLiveness(page.since) /\ UNCHANGED <<server, link, arriving, far, spell, turns>>
  BY DEF Evaluate
<1>2. page.since \in 0..Horizon
  BY PageFacts
<1> QED
  BY <1>1, <1>2, EvalEffect

LEMMA TickEffect ==
  ASSUME TypeOK, Tick
  PROVE  /\ arriving = {} /\ (Answers => due > 0)
         /\ due' = (IF due > 0 THEN due - 1 ELSE 0) /\ pingDue' = (IF pingDue > 0 THEN pingDue - 1 ELSE 0)
         /\ page' \in Page /\ page'.watching = page.watching /\ page'.degraded = page.degraded
         /\ ~page.watching => page' = page /\ banner' = banner
         /\ page.watching =>
              /\ page'.since = Older(page.since, Horizon)
              /\ page'.state = Verdict(page, Older(page.since, Horizon)).state
              /\ page'.streak = Verdict(page, Older(page.since, Horizon)).streak
              /\ banner' = Shown(page.state, page'.state, page.degraded)
         /\ spell' \in [well : BOOLEAN, ticks : 0..Long] /\ spell'.well = spell.well
         /\ spell'.ticks = Older(spell.ticks, Long)
         /\ far' \in [age : 0..Grace + 1, ok : BOOLEAN] /\ turns' = 0
         /\ retained' \in Beat \cup {None}
         /\ UNCHANGED <<store, alive, pubErr, link, arriving>>
<1> DEFINE since == Older(page.since, Horizon)
<1>1. since \in 0..Horizon
  BY PageFacts, OlderFacts, Times
<1>2. EvalLiveness(since)
  BY DEF Tick
<1> HIDE DEF since
<1>3. /\ page' \in Page /\ page'.watching = page.watching /\ page'.degraded = page.degraded
      /\ ~page.watching => page' = page /\ banner' = banner
      /\ page.watching =>
           /\ page'.since = since
           /\ page'.state = Verdict(page, since).state
           /\ page'.streak = Verdict(page, since).streak
           /\ banner' = Shown(page.state, page'.state, page.degraded)
  BY <1>1, <1>2, EvalEffect
<1>5. /\ spell' \in [well : BOOLEAN, ticks : 0..Long] /\ spell'.well = spell.well
      /\ spell'.ticks = Older(spell.ticks, Long)
  <2>1. Older(spell.ticks, Long) \in 0..Long
    BY PageFacts, OlderFacts, Times
  <2>2. spell' = [spell EXCEPT !.ticks = Older(spell.ticks, Long)]
    BY DEF Tick
  <2> QED
    BY <2>1, <2>2, PageFacts
<1>6. far' \in [age : 0..Grace + 1, ok : BOOLEAN]
  <2>1. far \in [age : 0..Grace + 1, ok : BOOLEAN] /\ far.age \in 0..Grace + 1
    BY DEF TypeOK
  <2>2. Older(far.age, Grace + 1) \in 0..Grace + 1
    BY <2>1, OlderFacts, Times
  <2>3. far' = [far EXCEPT !.age = Older(far.age, Grace + 1)]
    BY DEF Tick
  <2> QED
    BY <2>1, <2>2, <2>3
<1>7. retained' \in Beat \cup {None}
  <2>1. CASE retained = None
    BY <2>1 DEF Tick
  <2>2. CASE retained # None
    <3>1. retained \in Beat /\ retained.age \in 0..Horizon
      BY <2>2 DEF TypeOK, Beat
    <3>2. Older(retained.age, Horizon) \in 0..Horizon
      BY <3>1, OlderFacts, Times
    <3>3. retained' = [retained EXCEPT !.age = Older(retained.age, Horizon)]
      BY <2>2 DEF Tick
    <3>4. retained' \in Beat
      BY <3>1, <3>2, <3>3 DEF Beat
    <3> QED
      BY <3>4
  <2> QED
    BY <2>1, <2>2
<1> QED
  BY <1>3, <1>5, <1>6, <1>7 DEF Tick, since

-----------------------------------------------------------------------------
(* What the server's steps do *)

\* The spell goes on if it is of the same kind, and begins anew if not.
SpellTurns(w) ==
  /\ spell' \in [well : BOOLEAN, ticks : 0..Long]
  /\ spell'.well <=> w
  /\ spell' = spell \/ spell'.ticks = 0

LEMMA PublishEffect ==
  ASSUME TypeOK, PublishBeat
  PROVE  /\ alive /\ due = 0 /\ due' = 1
         /\ \/ /\ retained' \in Beat
               /\ retained'.ok <=> store = "up" /\ ~pubErr
               /\ link => arriving' = arriving \cup {retained'}
               /\ ~link => arriving' = arriving
               /\ pubErr' = FALSE
               /\ SpellTurns(store = "up" /\ link)
            \/ /\ pubErr' = TRUE
               /\ retained' = retained /\ arriving' = arriving
               /\ SpellTurns(FALSE)
         /\ UNCHANGED <<store, alive, pingDue, link, page, banner, far, turns>>
<1>1. alive /\ due = 0 /\ due' = 1 /\ UNCHANGED <<store, alive, pingDue, link, page, banner, far, turns>>
  BY DEF PublishBeat, Answers
<1>2. CASE /\ retained' = [ok |-> Healthy, age |-> 0]
           /\ arriving' = IF link THEN arriving \cup {retained'} ELSE arriving
           /\ pubErr' = FALSE
           /\ spell' = Turn(AllWell(store, alive, link))
  <2> DEFINE h == Healthy
             w == AllWell(store, alive, link)
  <2>1. h \in BOOLEAN /\ (h <=> store = "up" /\ ~pubErr)
    BY DEF Healthy
  <2>2. w \in BOOLEAN /\ (w <=> store = "up" /\ link)
    BY <1>1 DEF AllWell
  <2>3. retained' = [ok |-> h, age |-> 0] /\ spell' = Turn(w)
    BY <1>2
  <2> HIDE DEF h, w
  <2>4. retained' \in Beat /\ retained'.ok = h
    BY <2>1, <2>3, Times DEF Beat
  <2>5. spell' \in [well : BOOLEAN, ticks : 0..Long] /\ spell'.well = w /\ (spell' = spell \/ spell'.ticks = 0)
    BY <2>2, <2>3, TurnFacts
  <2> QED
    BY <1>1, <1>2, <2>1, <2>2, <2>4, <2>5 DEF SpellTurns
<1>3. CASE /\ pubErr' = TRUE
           /\ spell' = Turn(FALSE)
           /\ UNCHANGED <<retained, arriving>>
  <2>1. SpellTurns(FALSE)
    BY <1>3, TurnFacts DEF SpellTurns
  <2> QED
    BY <1>1, <1>3, <2>1
<1> QED
  BY <1>1, <1>2, <1>3 DEF PublishBeat

LEMMA StoreEffect ==
  ASSUME TypeOK, StoreTurns
  PROVE  /\ store' \in {"up", "down", "hung"}
         /\ SpellTurns(store' = "up" /\ alive /\ link)
         /\ turns < MaxTurns /\ turns' = turns + 1
         /\ UNCHANGED <<alive, due, pingDue, pubErr, retained, client, far>>
<1> DEFINE w == AllWell(store', alive, link)
<1>1. w \in BOOLEAN /\ (w <=> store' = "up" /\ alive /\ link)
  BY DEF AllWell
<1>2. spell' = Turn(w)
  BY DEF StoreTurns
<1> HIDE DEF w
<1>3. spell' \in [well : BOOLEAN, ticks : 0..Long] /\ spell'.well = w /\ (spell' = spell \/ spell'.ticks = 0)
  BY <1>1, <1>2, TurnFacts
<1> QED
  BY <1>1, <1>3 DEF SpellTurns, StoreTurns, OneTurn

LEMMA DownEffect ==
  ASSUME TypeOK, Die \/ Disconnect
  PROVE  /\ link' = FALSE /\ SpellTurns(FALSE)
         /\ alive' \in BOOLEAN /\ retained' \in Beat \cup {None}
         /\ turns < MaxTurns /\ turns' = turns + 1
         /\ UNCHANGED <<store, due, pingDue, pubErr, arriving, page, banner, far>>
<1>1. spell' = Turn(FALSE)
  BY DEF Die, Disconnect
<1>2. SpellTurns(FALSE)
  BY <1>1, TurnFacts DEF SpellTurns
<1>3. alive' \in BOOLEAN /\ retained' \in Beat \cup {None}
  BY DEF Die, Disconnect, server, TypeOK
<1> QED
  BY <1>2, <1>3 DEF Die, Disconnect, server, OneTurn

LEMMA PingEffect ==
  ASSUME TypeOK, Ping \/ PingLost
  PROVE  /\ pingDue' = PingEvery /\ far' \in [age : 0..Grace + 1, ok : BOOLEAN]
         /\ UNCHANGED <<store, alive, due, pubErr, retained, client, spell, turns>>
<1>1. CASE Ping
  <2> DEFINE h == Healthy
  <2>1. h \in BOOLEAN
    BY DEF Healthy
  <2>2. far' = [age |-> 0, ok |-> h]
    BY <1>1 DEF Ping
  <2> HIDE DEF h
  <2>3. 0 \in 0..Grace + 1
    BY Times
  <2> QED
    BY <1>1, <2>1, <2>2, <2>3 DEF Ping
<1>2. CASE PingLost
  BY <1>2 DEF PingLost, TypeOK
<1> QED
  BY <1>1, <1>2

-----------------------------------------------------------------------------
(* Types *)

LEMMA HeartbeatTypes == TypeOK /\ [Next]_vars => TypeOK'
<1> SUFFICES ASSUME TypeOK, [Next]_vars PROVE TypeOK'
  OBVIOUS
<1>0. /\ store \in {"up", "down", "hung"} /\ alive \in BOOLEAN /\ link \in BOOLEAN /\ pubErr \in BOOLEAN
      /\ due \in 0..1 /\ pingDue \in 0..PingEvery /\ retained \in Beat \cup {None}
      /\ arriving \subseteq Beat /\ page \in Page
      /\ banner \in {"none", "self", "degraded", "offline"}
      /\ far \in [age : 0..Grace + 1, ok : BOOLEAN] /\ turns \in 0..MaxTurns
      /\ spell \in [well : BOOLEAN, ticks : 0..Long]
  BY DEF TypeOK
<1>1. CASE PublishBeat
  <2>1. /\ pubErr' \in BOOLEAN /\ retained' \in Beat \cup {None} /\ arriving' \subseteq Beat
        /\ spell' \in [well : BOOLEAN, ticks : 0..Long] /\ due' = 1
        /\ UNCHANGED <<store, alive, pingDue, link, page, banner, far, turns>>
    BY <1>0, <1>1, PublishEffect DEF SpellTurns
  <2> QED
    BY <1>0, <2>1 DEF TypeOK
<1>2. CASE Ping \/ PingLost
  <2>1. pingDue' \in 0..PingEvery
    BY <1>2, PingEffect, Times
  <2> QED
    BY <1>0, <1>2, <2>1, PingEffect DEF TypeOK, client
<1>3. CASE StoreTurns
  <2>1. turns' \in 0..MaxTurns
    BY <1>0, <1>3, StoreEffect, Times
  <2> QED
    BY <1>0, <1>3, <2>1, StoreEffect DEF TypeOK, client, SpellTurns
<1>4. CASE Die \/ Disconnect
  <2>0. turns < MaxTurns /\ turns' = turns + 1
    BY <1>4, DownEffect
  <2>1. turns' \in 0..MaxTurns
    BY <1>0, <2>0, Times
  <2> QED
    BY <1>0, <1>4, <2>1, DownEffect DEF TypeOK, SpellTurns
<1>5. CASE Restart
  <2>1. turns' \in 0..MaxTurns /\ due' = 0 /\ pingDue' \in 0..PingEvery
    BY <1>0, <1>5, Times DEF Restart, OneTurn
  <2>2. UNCHANGED <<store, retained, client, far, spell>>
    BY <1>5 DEF Restart
  <2>3. alive' \in BOOLEAN
    BY <1>5 DEF Restart
  <2>4. pubErr' \in BOOLEAN
    BY <1>5 DEF Restart
  <2> QED
    BY <1>0, <2>1, <2>2, <2>3, <2>4 DEF TypeOK, client
<1>6. CASE Connect
  <2>1. turns' \in 0..MaxTurns
    BY <1>0, <1>6, ConnectEffect, Times
  <2> QED
    BY <1>0, <1>6, <2>1, ConnectEffect DEF TypeOK, server
<1>7. CASE HandleHeartbeat
  <2>1. PICK b \in arriving :
          /\ arriving' = arriving \ {b} /\ page' \in Page
          /\ banner' = Painted(page.state, ~b.ok, banner)
          /\ UNCHANGED <<server, link, far, spell, turns>>
    BY <1>7, HandleEffect
  <2>2. banner' \in {"none", "self", "degraded", "offline"}
    BY <1>0, <2>1 DEF Painted
  <2> QED
    BY <1>0, <2>1, <2>2 DEF TypeOK, server
<1>8. CASE Tick
  <2>1. banner' \in {"none", "self", "degraded", "offline"}
    <3>1. CASE page.watching
      <4>1. /\ banner' = Shown(page.state, page'.state, page.degraded)
            /\ page'.state = Verdict(page, Older(page.since, Horizon)).state
        BY <1>8, <3>1, TickEffect
      <4>2. page'.state \in {"ok", "degraded", "offline"}
        <5>1. page \in Page /\ Older(page.since, Horizon) \in 0..Horizon
          BY PageFacts, OlderFacts, Times
        <5> QED
          BY <4>1, <5>1, VerdictFacts
      <4> QED
        BY <1>0, <4>1, <4>2 DEF Shown, Painted
    <3>2. CASE ~page.watching
      BY <1>0, <1>8, <3>2, TickEffect
    <3> QED
      BY <3>1, <3>2
  <2>2. due' \in 0..1 /\ pingDue' \in 0..PingEvery /\ turns' \in 0..MaxTurns
    BY <1>0, <1>8, TickEffect, Times
  <2> QED
    BY <1>0, <1>8, <2>1, <2>2, TickEffect DEF TypeOK
<1>9. CASE UNCHANGED vars
  BY <1>0, <1>9 DEF vars, server, client, TypeOK
<1>10. CASE Evaluate
  BY <1>0, <1>10, EvaluateEffect DEF server, TypeOK
<1> QED
  BY <1>1, <1>2, <1>3, <1>4, <1>5, <1>6, <1>7, <1>8, <1>9, <1>10 DEF Next

-----------------------------------------------------------------------------
(* The invariants *)

LEMMA LinkedStep == TypeOK /\ Linked /\ [Next]_vars => Linked'
<1> SUFFICES ASSUME TypeOK, Linked, [Next]_vars PROVE Linked'
  OBVIOUS
<1>1. CASE PublishBeat \/ Ping \/ PingLost \/ StoreTurns \/ UNCHANGED vars
  <2>1. UNCHANGED <<alive, link, page>>
    BY <1>1, PublishEffect, PingEffect, StoreEffect DEF client, vars, server
  <2> QED
    BY <2>1 DEF Linked
<1>2. CASE Die \/ Disconnect
  BY <1>2, DownEffect DEF Linked
<1>3. CASE Restart
  BY <1>3 DEF Linked, Restart, client
<1>4. CASE Connect
  BY <1>4, ConnectEffect DEF Linked, server
<1>5. CASE HandleHeartbeat
  BY <1>5, HandleEffect DEF Linked, server
<1>6. CASE Tick
  BY <1>6, TickEffect DEF Linked
<1>7. CASE Evaluate
  BY <1>7, EvaluateEffect DEF Linked, server
<1> QED
  BY <1>1, <1>2, <1>3, <1>4, <1>5, <1>6, <1>7 DEF Next

LEMMA EvaluatedStep == TypeOK /\ Linked /\ Evaluated /\ [Next]_vars => Evaluated'
<1> SUFFICES ASSUME TypeOK, Linked, Evaluated, [Next]_vars PROVE Evaluated'
  OBVIOUS
<1>0. /\ spell.well => store = "up" /\ alive /\ link
      /\ page.watching /\ spell.ticks > 0 => page.state # "init"
      /\ page.watching /\ page.since > DegradedAt => page.state \in {"degraded", "offline"}
  BY DEF Evaluated, AllWell
<1> SUFFICES /\ spell'.well => store' = "up" /\ alive' /\ link'
             /\ page'.watching /\ spell'.ticks > 0 => page'.state # "init"
             /\ page'.watching /\ page'.since > DegradedAt => page'.state \in {"degraded", "offline"}
  BY DEF Evaluated, AllWell
<1>1. CASE PublishBeat
  <2>1. UNCHANGED <<store, alive, link, page>> /\ alive
    BY <1>1, PublishEffect
  <2>2. SpellTurns(store = "up" /\ link) \/ SpellTurns(FALSE)
    BY <1>1, PublishEffect
  <2>3. spell' = spell \/ ~(spell'.ticks > 0)
    BY <2>2 DEF SpellTurns
  <2>4. spell'.well => store = "up" /\ link
    BY <2>2 DEF SpellTurns
  <2> QED
    BY <1>0, <2>1, <2>3, <2>4
<1>2. CASE Ping \/ PingLost
  BY <1>0, <1>2, PingEffect DEF client
<1>3. CASE StoreTurns
  BY <1>0, <1>3, StoreEffect, Times DEF SpellTurns, client
<1>4. CASE Die \/ Disconnect
  <2>1. UNCHANGED page /\ SpellTurns(FALSE)
    BY <1>4, DownEffect
  <2>2. ~spell'.well
    BY <2>1 DEF SpellTurns
  <2>3. spell' = spell \/ ~(spell'.ticks > 0)
    BY <2>1 DEF SpellTurns
  <2> QED
    BY <1>0, <2>1, <2>2, <2>3
<1>5. CASE Restart
  BY <1>0, <1>5 DEF Restart, client
<1>6. CASE Connect
  <2>1. /\ alive' /\ link' /\ (spell'.well => store' = "up") /\ ~(spell'.ticks > 0)
    BY <1>6, ConnectEffect DEF server
  <2>2. page' = page \/ ~(page'.since > DegradedAt)
    BY <1>6, ConnectEffect, Times
  <2> QED
    BY <1>0, <2>1, <2>2
<1>7. CASE HandleHeartbeat
  BY <1>0, <1>7, HandleEffect, Times DEF server
<1>8. CASE Tick
  <2>1. CASE page.watching
    <3> DEFINE s == Older(page.since, Horizon)
    <3>1. page \in Page /\ s \in 0..Horizon
      BY PageFacts, OlderFacts, Times
    <3>2. page'.since = s /\ page'.state = Verdict(page, s).state
      BY <1>8, <2>1, TickEffect
    <3> HIDE DEF s
    <3>3. /\ page'.state \in {"ok", "degraded", "offline"}
          /\ page'.since > DegradedAt => page'.state \in {"degraded", "offline"}
      BY <3>1, <3>2, VerdictFacts
    <3> QED
      BY <1>0, <1>8, <3>3, TickEffect
  <2>2. CASE ~page.watching
    BY <1>0, <1>8, <2>2, TickEffect
  <2> QED
    BY <2>1, <2>2
<1>9. CASE UNCHANGED vars
  BY <1>0, <1>9 DEF vars, server, client
<1>10. CASE Evaluate
  <2>1. CASE page.watching
    <3>1. page \in Page /\ page.since \in 0..Horizon
      BY PageFacts
    <3>2. /\ page'.since = page.since /\ page'.state = Verdict(page, page.since).state
          /\ page'.state \in {"ok", "degraded", "offline"}
      BY <1>10, <2>1, EvaluateEffect
    <3>3. page'.since > DegradedAt => page'.state \in {"degraded", "offline"}
      BY <3>1, <3>2, VerdictFacts
    <3> QED
      BY <1>0, <1>10, <3>2, <3>3, EvaluateEffect DEF server
  <2>2. CASE ~page.watching
    BY <1>0, <1>10, <2>2, EvaluateEffect DEF server
  <2> QED
    BY <2>1, <2>2
<1> QED
  BY <1>1, <1>2, <1>3, <1>4, <1>5, <1>6, <1>7, <1>8, <1>9, <1>10 DEF Next

LEMMA FalseCalmStep ==
  TypeOK /\ Linked /\ Evaluated /\ NoFalseCalm /\ [Next]_vars => NoFalseCalm'
<1> SUFFICES ASSUME TypeOK, Linked, Evaluated, NoFalseCalm, [Next]_vars, ~spell'.well
             PROVE  /\ spell'.ticks > 0 => \A b \in arriving' : ~b.ok
                    /\ page'.watching =>
                         page'.degraded \/ page'.since >= Horizon \/ page'.since >= spell'.ticks
  BY DEF NoFalseCalm
<1>0. /\ ~spell.well =>
           /\ spell.ticks > 0 => \A b \in arriving : ~b.ok
           /\ page.watching =>
                page.degraded \/ page.since >= Horizon \/ page.since >= spell.ticks
      /\ page.since \in Nat /\ spell.ticks \in Nat /\ Horizon \in Nat
      /\ link => alive /\ page.watching
  BY PageFacts, Times DEF NoFalseCalm, Linked
\* A step that leaves the page as it is, and goes on with the spell or begins one.
<1>a. ASSUME page' = page, spell' = spell \/ spell'.ticks = 0,
             spell'.ticks > 0 => \A b \in arriving' : b \in arriving \/ ~b.ok
      PROVE  /\ spell'.ticks > 0 => \A b \in arriving' : ~b.ok
             /\ page'.watching =>
                  page'.degraded \/ page'.since >= Horizon \/ page'.since >= spell'.ticks
  <2>1. CASE spell' = spell
    BY <1>0, <1>a, <2>1
  <2>2. CASE spell'.ticks = 0
    BY <1>0, <1>a, <2>2
  <2> QED
    BY <1>a, <2>1, <2>2
<1>1. CASE PublishBeat
  <2>1. page' = page /\ (spell' = spell \/ spell'.ticks = 0)
    BY <1>1, PublishEffect DEF SpellTurns
  <2>2. \A b \in arriving' : b \in arriving \/ ~b.ok
    BY <1>1, PublishEffect DEF SpellTurns
  <2> QED
    BY <1>a, <2>1, <2>2
<1>2. CASE Ping \/ PingLost
  <2>1. page' = page /\ spell' = spell /\ arriving' = arriving
    BY <1>2, PingEffect DEF client
  <2> QED
    BY <1>a, <2>1
<1>3. CASE StoreTurns
  <2>1. page' = page /\ (spell' = spell \/ spell'.ticks = 0) /\ arriving' = arriving
    BY <1>3, StoreEffect DEF client, SpellTurns
  <2> QED
    BY <1>a, <2>1
<1>4. CASE Die \/ Disconnect
  <2>1. page' = page /\ (spell' = spell \/ spell'.ticks = 0) /\ arriving' = arriving
    BY <1>4, DownEffect DEF SpellTurns
  <2> QED
    BY <1>a, <2>1
<1>5. CASE Restart
  <2>1. page' = page /\ spell' = spell /\ arriving' = arriving
    BY <1>5 DEF Restart, client
  <2> QED
    BY <1>a, <2>1
<1>6. CASE Connect
  <2>1. spell'.ticks = 0 /\ page'.since \in Nat
    BY <1>0, <1>6, ConnectEffect
  <2> QED
    BY <2>1
<1>7. CASE HandleHeartbeat
  <2>1. PICK b \in arriving :
          /\ arriving' = arriving \ {b} /\ page'.since = 0
          /\ page'.degraded <=> ~b.ok
          /\ spell' = spell
    BY <1>7, HandleEffect
  <2>2. CASE spell.ticks > 0
    BY <1>0, <2>1, <2>2
  <2>3. CASE spell.ticks = 0
    BY <2>1, <2>3
  <2> QED
    BY <1>0, <2>2, <2>3
<1>8. CASE Tick
  <2>1. /\ arriving' = {} /\ page'.watching = page.watching /\ page'.degraded = page.degraded
        /\ page.watching => page'.since = Older(page.since, Horizon)
        /\ spell'.well = spell.well /\ spell'.ticks = Older(spell.ticks, Long)
    BY <1>8, TickEffect
  <2>2. /\ page.since \in 0..Horizon /\ spell.ticks \in 0..Long
    BY PageFacts
  <2> DEFINE s == Older(page.since, Horizon)
             t == Older(spell.ticks, Long)
  <2>3. /\ s \in 0..Horizon /\ page.since <= s /\ (page.since < Horizon => s = page.since + 1)
        /\ t \in 0..Long /\ t <= spell.ticks + 1
    <3>1. Horizon \in Nat /\ Long \in Nat
      BY Times
    <3>2. /\ s \in 0..Horizon /\ page.since <= s
          /\ page.since < Horizon => s = page.since + 1
      BY <2>2, <3>1, OlderFacts
    <3>3. t \in 0..Long /\ t <= spell.ticks + 1
      BY <2>2, <3>1, OlderFacts
    <3> QED
      BY <3>2, <3>3
  <2> HIDE DEF s, t
  <2>4. ASSUME page.watching, ~page.degraded PROVE s >= Horizon \/ s >= t
    <3>1. page.since >= Horizon \/ page.since >= spell.ticks
      BY <1>0, <2>1, <2>4
    <3>2. CASE page.since >= Horizon
      BY <2>2, <2>3, <3>2, Times
    <3>3. CASE page.since < Horizon /\ page.since >= spell.ticks
      BY <2>2, <2>3, <3>3, Times
    <3> QED
      BY <1>0, <3>1, <3>2, <3>3
  <2> QED
    BY <2>1, <2>4 DEF s, t
<1>9. CASE UNCHANGED vars
  <2>1. page' = page /\ spell' = spell /\ arriving' = arriving
    BY <1>9 DEF vars, client
  <2> QED
    BY <1>a, <2>1
<1>10. CASE Evaluate
  <2>1. /\ page'.watching = page.watching /\ page'.degraded = page.degraded
        /\ page'.since = page.since /\ spell' = spell /\ arriving' = arriving
    BY <1>10, EvaluateEffect
  <2> QED
    BY <1>0, <2>1
<1> QED
  BY <1>1, <1>2, <1>3, <1>4, <1>5, <1>6, <1>7, <1>8, <1>9, <1>10 DEF Next

LEMMA BeatsStep ==
  TypeOK /\ Linked /\ Evaluated /\ BeatsCalm /\ [Next]_vars => BeatsCalm'
<1> SUFFICES ASSUME TypeOK, Linked, Evaluated, BeatsCalm, [Next]_vars, spell'.well
             PROVE  /\ spell'.ticks >= 1 /\ due' = 0 => arriving' = {}
                    /\ spell'.ticks >= 1 /\ due' = 1 => ~pubErr' /\ (arriving' = {} => page'.since = 0)
                    /\ spell'.ticks >= 2 =>
                         /\ ~pubErr'
                         /\ \A b \in arriving' : b.ok
                         /\ page'.since <= 1 /\ page'.streak >= 1
                         /\ due' = 1 /\ arriving' = {} => ~page'.degraded
                    /\ spell'.ticks >= 3 =>
                         ~page'.degraded /\ page'.state = "ok" /\ page'.streak = 2
  BY DEF BeatsCalm
<1>0. /\ spell.well =>
           /\ spell.ticks >= 1 /\ due = 0 => arriving = {}
           /\ spell.ticks >= 1 /\ due = 1 => ~pubErr /\ (arriving = {} => page.since = 0)
           /\ spell.ticks >= 2 =>
                /\ ~pubErr
                /\ \A b \in arriving : b.ok
                /\ page.since <= 1 /\ page.streak >= 1
                /\ due = 1 /\ arriving = {} => ~page.degraded
           /\ spell.ticks >= 3 => ~page.degraded /\ page.state = "ok" /\ page.streak = 2
           /\ store = "up" /\ alive /\ link /\ page.watching
      /\ due \in 0..1 /\ spell.ticks \in Nat
  BY PageFacts DEF BeatsCalm, Evaluated, AllWell, Linked, TypeOK
<1>a. CASE spell'.ticks = 0
  BY <1>a
<1>b. CASE spell' = spell /\ UNCHANGED <<due, pubErr, arriving, page>>
  BY <1>0, <1>b
<1>1. CASE PublishBeat
  <2>1. /\ due = 0 /\ due' = 1 /\ page' = page
        /\ \/ /\ retained'.ok <=> store = "up" /\ ~pubErr
              /\ link => arriving' = arriving \cup {retained'}
              /\ pubErr' = FALSE
              /\ SpellTurns(store = "up" /\ link)
           \/ SpellTurns(FALSE)
    BY <1>1, PublishEffect
  <2>2. ~SpellTurns(FALSE)
    BY DEF SpellTurns
  <2>3. /\ retained'.ok <=> store = "up" /\ ~pubErr
        /\ link => arriving' = arriving \cup {retained'}
        /\ ~pubErr'
        /\ SpellTurns(store = "up" /\ link)
    BY <2>1, <2>2
  <2>4. CASE spell' = spell
    BY <1>0, <2>1, <2>3, <2>4
  <2>5. spell' = spell \/ spell'.ticks = 0
    BY <2>3 DEF SpellTurns
  <2> QED
    BY <1>a, <2>4, <2>5
<1>2. CASE Ping \/ PingLost
  BY <1>b, <1>2, PingEffect DEF client
<1>3. CASE StoreTurns
  <2>1. UNCHANGED <<due, pubErr, arriving, page>>
    BY <1>3, StoreEffect DEF client
  <2>2. spell' = spell \/ spell'.ticks = 0
    BY <1>3, StoreEffect DEF SpellTurns
  <2> QED
    BY <1>a, <1>b, <2>1, <2>2
<1>4. CASE Die \/ Disconnect
  <2>1. SpellTurns(FALSE)
    BY <1>4, DownEffect
  <2> QED
    BY <2>1 DEF SpellTurns
<1>5. CASE Restart
  <2>1. ~alive /\ spell' = spell
    BY <1>5 DEF Restart
  <2> QED
    BY <1>0, <2>1
<1>6. CASE Connect
  BY <1>a, <1>6, ConnectEffect
<1>7. CASE HandleHeartbeat
  <2>1. PICK b \in arriving :
          /\ arriving' = arriving \ {b} /\ page'.since = 0
          /\ page'.state = page.state /\ page'.streak = page.streak
          /\ page'.degraded <=> ~b.ok
          /\ due' = due /\ pubErr' = pubErr /\ spell' = spell
    BY <1>7, HandleEffect DEF server
  <2> QED
    BY <1>0, <2>1
<1>8. CASE Tick
  <2>1. /\ arriving = {} /\ arriving' = {} /\ pubErr' = pubErr /\ page'.degraded = page.degraded
        /\ Answers => due > 0
        /\ due' = IF due > 0 THEN due - 1 ELSE 0
        /\ spell'.well = spell.well /\ spell'.ticks = Older(spell.ticks, Long)
        /\ page.watching =>
             /\ page'.since = Older(page.since, Horizon)
             /\ page'.state = Verdict(page, Older(page.since, Horizon)).state
             /\ page'.streak = Verdict(page, Older(page.since, Horizon)).streak
    BY <1>8, TickEffect
  <2>2. /\ due = 1 /\ due' = 0 /\ page.watching
    BY <1>0, <2>1 DEF Answers
  <2>3. /\ spell'.ticks \in Nat /\ spell'.ticks <= spell.ticks + 1
    <3>1. spell.ticks \in 0..Long /\ Long \in Nat
      BY PageFacts, Times
    <3>2. Older(spell.ticks, Long) \in 0..Long /\ Older(spell.ticks, Long) <= spell.ticks + 1
      BY <3>1, OlderFacts
    <3> QED
      BY <2>1, <3>1, <3>2
  <2>4. ASSUME spell.ticks >= 1
        PROVE  /\ page'.since <= 1 /\ page'.streak >= 1
               /\ page.streak >= 1 => page'.streak = 2 /\ page'.state = "ok"
    <3>1. page.since = 0
      BY <1>0, <2>1, <2>2, <2>4
    <3>2. Older(page.since, Horizon) = 1
      BY <3>1, Times DEF Older
    <3>3. page \in Page /\ 1 \in 0..Horizon /\ 1 <= DegradedAt
      BY PageFacts, Times
    <3> QED
      BY <2>1, <2>2, <3>2, <3>3, VerdictFacts
  <2>5. spell'.ticks >= 2 => ~pubErr' /\ page'.since <= 1 /\ page'.streak >= 1
    BY <1>0, <2>1, <2>2, <2>3, <2>4
  <2>6. spell'.ticks >= 3 => ~page'.degraded /\ page'.state = "ok" /\ page'.streak = 2
    BY <1>0, <2>1, <2>2, <2>3, <2>4
  <2> QED
    BY <2>1, <2>2, <2>5, <2>6
<1>9. CASE UNCHANGED vars
  BY <1>b, <1>9 DEF vars, server, client
<1>10. CASE Evaluate
  <2>1. /\ page'.degraded = page.degraded /\ page'.since = page.since
        /\ UNCHANGED <<due, pubErr, arriving, spell>>
        /\ page.watching => /\ page'.state = Verdict(page, page.since).state
                            /\ page'.streak = Verdict(page, page.since).streak
    BY <1>10, EvaluateEffect DEF server
  <2>2. ASSUME spell.ticks >= 2
        PROVE  /\ page'.streak >= 1
               /\ page.streak >= 1 => page'.streak = 2 /\ page'.state = "ok"
    <3>1. page.since <= 1 /\ page.watching
      BY <1>0, <2>1, <2>2
    <3>2. page \in Page /\ page.since \in 0..Horizon /\ page.since <= DegradedAt
      BY <3>1, PageFacts, Times
    <3> QED
      BY <2>1, <3>1, <3>2, VerdictFacts
  <2> QED
    BY <1>0, <2>1, <2>2
<1> QED
  BY <1>1, <1>2, <1>3, <1>4, <1>5, <1>6, <1>7, <1>8, <1>9, <1>10 DEF Next

LEMMA BannerStep == TypeOK /\ BannerHonest /\ [Next]_vars => BannerHonest'
<1> SUFFICES ASSUME TypeOK, BannerHonest, [Next]_vars PROVE BannerHonest'
  OBVIOUS
<1>0. /\ page.state \in {"init", "ok", "degraded", "offline"}
      /\ page.state = "init" => banner = "none"
      /\ page.state = "ok" => banner = IF page.degraded THEN "self" ELSE "none"
      /\ page.state \in {"degraded", "offline"} => banner = page.state
  BY PageFacts DEF BannerHonest
<1> SUFFICES /\ page'.state \in {"init", "ok", "degraded", "offline"}
             /\ page'.state = "init" => banner' = "none"
             /\ page'.state = "ok" => banner' = IF page'.degraded THEN "self" ELSE "none"
             /\ page'.state \in {"degraded", "offline"} => banner' = page'.state
  BY DEF BannerHonest
<1>1. CASE banner' = banner /\ page'.state = page.state /\ page'.degraded = page.degraded
  BY <1>0, <1>1
<1>2. CASE HandleHeartbeat
  <2>1. PICK b \in arriving :
          /\ page'.state = page.state
          /\ page'.degraded <=> ~b.ok
          /\ banner' = Painted(page.state, ~b.ok, banner)
    BY <1>2, HandleEffect
  <2>2. CASE page.state = "ok"
    <3>1. banner' = IF ~b.ok THEN "self" ELSE "none"
      BY <2>1, <2>2 DEF Painted
    <3> QED
      BY <2>1, <2>2, <3>1
  <2>3. CASE page.state # "ok"
    <3>1. banner' = banner
      BY <2>1, <2>3 DEF Painted
    <3> QED
      BY <1>0, <2>1, <2>3, <3>1
  <2> QED
    BY <2>2, <2>3
<1>3. CASE Tick
  <2>1. CASE page.watching
    <3> DEFINE s == Older(page.since, Horizon)
    <3>1. page \in Page /\ s \in 0..Horizon
      BY PageFacts, OlderFacts, Times
    <3>2. /\ page'.state = Verdict(page, s).state /\ page'.degraded = page.degraded
          /\ banner' = Shown(page.state, page'.state, page.degraded)
      BY <1>3, <2>1, TickEffect
    <3> HIDE DEF s
    <3>3. page'.state \in {"ok", "degraded", "offline"}
      BY <3>1, <3>2, VerdictFacts
    <3> QED
      BY <1>0, <3>2, <3>3 DEF Shown, Painted
  <2>2. CASE ~page.watching
    BY <1>1, <1>3, <2>2, TickEffect
  <2> QED
    BY <2>1, <2>2
<1>4. CASE PublishBeat \/ Ping \/ PingLost \/ StoreTurns \/ Die \/ Disconnect \/ Restart \/ UNCHANGED vars
  <2>1. UNCHANGED <<banner, page>>
    BY <1>4, PublishEffect, PingEffect, StoreEffect, DownEffect DEF Restart, client, vars
  <2> QED
    BY <1>1, <2>1
<1>5. CASE Connect
  BY <1>1, <1>5, ConnectEffect
<1>6. CASE Evaluate
  <2>1. CASE page.watching
    <3>1. /\ page'.state \in {"ok", "degraded", "offline"} /\ page'.degraded = page.degraded
          /\ banner' = Shown(page.state, page'.state, page.degraded)
      BY <1>6, <2>1, EvaluateEffect
    <3> QED
      BY <1>0, <3>1 DEF Shown, Painted
  <2>2. CASE ~page.watching
    BY <1>1, <1>6, <2>2, EvaluateEffect
  <2> QED
    BY <2>1, <2>2
<1> QED
  BY <1>2, <1>3, <1>4, <1>5, <1>6 DEF Next

-----------------------------------------------------------------------------
(* The theorems *)

LEMMA HeartbeatStarts == Init => HeartbeatInv
<1> SUFFICES ASSUME Init PROVE HeartbeatInv
  OBVIOUS
<1>0. /\ page = [watching |-> FALSE, since |-> 0, degraded |-> FALSE, drift |-> 0, streak |-> 0, state |-> "init"]
      /\ spell = [well |-> FALSE, ticks |-> 0] /\ banner = "none" /\ arriving = {}
  BY DEF Init, NewSpell
<1>1. TypeOK
  <2>1. page \in Page
    BY <1>0, Times DEF Page
  <2>2. far \in [age : 0..Grace + 1, ok : BOOLEAN]
    <3>1. 0 \in 0..Grace + 1 /\ far.age = 0
      BY Times DEF Init
    <3> QED
      BY <3>1 DEF Init
  <2>6. spell \in [well : BOOLEAN, ticks : 0..Long]
    <3>1. 0 \in 0..Long
      BY Times
    <3> QED
      BY <1>0, <3>1
  <2>3. due \in 0..1 /\ pingDue \in 0..PingEvery /\ turns \in 0..MaxTurns
    BY Times DEF Init
  <2>4. alive \in BOOLEAN
    BY DEF Init
  <2>5. link \in BOOLEAN /\ pubErr \in BOOLEAN
    BY DEF Init
  <2> QED
    BY <1>0, <2>1, <2>2, <2>3, <2>4, <2>5, <2>6 DEF Init, TypeOK
<1>2. Linked
  BY DEF Init, Linked
<1>3. Evaluated /\ NoFalseCalm /\ BeatsCalm
  BY <1>0 DEF Evaluated, NoFalseCalm, BeatsCalm
<1>4. BannerHonest
  BY <1>0 DEF BannerHonest
<1> QED
  BY <1>1, <1>2, <1>3, <1>4 DEF HeartbeatInv

\* Silence is as long as the spell it belongs to, and calm as fresh, in every state
\* that beats, faults and reconnections lead to.
THEOREM HeartbeatKeepsInv == Spec => []HeartbeatInv
<1>1. HeartbeatInv /\ [Next]_vars => HeartbeatInv'
  BY HeartbeatTypes, LinkedStep, EvaluatedStep, FalseCalmStep, BeatsStep, BannerStep DEF HeartbeatInv
<1> QED
  BY <1>1, HeartbeatStarts, PTL DEF Spec

\* Every variable has its type, for any ping interval, grace period and faults.
THEOREM HeartbeatTypeCorrect == Spec => []TypeOK
<1>1. HeartbeatInv => TypeOK
  BY DEF HeartbeatInv
<1> QED
  BY <1>1, HeartbeatKeepsInv, PTL

\* api.go selfCheck, RunHeartbeat and app.js evalLiveness together: what is broken
\* for more than the degraded window is on the banner, whichever of store, publish,
\* process and link it is and in whatever order they break.
THEOREM SilenceIsLoud == Spec => []FailLoud
<1>1. HeartbeatInv => FailLoud
  <2> SUFFICES ASSUME HeartbeatInv, page.watching, ~spell.well, spell.ticks > DegradedAt
               PROVE  banner # "none"
    BY DEF FailLoud
  <2>1. page.degraded \/ page.since >= Horizon \/ page.since >= spell.ticks
    BY DEF HeartbeatInv, NoFalseCalm
  <2>2. /\ page.since \in Nat /\ spell.ticks \in Nat
        /\ page.state \in {"init", "ok", "degraded", "offline"}
    BY PageFacts, Times DEF HeartbeatInv
  <2>3. page.state # "init"
    BY <2>2, Times DEF HeartbeatInv, Evaluated
  <2>4. page.degraded \/ page.state \in {"degraded", "offline"}
    BY <2>1, <2>2, Times DEF HeartbeatInv, Evaluated
  <2> QED
    BY <2>2, <2>3, <2>4 DEF HeartbeatInv, BannerHonest
<1> QED
  BY <1>1, HeartbeatKeepsInv, PTL

\* The same parts when all is well: three units of time clear the banner.
THEOREM CalmComesBack == Spec => []CalmReturns
<1>1. HeartbeatInv => CalmReturns
  <2> SUFFICES ASSUME HeartbeatInv, spell.well, spell.ticks > 2 PROVE banner = "none"
    BY DEF CalmReturns
  <2>1. spell.ticks >= 3
    BY PageFacts DEF HeartbeatInv
  <2>2. ~page.degraded /\ page.state = "ok"
    BY <2>1 DEF HeartbeatInv, BeatsCalm
  <2> QED
    BY <2>2 DEF HeartbeatInv, BannerHonest
<1> QED
  BY <1>1, HeartbeatKeepsInv, PTL

\* app.js setFailState and applyServerHealth: the banner shows the louder problem.
THEOREM BannerIsHonest == Spec => []BannerHonest
<1>1. HeartbeatInv => BannerHonest
  BY DEF HeartbeatInv
<1> QED
  BY <1>1, HeartbeatKeepsInv, PTL

-----------------------------------------------------------------------------
(* Drill *)

\* Once the roster was read, what the drill holds is what the acknowledgements
\* said then.
Fair(d, expected, missed) ==
  /\ missed \subseteq expected
  /\ \A x \in expected \ missed : <<d, x>> \in acks
  /\ \A x \in missed : <<d, x>> \in acks => <<d, x>> \in late \/ drill[d].blind

Collected ==
  \A d \in Drills : drill[d].stage \in {"record", "report"}
    => Fair(d, drill[d].expected, drill[d].missed)

\* A row came from its drill, which is past recording and did not change since.
Recorded ==
  \A r \in results :
    /\ drill[r.id].stage \in {"report", "over"}
    /\ drill[r.id].expected = r.expected
    /\ drill[r.id].missed = r.missed
    /\ Fair(r.id, r.expected, r.missed)

Reported ==
  \A d \in told : drill[d].stage = "over" /\ drill[d].missed # {}

\* A minute of this life of the server that fired a drill is over, or guarded.
Guarded ==
  \A d \in Drills :
    /\ drill[d].life <= life
    /\ drill[d].at # 0 /\ drill[d].life = life =>
         drill[d].at <= minute /\ (drill[d].at = minute => lastRun = minute)

\* The drill a step is about is the only one it touches.
Touches(d) == \A e \in Drills \ {d} : drill'[e] = drill[e]

-----------------------------------------------------------------------------

LEMMA DrillInitTypes == DrillInit => DrillTypeOK
BY DEF DrillInit, DrillTypeOK, Unused, Goroutine

LEMMA DrillNextTypes == DrillTypeOK /\ [DrillNext]_drillVars => DrillTypeOK'
<1>1. SUFFICES ASSUME DrillTypeOK, [DrillNext]_drillVars PROVE DrillTypeOK'
  OBVIOUS
<1>2. ASSUME NEW d \in Drills, RunDrills(d) \/ HandleDrillRun(d) PROVE DrillTypeOK'
  BY <1>1, <1>2 DEF DrillTypeOK, RunDrills, HandleDrillRun, Start, Unused, Goroutine
<1>3. ASSUME NEW d \in Drills, Expect(d) \/ Publish(d) PROVE DrillTypeOK'
  <2>1. CASE Expect(d)
    BY <1>1, <2>1 DEF DrillTypeOK, Expect, Goroutine
  <2>2. CASE Publish(d)
    <3>1. /\ [drill[d] EXCEPT !.stage = "collect"] \in Goroutine
          /\ Unused \in Goroutine
      BY <1>1 DEF DrillTypeOK, Unused, Goroutine
    <3>2. \/ drill' = [drill EXCEPT ![d] = [drill[d] EXCEPT !.stage = "collect"]]
          \/ drill' = [drill EXCEPT ![d] = Unused]
      BY <2>2 DEF Publish
    <3>3. drill' \in [Drills -> Goroutine]
      BY <1>1, <3>1, <3>2 DEF DrillTypeOK
    <3>4. QED
      BY <1>1, <2>2, <3>3 DEF DrillTypeOK, Publish
  <2>3. QED
    BY <1>3, <2>1, <2>2
<1>4. ASSUME NEW d \in Drills, Collect(d) PROVE DrillTypeOK'
  BY <1>1, <1>4 DEF DrillTypeOK, Collect, Goroutine
<1>5. ASSUME NEW d \in Drills, Record(d) \/ Report(d) PROVE DrillTypeOK'
  BY <1>1, <1>5 DEF DrillTypeOK, Record, Report, Goroutine, Result
<1>6. ASSUME NEW d \in Drills, NEW x \in Devices, OnAck(d, x) PROVE DrillTypeOK'
  BY <1>1, <1>6 DEF DrillTypeOK, OnAck
<1>7. ASSUME NEW x \in Devices, OnPresence(x) PROVE DrillTypeOK'
  BY <1>1, <1>7 DEF DrillTypeOK, OnPresence
<1>8. CASE DrillRestart
  BY <1>1, <1>8 DEF DrillTypeOK, DrillRestart, Unused, Goroutine
<1>9. CASE MinutePasses \/ UNCHANGED drillVars
  BY <1>1, <1>9 DEF DrillTypeOK, MinutePasses, drillVars
<1>10. QED
  BY <1>1, <1>2, <1>3, <1>4, <1>5, <1>6, <1>7, <1>8, <1>9 DEF DrillNext, RunDrillOnce

\* Types hold for any number of devices, drills and restarts.
THEOREM DrillTypeCorrect == DrillSpec => []DrillTypeOK
BY DrillInitTypes, DrillNextTypes, PTL DEF DrillSpec

-----------------------------------------------------------------------------
(* The records *)

RecordInv == Collected /\ Recorded /\ Reported

LEMMA InitRecords == DrillInit => RecordInv
BY DEF DrillInit, RecordInv, Collected, Recorded, Reported, Unused

\* What was fair stays so: acknowledgements are never withdrawn, and those that
\* come after the reading are late.
LEMMA FairStays ==
  ASSUME NEW d \in Drills, NEW E, NEW M, Fair(d, E, M),
         acks \subseteq acks', late \subseteq late',
         \A x : <<d, x>> \in acks' \ acks => <<d, x>> \in late',
         drill'[d].blind = drill[d].blind
  PROVE  Fair(d, E, M)'
BY DEF Fair

\* Steps that leave acknowledgements, results and reports alone, and the drills
\* that have read their roster as they are.
LEMMA KeepRecords ==
  ASSUME DrillTypeOK, RecordInv, NEW d \in Drills, Touches(d),
         UNCHANGED <<acks, late, results, told>>,
         drill[d].stage \notin {"report", "over"},
         drill'[d].stage \in {"record", "report"}
           => Fair(d, drill[d].expected, drill[d].missed)'
              /\ drill'[d].expected = drill[d].expected
              /\ drill'[d].missed = drill[d].missed
  PROVE  RecordInv'
<1>1. Collected'
  BY DEF Collected, RecordInv, Touches, Fair
<1>2. Recorded'
  BY DEF Recorded, RecordInv, Touches, Fair, DrillTypeOK, Result
<1>3. Reported'
  BY DEF Reported, RecordInv, Touches, DrillTypeOK
<1>4. QED
  BY <1>1, <1>2, <1>3 DEF RecordInv

LEMMA NextRecords == DrillTypeOK /\ RecordInv /\ [DrillNext]_drillVars => RecordInv'
<1>1. SUFFICES ASSUME DrillTypeOK, RecordInv, [DrillNext]_drillVars PROVE RecordInv'
  OBVIOUS
<1> USE <1>1
<1>2. ASSUME NEW d \in Drills, RunDrills(d) \/ HandleDrillRun(d) PROVE RecordInv'
  <2>1. Touches(d) /\ drill'[d].stage = "begin" /\ drill[d].stage = "unused"
    BY <1>2 DEF RunDrills, HandleDrillRun, Start, Touches, DrillTypeOK, Unused, Goroutine
  <2>2. QED
    BY <1>2, <2>1, KeepRecords DEF RunDrills, HandleDrillRun
<1>3. ASSUME NEW d \in Drills, Expect(d) \/ Publish(d) PROVE RecordInv'
  <2>1. Touches(d) /\ drill'[d].stage \notin {"record", "report"}
        /\ drill[d].stage \notin {"report", "over"}
    BY <1>3 DEF Expect, Publish, Touches, DrillTypeOK, Unused, Goroutine
  <2>2. QED
    BY <1>3, <2>1, KeepRecords DEF Expect, Publish
<1>4. ASSUME NEW d \in Drills, Collect(d) PROVE RecordInv'
  <2>1. /\ Touches(d) /\ drill[d].stage = "collect"
        /\ drill'[d].stage = "record" /\ drill'[d].expected = drill[d].expected
        /\ \/ drill'[d].missed = drill[d].expected \ Acked(d)
           \/ drill'[d].missed = drill[d].expected /\ drill'[d].blind
        /\ drill[d].expected \subseteq Devices
        /\ UNCHANGED <<acks, late, results, told>>
    BY <1>4 DEF Collect, Touches, DrillTypeOK, Goroutine
  <2>2. Fair(d, drill[d].expected, drill[d].missed)'
    BY <2>1 DEF Fair, Acked
  <2>3. Collected'
    BY <2>1, <2>2 DEF Collected, RecordInv, Touches, Fair
  <2>4. Recorded'
    BY <2>1 DEF Recorded, RecordInv, Touches, Fair, DrillTypeOK, Result
  <2>5. Reported'
    BY <2>1 DEF Reported, RecordInv, Touches, DrillTypeOK
  <2>6. QED
    BY <2>3, <2>4, <2>5 DEF RecordInv
<1>5. ASSUME NEW d \in Drills, Record(d) PROVE RecordInv'
  <2>1. /\ Touches(d) /\ drill[d].stage = "record" /\ drill'[d].stage = "report"
        /\ drill'[d].expected = drill[d].expected /\ drill'[d].missed = drill[d].missed
        /\ drill'[d].blind = drill[d].blind
        /\ UNCHANGED <<acks, late, told>>
        /\ \A r \in results' : r \in results \/ (r.id = d /\ r.expected = drill[d].expected
                                                /\ r.missed = drill[d].missed)
    BY <1>5 DEF Record, Touches, DrillTypeOK, Goroutine
  <2>2. Fair(d, drill[d].expected, drill[d].missed)'
    BY <2>1 DEF Fair, Collected, RecordInv
  <2>3. Collected'
    BY <2>1, <2>2 DEF Collected, RecordInv, Touches, Fair
  <2>4. Recorded'
    BY <2>1, <2>2 DEF Recorded, RecordInv, Touches, Fair, DrillTypeOK, Result
  <2>5. Reported'
    BY <2>1 DEF Reported, RecordInv, Touches, DrillTypeOK
  <2>6. QED
    BY <2>3, <2>4, <2>5 DEF RecordInv
<1>6. ASSUME NEW d \in Drills, Report(d) PROVE RecordInv'
  <2>1. /\ Touches(d) /\ drill[d].stage = "report" /\ drill'[d].stage = "over"
        /\ drill'[d].expected = drill[d].expected /\ drill'[d].missed = drill[d].missed
        /\ drill'[d].blind = drill[d].blind
        /\ UNCHANGED <<acks, late, results>>
        /\ \A e \in told' : e \in told \/ (e = d /\ drill[d].missed # {})
    BY <1>6 DEF Report, Touches, DrillTypeOK, Goroutine, Passed
  <2>2. Collected'
    BY <2>1 DEF Collected, RecordInv, Touches, Fair
  <2>3. Recorded'
    BY <2>1 DEF Recorded, RecordInv, Touches, Fair, DrillTypeOK, Result
  <2>4. Reported'
    BY <2>1 DEF Reported, RecordInv, Touches, DrillTypeOK
  <2>5. QED
    BY <2>2, <2>3, <2>4 DEF RecordInv
<1>7. ASSUME NEW d \in Drills, NEW x \in Devices, OnAck(d, x) PROVE RecordInv'
  <2>1. UNCHANGED <<drill, results, told>> /\ acks \subseteq acks' /\ late \subseteq late'
    BY <1>7 DEF OnAck
  <2>2. \A e \in Drills : Read(e) =>
          \A y : <<e, y>> \in acks' \ acks => <<e, y>> \in late'
    BY <1>7 DEF OnAck
  <2>3. Collected'
    <3>1. ASSUME NEW e \in Drills, drill[e].stage \in {"record", "report"}
          PROVE  Fair(e, drill[e].expected, drill[e].missed)'
      BY <2>1, <2>2, <3>1, FairStays DEF Collected, RecordInv, Read, Fair
    <3>2. QED
      BY <2>1, <3>1 DEF Collected
  <2>4. Recorded'
    <3>1. ASSUME NEW r \in results PROVE Fair(r.id, r.expected, r.missed)'
      <4>1. r.id \in Drills /\ Read(r.id) /\ Fair(r.id, r.expected, r.missed)
        BY DEF Recorded, RecordInv, Read, DrillTypeOK, Result
      <4>2. QED
        BY <2>1, <2>2, <4>1 DEF Fair
    <3>2. QED
      BY <2>1, <3>1 DEF Recorded, RecordInv
  <2>5. QED
    BY <2>1, <2>3, <2>4 DEF RecordInv, Reported
<1>8. CASE DrillRestart
  <2>1. /\ UNCHANGED <<acks, late, results, told>>
        /\ \A e \in Drills : drill'[e].stage \in {"unused", "over"}
        /\ \A e \in Drills : drill[e].stage \in {"report", "over"} =>
             /\ drill'[e].stage = "over"
             /\ drill'[e].expected = drill[e].expected
             /\ drill'[e].missed = drill[e].missed
             /\ drill'[e].blind = drill[e].blind
    BY <1>8 DEF DrillRestart, Out, Unused, DrillTypeOK, Goroutine
  <2>2. Collected'
    BY <2>1 DEF Collected
  <2>3. Recorded'
    BY <2>1 DEF Recorded, RecordInv, Fair, DrillTypeOK, Result
  <2>4. Reported'
    BY <2>1 DEF Reported, RecordInv, DrillTypeOK
  <2>5. QED
    BY <2>2, <2>3, <2>4 DEF RecordInv
<1>9. CASE MinutePasses \/ (\E x \in Devices : OnPresence(x)) \/ UNCHANGED drillVars
  BY <1>9 DEF MinutePasses, OnPresence, drillVars, RecordInv, Collected, Recorded, Reported, Fair
<1>10. QED
  BY <1>2, <1>3, <1>4, <1>5, <1>6, <1>7, <1>8, <1>9 DEF DrillNext, RunDrillOnce

\* A device that is not on record as having missed a drill did answer it.
THEOREM PassesAreEarned == DrillSpec => []PassIsEarned
<1>1. RecordInv => PassIsEarned
  BY DEF RecordInv, Recorded, Fair, PassIsEarned
<1>2. QED
  BY DrillInitTypes, DrillNextTypes, InitRecords, NextRecords, <1>1, PTL DEF DrillSpec

\* A device that is on record as having missed a drill was expected and silent
\* when the roster was read, if it could be read.
THEOREM BlamesAreFair == DrillSpec => []BlameIsFair
<1>1. RecordInv => BlameIsFair
  BY DEF RecordInv, Recorded, Fair, BlameIsFair
<1>2. QED
  BY DrillInitTypes, DrillNextTypes, InitRecords, NextRecords, <1>1, PTL DEF DrillSpec

\* One row per drill, and no report of a drill that is on record as passed.
THEOREM ReportsMatch == DrillSpec => []ReportMatches
<1>1. DrillTypeOK /\ RecordInv => ReportMatches
  <2>1. SUFFICES ASSUME DrillTypeOK, RecordInv PROVE ReportMatches
    OBVIOUS
  <2>2. ASSUME NEW r \in results, NEW s \in results, r.id = s.id PROVE r = s
    <3>1. r.expected = s.expected /\ r.missed = s.missed
      BY <2>1, <2>2 DEF RecordInv, Recorded
    <3>2. r \in Result /\ s \in Result
      BY <2>1 DEF DrillTypeOK
    <3>3. QED
      BY <2>2, <3>1, <3>2 DEF Result
  <2>3. ASSUME NEW r \in results, r.id \in told PROVE ~Passed(r.missed)
    BY <2>1, <2>3 DEF RecordInv, Recorded, Reported, Passed
  <2>4. QED
    BY <2>2, <2>3 DEF ReportMatches
<1>2. QED
  BY DrillInitTypes, DrillNextTypes, InitRecords, NextRecords, <1>1, PTL DEF DrillSpec

-----------------------------------------------------------------------------
(* The schedule *)

SlotInv == DrillTypeOK /\ Guarded /\ OncePerSlot

LEMMA InitSlots == DrillInit => SlotInv
BY DrillInitTypes DEF DrillInit, SlotInv, Guarded, OncePerSlot, Unused

\* Drills keep the minute they belong to, or become unused.
LEMMA KeepSlots ==
  ASSUME SlotInv, DrillTypeOK', minute' >= minute, life' = life,
         lastRun' = lastRun,
         \A d \in Drills :
           \/ drill'[d].at = 0 /\ drill'[d].life <= life
           \/ drill'[d].at = drill[d].at /\ drill'[d].life = drill[d].life,
         minute' = minute \/ UNCHANGED drill
  PROVE  SlotInv'
<1>1. Guarded'
  BY DEF SlotInv, Guarded, DrillTypeOK, Goroutine
<1>2. OncePerSlot'
  BY DEF SlotInv, OncePerSlot
<1>3. QED
  BY <1>1, <1>2 DEF SlotInv

LEMMA NextSlots == SlotInv /\ [DrillNext]_drillVars => SlotInv'
<1>1. SUFFICES ASSUME SlotInv, [DrillNext]_drillVars PROVE SlotInv'
  OBVIOUS
<1>2. DrillTypeOK /\ DrillTypeOK' /\ minute \in Nat /\ life \in Nat
      /\ \A d \in Drills : drill[d].life \in Nat /\ drill[d].at \in Nat
  BY <1>1, DrillNextTypes DEF SlotInv, DrillTypeOK, Goroutine
<1>3. ASSUME NEW d \in Drills, RunDrills(d) PROVE SlotInv'
  <2>1. /\ drill'[d].at = minute /\ drill'[d].life = life
        /\ Touches(d) /\ minute # lastRun /\ lastRun' = minute
        /\ UNCHANGED <<minute, life>>
    BY <1>2, <1>3 DEF RunDrills, Start, Touches, DrillTypeOK, Goroutine, Unused
  <2>2. \A e \in Drills : drill[e].at = minute /\ drill[e].life = life => minute = 0
    BY <1>1, <1>2, <2>1 DEF SlotInv, Guarded
  <2>3. minute # 0
    BY <1>2 DEF DrillTypeOK
  <2>4. Guarded'
    BY <1>1, <1>2, <2>1 DEF SlotInv, Guarded, Touches
  <2>5. OncePerSlot'
    BY <1>1, <2>1, <2>2, <2>3 DEF SlotInv, OncePerSlot, Touches
  <2>6. QED
    BY <1>2, <2>4, <2>5 DEF SlotInv
<1>4. ASSUME NEW d \in Drills, HandleDrillRun(d) PROVE SlotInv'
  <2>1. /\ drill'[d].at = 0 /\ drill'[d].life = life /\ Touches(d)
        /\ UNCHANGED <<minute, life, lastRun>>
    BY <1>2, <1>4 DEF HandleDrillRun, Start, Touches, DrillTypeOK, Goroutine, Unused
  <2>2. QED
    BY <1>1, <1>2, <2>1, KeepSlots DEF Touches
<1>5. ASSUME NEW d \in Drills, RunDrillOnce(d) PROVE SlotInv'
  <2>1. /\ \/ drill'[d].at = 0 /\ drill'[d].life = 0
           \/ drill'[d].at = drill[d].at /\ drill'[d].life = drill[d].life
        /\ Touches(d) /\ UNCHANGED <<minute, life, lastRun>>
    BY <1>2, <1>5 DEF RunDrillOnce, Expect, Publish, Collect, Record, Report, Touches,
                      DrillTypeOK, Goroutine, Unused
  <2>2. QED
    BY <1>1, <1>2, <2>1, KeepSlots DEF Touches
<1>6. CASE DrillRestart
  <2>1. /\ life' = life + 1 /\ UNCHANGED minute
        /\ \A d \in Drills : \/ drill'[d].at = 0 /\ drill'[d].life = 0
                             \/ drill'[d].at = drill[d].at /\ drill'[d].life = drill[d].life
    BY <1>2, <1>6 DEF DrillRestart, Unused, DrillTypeOK, Goroutine
  <2>2. Guarded'
    BY <1>1, <1>2, <2>1 DEF SlotInv, Guarded
  <2>3. OncePerSlot'
    BY <1>1, <2>1 DEF SlotInv, OncePerSlot
  <2>4. QED
    BY <1>2, <2>2, <2>3 DEF SlotInv
<1>7. CASE (\E d \in Drills, x \in Devices : OnAck(d, x))
           \/ (\E x \in Devices : OnPresence(x)) \/ MinutePasses \/ UNCHANGED drillVars
  <2>1. UNCHANGED <<drill, life, lastRun>> /\ (minute' = minute \/ minute' = minute + 1)
    BY <1>7 DEF OnAck, OnPresence, MinutePasses, drillVars
  <2>2. minute' >= minute /\ \A d \in Drills : drill[d].life <= life
    BY <1>1, <1>2, <2>1 DEF SlotInv, Guarded
  <2>3. QED
    BY <1>1, <1>2, <2>1, <2>2, KeepSlots
<1>8. QED
  BY <1>1, <1>3, <1>4, <1>5, <1>6, <1>7 DEF DrillNext

\* However often the ticker fires, a scheduled minute gets one drill per life of
\* the server.
THEOREM SlotsFireOnce == DrillSpec => []OncePerSlot
<1>1. SlotInv => OncePerSlot
  BY DEF SlotInv
<1>2. QED
  BY InitSlots, NextSlots, <1>1, PTL DEF DrillSpec
=============================================================================
