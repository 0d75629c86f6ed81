------------------------------- MODULE Drill -------------------------------
(***************************************************************************)
(* Drills (server/internal/api/drill.go, store/drills.go): the scheduler   *)
(* that looks at the clock once a minute, drills triggered by hand beside  *)
(* it, and what each of them records about the devices that were online    *)
(* when it began.  Acknowledgements and presence come in as they like.     *)
(*                                                                         *)
(* The wall clock is a minute that does not go back.  The window a drill   *)
(* waits is left open: the roster is read at some time after the publish.  *)
(***************************************************************************)
EXTENDS Naturals

CONSTANTS
  Devices,      \* device ids
  Drills,       \* ids of drill alerts, fresh for each drill
  Slots         \* minutes the schedule names: weekday, hour and minute match

VARIABLES
  minute,       \* the wall clock
  lastRun,      \* RunDrills' guard against firing twice in a minute
  online,       \* devices whose presence is online
  acks,         \* alert_acks
  drill,        \* per id, the RunDrillOnce that has it
  results,      \* the table drills
  told          \* drills whose failure was reported to the operator

\* History.
VARIABLES
  life,         \* how often the server was started
  late          \* acknowledgements that came after their drill read the roster

drillVars == <<minute, lastRun, online, acks, drill, results, told, life, late>>

-----------------------------------------------------------------------------

\* Minutes are counted from 1, so that 0 is no minute.  at and life say which
\* minute of which life of the server a scheduled drill belongs to; at is 0 for
\* one triggered by hand.  blind: the roster could not be read.
Goroutine == [stage : {"unused", "begin", "publish", "collect", "record", "report", "over"},
              at : Nat, life : Nat,
              expected : SUBSET Devices, missed : SUBSET Devices, blind : BOOLEAN]

Unused == [stage |-> "unused", at |-> 0, life |-> 0,
           expected |-> {}, missed |-> {}, blind |-> FALSE]

\* Passed is len(missed) == 0, so it is not kept beside it.
Result == [id : Drills, expected : SUBSET Devices, missed : SUBSET Devices]

Passed(missed) == missed = {}

\* The alert is out; the roster has been read, or nobody is left to read it.
Out(d)  == drill[d].stage \in {"collect", "record", "report", "over"}
Read(d) == drill[d].stage \in {"record", "report", "over"}

Start(d, at) ==
  /\ drill[d] = Unused
  /\ drill' = [drill EXCEPT ![d].stage = "begin", ![d].at = at, ![d].life = life]

-----------------------------------------------------------------------------
(* Who starts a drill *)

\* RunDrills, at a tick of its ticker.
RunDrills(d) ==
  /\ minute \in Slots
  /\ minute # lastRun
  /\ lastRun' = minute
  /\ Start(d, minute)
  /\ UNCHANGED <<minute, online, acks, results, told, life, late>>

\* handleDrillRun: at any time, and as often as the operator likes.
HandleDrillRun(d) ==
  /\ Start(d, 0)
  /\ UNCHANGED <<minute, lastRun, online, acks, results, told, life, late>>

-----------------------------------------------------------------------------
(* RunDrillOnce *)

\* onlineDevices: who is expected to answer is fixed before the publish.
Expect(d) ==
  /\ drill[d].stage = "begin"
  /\ drill' = [drill EXCEPT ![d].stage = "publish", ![d].expected = online]
  /\ UNCHANGED <<minute, lastRun, online, acks, results, told, life, late>>

\* A publish that fails ends the drill, and nothing is recorded.
Publish(d) ==
  /\ drill[d].stage = "publish"
  /\ \/ drill' = [drill EXCEPT ![d].stage = "collect"]
     \/ drill' = [drill EXCEPT ![d] = Unused]
  /\ UNCHANGED <<minute, lastRun, online, acks, results, told, life, late>>

Acked(d) == {x \in Devices : <<d, x>> \in acks}

\* When the window is over: a roster that cannot be read counts as empty.
Collect(d) ==
  /\ drill[d].stage = "collect"
  /\ \/ drill' = [drill EXCEPT ![d].stage = "record",
                               ![d].missed = drill[d].expected \ Acked(d)]
     \/ drill' = [drill EXCEPT ![d].stage = "record",
                               ![d].missed = drill[d].expected, ![d].blind = TRUE]
  /\ UNCHANGED <<minute, lastRun, online, acks, results, told, life, late>>

\* RecordDrill; an insert that fails is logged, and the report follows all the
\* same.
Record(d) ==
  /\ drill[d].stage = "record"
  /\ drill' = [drill EXCEPT ![d].stage = "report"]
  /\ \/ results' = results \cup {[id |-> d, expected |-> drill[d].expected,
                                  missed |-> drill[d].missed]}
     \/ UNCHANGED results
  /\ UNCHANGED <<minute, lastRun, online, acks, told, life, late>>

\* notifyDrillFailure, to the operator only.
Report(d) ==
  /\ drill[d].stage = "report"
  /\ drill' = [drill EXCEPT ![d].stage = "over"]
  /\ told' = IF Passed(drill[d].missed) THEN told ELSE told \cup {d}
  /\ UNCHANGED <<minute, lastRun, online, acks, results, life, late>>

-----------------------------------------------------------------------------
(* Around it *)

\* A device acknowledges a drill it got, in time or not, perhaps again.
OnAck(d, x) ==
  /\ Out(d)
  /\ acks' = acks \cup {<<d, x>>}
  /\ late' = IF Read(d) /\ <<d, x>> \notin acks THEN late \cup {<<d, x>>} ELSE late
  /\ UNCHANGED <<minute, lastRun, online, drill, results, told, life>>

OnPresence(x) ==
  /\ online' = IF x \in online THEN online \ {x} ELSE online \cup {x}
  /\ UNCHANGED <<minute, lastRun, acks, drill, results, told, life, late>>

\* The server stops and starts: drills under way are gone, with the presence map
\* and the guard.
DrillRestart ==
  /\ life' = life + 1
  /\ lastRun' = 0
  /\ online' = {}
  /\ drill' = [d \in Drills |->
                 IF Out(d) THEN [drill[d] EXCEPT !.stage = "over"] ELSE Unused]
  /\ UNCHANGED <<minute, acks, results, told, late>>

MinutePasses ==
  /\ minute' = minute + 1
  /\ UNCHANGED <<lastRun, online, acks, drill, results, told, life, late>>

DrillInit ==
  /\ minute = 1
  /\ lastRun = 0
  /\ online = {} /\ acks = {}
  /\ drill = [d \in Drills |-> Unused]
  /\ results = {} /\ told = {}
  /\ life = 0 /\ late = {}

RunDrillOnce(d) == Expect(d) \/ Publish(d) \/ Collect(d) \/ Record(d) \/ Report(d)

DrillNext ==
  \/ \E d \in Drills : RunDrills(d) \/ HandleDrillRun(d) \/ RunDrillOnce(d)
  \/ \E d \in Drills, x \in Devices : OnAck(d, x)
  \/ \E x \in Devices : OnPresence(x)
  \/ DrillRestart
  \/ MinutePasses

DrillSpec == DrillInit /\ [][DrillNext]_drillVars

-----------------------------------------------------------------------------
(* Properties *)

DrillTypeOK ==
  /\ minute \in Nat \ {0}
  /\ lastRun \in Nat
  /\ online \subseteq Devices
  /\ acks \subseteq Drills \X Devices
  /\ drill \in [Drills -> Goroutine]
  /\ results \subseteq Result
  /\ told \subseteq Drills
  /\ life \in Nat
  /\ late \subseteq acks

\* Whoever was online when a drill began and is not on record as having missed it
\* did acknowledge it, although the roster was read long after, beside other
\* drills; so a drill on record as passed was answered by all of them.
PassIsEarned ==
  \A r \in results : \A x \in r.expected \ r.missed : <<r.id, x>> \in acks

\* A device on record as having missed a drill was expected, and did not
\* acknowledge it before the roster was read; the exception is a roster that
\* could not be read, for which everyone expected is blamed.
BlameIsFair ==
  \A r \in results : \A x \in r.missed :
    /\ x \in r.expected
    /\ <<r.id, x>> \in acks => <<r.id, x>> \in late \/ drill[r.id].blind

\* The schedule fires once in the minute it names, as long as the server is not
\* restarted within it.
OncePerSlot ==
  \A d, e \in Drills :
    drill[d].at # 0 /\ drill[d].at = drill[e].at /\ drill[d].life = drill[e].life
      => d = e

\* No drill is recorded twice, and what was reported is what was recorded: the
\* operator heard of no drill that is on record as passed.
ReportMatches ==
  /\ \A r, s \in results : r.id = s.id => r = s
  /\ \A r \in results : r.id \in told => ~Passed(r.missed)
=============================================================================
