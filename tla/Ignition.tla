------------------------------- MODULE Ignition -------------------------------
(***************************************************************************)
(* Spark: at the trigger tooth where an IgnitionEvent starts to charge its *)
(* coils, handleSparkEvent schedules the dwell by time and the spark       *)
(* either by time (same tooth) or through the list of angle-based events,  *)
(* which later teeth turn into timers.  After firing, the event is         *)
(* prepared for its next revolution.  Angles are abstracted to the tooth   *)
(* they fall on; the rest of an angle is a delay chosen at each tooth.     *)
(***************************************************************************)
EXTENDS Integers, Sequences, FiniteSets, SequencesExt

CONSTANTS cylindersCount,
          coilsOf,            \* for each event the set of coils it drives
          toothCount,         \* trigger teeth of an engine cycle
          MultisparkCount,    \* additional sparks after the first one
          MultisparkDelay, MultisparkDwell,
          SteadyTrigger,      \* assume that a dwell tooth finds the event's timers free
                              \* and its coils discharged
          None,
          MaxOffset,          \* model bound: delay from a tooth to a callback
          MaxSparks,          \* model bound: spark events handled
          MaxStarts,          \* model bound: times the engine starts to turn
          TimeBound           \* model bound: the clock stops here

Cylinder == 0 .. cylindersCount - 1
Tooth == 0 .. toothCount - 1

ASSUME IgnitionAssumption ==
  /\ cylindersCount \in Nat \ {0} /\ toothCount \in Nat \ {0}
  /\ coilsOf \in [Cylinder -> SUBSET Cylinder]
  /\ MultisparkCount \in Nat /\ MultisparkDelay \in Nat /\ MultisparkDwell \in Nat \ {0}
  /\ SteadyTrigger \in BOOLEAN
  /\ MaxOffset \in Nat /\ MaxSparks \in Nat /\ MaxStarts \in Nat /\ TimeBound \in Nat
  /\ None \notin Nat

Dwell(i) == <<"dwellStartTimer", i>>
Spark(i) == <<"sparkEvent.scheduling", i>>
Sched == {Dwell(i) : i \in Cylinder} \cup {Spark(i) : i \in Cylinder}

\* onTriggerEventSparkLogic between its steps: the loop's index, and the delay
\* of the dwell while handleSparkEvent has scheduled that and not the spark.
HandlerCall ==
  [limited : BOOLEAN, next : 0 .. cylindersCount, earliest : (0 .. MaxOffset) \cup {None}]

ASSUME NoneAssumption == None \notin HandlerCall

VARIABLES
  now, pending,        \* the clock and the timers, see PendingEvents
  angleBasedEvents,    \* the list at Engine::angleBasedEventsHead
  position,            \* tooth of AngleBasedEvent::position
  dwellPosition,       \* tooth of IgnitionEvent::dwellPosition
  sparkAngle,          \* tooth of IgnitionEvent::sparkAngle
  sparkId, sparksRemaining,               \* of each IgnitionEvent
  pin, outOfOrder, signalFallSparkId,     \* of each IgnitionOutputPin
  isReady,             \* IgnitionEventList::isReady
  globalSparkIdCounter,
  spinning,            \* is there an RPM
  tooth, toothTime,    \* index and time of the last trigger event
  handler,             \* the onTriggerEventSparkLogic call under way, or None
  starts               \* times the engine started to turn

timers == <<now, pending>>
plan == <<dwellPosition, sparkAngle, isReady>>
coils == <<pin, outOfOrder, signalFallSparkId>>
engine == <<spinning, tooth, toothTime, starts>>
vars == <<timers, angleBasedEvents, position, plan, sparkId, sparksRemaining, coils,
          globalSparkIdCounter, engine, handler>>

Timers == INSTANCE PendingEvents WITH Idle <- None

\* scheduleByTimestampNt for a function of requests: pending records stay.
scheduleAll(requests) ==
  /\ pending' = [s \in Sched |-> IF s \in DOMAIN requests /\ pending[s] = None
                                 THEN requests[s] ELSE pending[s]]
  /\ UNCHANGED now

-----------------------------------------------------------------------------
Init ==
  /\ now = 0
  /\ pending = [s \in Sched |-> None]
  /\ angleBasedEvents = <<>>
  /\ position = [i \in Cylinder |-> 0]
  /\ dwellPosition = [i \in Cylinder |-> 0]
  /\ sparkAngle = [i \in Cylinder |-> 0]
  /\ sparkId = [i \in Cylinder |-> 0]
  /\ sparksRemaining = [i \in Cylinder |-> 0]
  /\ pin = [c \in Cylinder |-> FALSE]
  /\ outOfOrder = [c \in Cylinder |-> FALSE]
  /\ signalFallSparkId = [c \in Cylinder |-> 0]
  /\ isReady = FALSE
  /\ globalSparkIdCounter = 1
  /\ spinning = FALSE
  /\ tooth = toothCount - 1
  /\ toothTime = 0
  /\ handler = None
  /\ starts = 0

Tick ==
  /\ Timers!Tick
  /\ UNCHANGED <<angleBasedEvents, position, plan, sparkId, sparksRemaining, coils,
                 globalSparkIdCounter, engine, handler>>

\* The trigger is (again) synchronized and RPM known; the next tooth is the first.
engineStarts ==
  /\ ~spinning
  /\ starts < MaxStarts
  /\ spinning' = TRUE
  /\ tooth' = toothCount - 1
  /\ starts' = starts + 1
  /\ UNCHANGED <<timers, angleBasedEvents, position, plan, sparkId, sparksRemaining, coils,
                 globalSparkIdCounter, toothTime, handler>>

\* RpmCalculator::setStopped: no RPM, trigger events have no effect on the spark.
engineStops ==
  /\ spinning /\ handler = None
  /\ spinning' = FALSE
  /\ UNCHANGED <<timers, angleBasedEvents, position, plan, sparkId, sparksRemaining, coils,
                 globalSparkIdCounter, tooth, toothTime, starts, handler>>

\* Mutant: the coils are left as they are.
watchdogKeepsCoils ==
  /\ ~spinning /\ handler = None
  /\ \A s \in Sched : pending[s] = None
  /\ isReady' = FALSE
  /\ UNCHANGED <<timers, angleBasedEvents, position, dwellPosition, sparkAngle, sparkId,
                 sparksRemaining, coils, globalSparkIdCounter, engine, handler>>

\* Engine::watchdog: coils off, ignition schedule to be rebuilt.  The seconds
\* without a tooth that it waits for outlast every timer (timing assumption).
watchdog ==
  /\ ~spinning /\ handler = None
  /\ \A s \in Sched : pending[s] = None
  /\ isReady' = FALSE
  /\ pin' = [c \in Cylinder |-> FALSE]
  /\ UNCHANGED <<timers, angleBasedEvents, position, dwellPosition, sparkAngle, sparkId,
                 sparksRemaining, outOfOrder, signalFallSparkId, globalSparkIdCounter,
                 engine, handler>>

-----------------------------------------------------------------------------
(* Trigger events *)

\* prepareCylinderIgnitionSchedule: any advance and dwell, seen as teeth.
prepareCylinders(es) ==
  \E dwell, spark \in [es -> Tooth] :
    /\ dwellPosition' = [i \in Cylinder |-> IF i \in es THEN dwell[i] ELSE dwellPosition[i]]
    /\ sparkAngle' = [i \in Cylinder |-> IF i \in es THEN spark[i] ELSE sparkAngle[i]]

prepareIgnitionSchedule(ready) ==
  IF ready THEN UNCHANGED plan ELSE prepareCylinders(Cylinder) /\ isReady' = TRUE

\* The sparks waiting for tooth t.
DueAt(t) == {i \in Cylinder : position[i] = t /\ Contains(angleBasedEvents, i)}

\* The list once the events of es are deleted; the others keep their order.
without(list, es) ==
  LET kept == {k \in DOMAIN list : list[k] \notin es}
  IN  [n \in 1 .. Cardinality(kept) |->
         list[CHOOSE k \in kept : Cardinality({j \in kept : j <= k}) = n]]

\* A trigger event: prepare the schedule if needed, also when the trigger
\* configuration has changed since the last cycle, then
\* scheduleAllSparkEventsUntilNextTriggerTooth.
onTriggerEventSparkLogic(limited, configChanged) ==
  /\ spinning /\ handler = None
  /\ now > toothTime
  /\ toothTime' = now
  /\ LET t == (tooth + 1) % toothCount
     IN  /\ tooth' = t
         /\ configChanged => t = 0
         /\ prepareIgnitionSchedule(isReady /\ ~configChanged)
         /\ \E offset \in [DueAt(t) -> 0 .. MaxOffset] :
              scheduleAll([s \in {Spark(i) : i \in DueAt(t)} |-> now + offset[s[2]]])
         /\ SteadyTrigger => \A i \in Cylinder : dwellPosition'[i] = t =>
              /\ pending[Dwell(i)] = None /\ pending'[Spark(i)] = None
              /\ \A c \in coilsOf[i] : ~pin[c]
         /\ angleBasedEvents' = without(angleBasedEvents, DueAt(t))
         /\ handler' = [limited |-> limited, next |-> 0, earliest |-> None]
  /\ UNCHANGED <<position, sparkId, sparksRemaining, coils, globalSparkIdCounter,
                 spinning, starts>>

\* A trigger event that has no effect on the spark: the RPM is noisy or ignition
\* is disabled.
triggerEventIgnored ==
  /\ spinning /\ handler = None
  /\ now > toothTime
  /\ toothTime' = now
  /\ tooth' = (tooth + 1) % toothCount
  /\ UNCHANGED <<timers, angleBasedEvents, position, plan, sparkId, sparksRemaining, coils,
                 globalSparkIdCounter, spinning, starts, handler>>

\* The first event, from the loop's index on, that starts its dwell at this tooth.
IsNextEvent(i) ==
  /\ i >= handler.next /\ dwellPosition[i] = tooth
  /\ \A j \in handler.next .. i - 1 : dwellPosition[j] # tooth

\* handleSparkEvent up to the scheduling of the dwell.
handleSparkEvent(i, offset) ==
  /\ handler # None
  /\ handler.earliest = None
  /\ IsNextEvent(i)
  /\ sparkId' = [sparkId EXCEPT ![i] = globalSparkIdCounter]
  /\ globalSparkIdCounter' = globalSparkIdCounter + 1
  /\ IF handler.limited THEN UNCHANGED timers
     ELSE scheduleAll([s \in {Dwell(i)} |-> toothTime + offset])
  /\ handler' = [handler EXCEPT !.next = i, !.earliest = offset]
  /\ UNCHANGED <<angleBasedEvents, position, plan, sparksRemaining, coils, engine>>

\* handleSparkEvent gives up: there is no dwell, as during a configuration reset.
skipSparkEvent(i) ==
  /\ handler # None
  /\ handler.earliest = None
  /\ IsNextEvent(i)
  /\ handler' = [handler EXCEPT !.next = i + 1]
  /\ UNCHANGED <<timers, angleBasedEvents, position, plan, sparkId, sparksRemaining, coils,
                 globalSparkIdCounter, engine>>

\* Mutant: the list is not searched first.
appendAlways(list, i) == Append(list, i)

\* An event that is already in the list is not appended again.
appendOnce(list, i) == IF Contains(list, i) THEN list ELSE Append(list, i)

\* The rest of handleSparkEvent, with scheduleOrQueue; callbacks may have run
\* in between.  On one tooth the spark comes after the dwell.
scheduleOrQueue(offset) ==
  LET i == handler.next
  IN  /\ handler # None
      /\ handler.earliest # None
      /\ offset > handler.earliest
      /\ sparksRemaining' = [sparksRemaining EXCEPT
                               ![i] = IF handler.limited THEN 0 ELSE MultisparkCount]
      /\ position' = [position EXCEPT ![i] = sparkAngle[i]]
      /\ IF sparkAngle[i] = tooth
         THEN /\ scheduleAll([s \in {Spark(i)} |-> toothTime + offset])
              /\ UNCHANGED angleBasedEvents
         ELSE /\ angleBasedEvents' = appendOnce(angleBasedEvents, i)
              /\ UNCHANGED timers
      /\ handler' = [handler EXCEPT !.next = i + 1, !.earliest = None]
      /\ UNCHANGED <<plan, sparkId, coils, globalSparkIdCounter, engine>>

endOfTriggerEvent ==
  /\ handler # None
  /\ handler.earliest = None
  /\ \A i \in Cylinder : ~IsNextEvent(i)
  /\ handler' = None
  /\ UNCHANGED <<timers, angleBasedEvents, position, plan, sparkId, sparksRemaining, coils,
                 globalSparkIdCounter, engine>>

-----------------------------------------------------------------------------
(* Callbacks, run by the executor *)

\* Charge the coils, except one whose spark for this very event came first.
turnSparkPinHigh(i) ==
  LET Spared(c) == outOfOrder[c] /\ signalFallSparkId[c] = sparkId[i]
  IN  /\ Timers!Fire(Dwell(i))
      /\ outOfOrder' = [c \in Cylinder |-> IF c \in coilsOf[i] THEN FALSE ELSE outOfOrder[c]]
      /\ pin' = [c \in Cylinder |-> IF c \in coilsOf[i] THEN pin[c] \/ ~Spared(c) ELSE pin[c]]
      /\ UNCHANGED <<angleBasedEvents, position, plan, sparkId, sparksRemaining,
                     signalFallSparkId, globalSparkIdCounter, engine, handler>>

\* The modelled clock stops at TimeBound, which stands for everything later.
UpToBound(t) == IF t > TimeBound THEN TimeBound ELSE t

\* Mutant: the dwell of the next spark is scheduled, its firing is not.
dwellOfNextSpark(i) ==
  [pending EXCEPT ![Spark(i)] = None, ![Dwell(i)] = UpToBound(now + MultisparkDelay)]

\* The timers of the next multispark; a dwell that is already pending stays.
scheduleNextSpark(i) ==
  [pending EXCEPT ![Spark(i)] = UpToBound(now + MultisparkDelay + MultisparkDwell),
                  ![Dwell(i)] = IF @ = None THEN UpToBound(now + MultisparkDelay) ELSE @]

\* The coils are fired; then either both halves of the next multispark are
\* scheduled or the next revolution is prepared.  The early return for an engine
\* that has just stopped is never taken: dwellAngle is then 0, not NaN.
fireSparkAndPrepareNextSchedule(i) ==
  LET more == sparksRemaining[i] > 0
  IN  /\ Timers!Due(Spark(i))
      /\ signalFallSparkId' = [c \in Cylinder |->
            IF c \in coilsOf[i] THEN sparkId[i] ELSE signalFallSparkId[c]]
      /\ outOfOrder' = [c \in Cylinder |-> outOfOrder[c] \/ (c \in coilsOf[i] /\ ~pin[c])]
      /\ pin' = [c \in Cylinder |-> pin[c] /\ c \notin coilsOf[i]]
      /\ now' = now
      /\ IF more
         THEN /\ sparksRemaining' = [sparksRemaining EXCEPT ![i] = @ - 1]
              /\ pending' = scheduleNextSpark(i)
              /\ UNCHANGED <<dwellPosition, sparkAngle>>
         ELSE /\ pending' = [pending EXCEPT ![Spark(i)] = None]
              /\ prepareCylinders({i})
              /\ UNCHANGED sparksRemaining
      /\ UNCHANGED <<angleBasedEvents, position, isReady, sparkId, globalSparkIdCounter,
                     engine, handler>>

-----------------------------------------------------------------------------
TriggerEvent ==
  /\ now + MaxOffset < TimeBound
  /\ globalSparkIdCounter + cylindersCount <= MaxSparks + 1
  /\ \E limited, configChanged \in BOOLEAN : onTriggerEventSparkLogic(limited, configChanged)

HandlerStep ==
  \/ \E i \in Cylinder, offset \in 0 .. MaxOffset : handleSparkEvent(i, offset)
  \/ \E i \in Cylinder : skipSparkEvent(i)
  \/ \E offset \in 1 .. MaxOffset + 1 : scheduleOrQueue(offset)
  \/ endOfTriggerEvent

Callback ==
  \/ \E i \in Cylinder : turnSparkPinHigh(i)
  \/ \E i \in Cylinder : fireSparkAndPrepareNextSchedule(i)

Next ==
  \/ Tick
  \/ engineStarts
  \/ engineStops
  \/ watchdog
  \/ TriggerEvent
  \/ triggerEventIgnored
  \/ HandlerStep
  \/ Callback

Spec == Init /\ [][Next]_vars

\* Time passes, interrupt handlers run to their end, due callbacks are run, an
\* engine without trigger events is found to be stopped and the watchdog, called
\* from the periodic slow callback, looks at it.
FairSpec ==
  /\ Spec
  /\ WF_vars(Tick)
  /\ WF_vars(HandlerStep)
  /\ WF_vars(Callback)
  /\ WF_vars(engineStops)
  /\ WF_vars(watchdog)

-----------------------------------------------------------------------------
(* Properties *)

\* The ignition schedule, timers and coils are well formed; a tooth computed by
\* prepareCylinderIgnitionSchedule is always one of the trigger wheel.
TypeOK ==
  /\ Timers!TypeOK
  /\ angleBasedEvents \in Seq(Cylinder)
  /\ {position, dwellPosition, sparkAngle} \subseteq [Cylinder -> Tooth]
  /\ sparkId \in [Cylinder -> Nat]
  /\ sparksRemaining \in [Cylinder -> 0 .. MultisparkCount]
  /\ {pin, outOfOrder} \subseteq [Cylinder -> BOOLEAN]
  /\ signalFallSparkId \in [Cylinder -> Nat]
  /\ {isReady, spinning} \subseteq BOOLEAN
  /\ globalSparkIdCounter \in Nat
  /\ tooth \in Tooth /\ toothTime \in Timers!Time
  /\ starts \in Nat
  /\ handler \in HandlerCall \cup {None}

\* spark_logic.cpp: "we make sure that coil dwell started while spark was
\* enabled would fire and not burn the coil": a charging coil always has a spark
\* to come, on the timer, in the list of angle-based events or in the handler
\* that is about to schedule it.
CoilWillFire ==
  \A c \in Cylinder : pin[c] =>
    \E i \in Cylinder :
      /\ c \in coilsOf[i]
      /\ \/ pending[Spark(i)] # None
         \/ Contains(angleBasedEvents, i)
         \/ handler # None /\ handler.earliest # None /\ handler.next = i

\* An angle-based event is in the list at most once (the list is linked through
\* the event itself: a second append would make it loop).
ListedOnce == IsInjective(angleBasedEvents)

\* No coil is left charging, also when the engine stops between the dwell and
\* the tooth that its spark waits for.
CoilReleased == \A c \in Cylinder : pin[c] ~> ~pin[c]
=============================================================================
