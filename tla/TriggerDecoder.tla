--------------------------- MODULE TriggerDecoder ---------------------------
(***************************************************************************)
(* TriggerState, TriggerCentral and the listeners they call directly: from  *)
(* the edges of a wheel of TriggerShapes to the index within the engine     *)
(* cycle that every other listener works with.                              *)
(*                                                                          *)
(* The environment is a shaft that turns: it starts at any angle, and up to *)
(* maxFaults times an edge is missed, an extra one is seen, the shaft       *)
(* stands still, its speed changes, a cam edge is missed or the             *)
(* configuration is changed while edges arrive.  Time is counted in the     *)
(* units of angle the shaft covers at the lower of its two speeds.          *)
(***************************************************************************)
EXTENDS TriggerPosition, FiniteSets, SequencesExt

CONSTANTS
    Configs       \* the trigger configurations checked

\* maxFaults bounds the disturbances of a behaviour; stride: the shaft starts before
\* every stride-th edge.
ASSUME ConfigAssumption ==
    Configs \subseteq
        [type : TriggerTypes, ambiguousOperationMode : {"CRANK", "CAM", "TWO_STROKE"}, onlyRising : BOOLEAN,
         noiseless : BOOLEAN, faster : BOOLEAN, vvtMode : {"INACTIVE", "FIRST_HALF", "SECOND_HALF", "MIATA_NB2"},
         maxFaults : Nat, stride : Nat \ {0}]

VARIABLES
    config,       \* what engineConfiguration says of the trigger
    triggerShape, \* the wheel and the tables made from it
    ts,           \* triggerState
    filter,       \* noiseFilter
    rpm,          \* what RpmCalculator keeps of spinning
    cam,          \* previousVvtCamDuration
    errorPin,     \* triggerDecoderErrorPin, the verdict of the last synchronization
    since,        \* time elapsed since the instants the code remembers
    at,           \* angle of the shaft in its engine cycle
    pos,          \* number of the next edge of the wheel
    speed,        \* 2: a unit of angle takes a unit of time, 1: half of it
    faults,       \* disturbances so far
    clean,        \* edges of the wheel since the last disturbance
    verdict,      \* was the last index given to the listeners right?
    misled        \* were they told a wrong one since the last synchronization (and the
                  \* tables were not made anew since)?

vars == <<config, triggerShape, ts, filter, rpm, cam, errorPin, since, at, pos, speed, faults, clean, verdict,
          misled>>
setup == <<config, triggerShape>>
shaft == <<at, pos, speed>>

NT_PER_SECOND == 30000
NO_RPM_EVENTS_TIMEOUT_SECS == 2
Ages(t) == IF t > 10 * NT_PER_SECOND THEN 10 * NT_PER_SECOND ELSE t
SYMMETRICAL_CRANK_SENSOR_DIVIDER == 4
PRE_SYNC_EVENTS == PWM_PHASE_MAX_COUNT \div 4
REV_MODULUS == 4   \* totalRevolutionCounter is only read modulo 2 and 4
None == -1

\* A wheel is a waveform of TriggerShapes and useOnlyRisingEdgeForTrigger.
Step(s) == IF s.useOnlyRisingEdge THEN 2 ELSE 1
isUsefulSignal(s, up) == up \/ ~s.useOnlyRisingEdge

----------------------------------------------------------------------------
(* TriggerState::decodeTriggerEvent                                         *)

noEvents == [w \in Wheels |-> 0]

resetTriggerState ==
    [shaft_is_synchronized |-> FALSE, toothDurations |-> [i \in 1..GAP_TRACKING_LENGTH |-> 0],
     totalRevolutionCounter |-> 0, eventCount |-> noEvents, current_index |-> 0, isFirstEvent |-> TRUE]

\* d > ratio * e and d < ratio * e, ratio in thousandths, within 31 bits.
Above(d, e, ratio) == d > (e \div 1000) * ratio + ((e % 1000) * ratio) \div 1000
Below(d, e, ratio) == d < (e \div 1000) * ratio + ((e % 1000) * ratio + 999) \div 1000

isSync(s, d) ==
    \A i \in 1..GAP_TRACKING_LENGTH :
        s.gaps[i] = NaNGap \/ (Above(d[i], d[i + 1], s.gaps[i][1]) /\ Below(d[i], d[i + 1], s.gaps[i][2]))

needToSkip(s, wheel, up) ==
    \/ ~s.gapBothDirections /\ s.useRiseEdge # up
    \/ s.useOnlyPrimaryForSync /\ wheel # T_PRIMARY

\* toothAgo: time since the last edge that counts for gaps; eventAgo: since the
\* last edge.
stillSynchronized(t, eventAgo) == t.shaft_is_synchronized /\ eventAgo <= NT_PER_SECOND

isSynchronizationPoint(s, t, wheel, up, toothAgo, eventAgo) ==
    LET d == <<IF t.isFirstEvent THEN 0 ELSE Ages(toothAgo)>> \o t.toothDurations
    IN  /\ ~needToSkip(s, wheel, up)
        /\ IF s.isSynchronizationNeeded THEN isSync(s, d)
           ELSE ~stillSynchronized(t, eventAgo) \/ t.current_index >= Size(s) - Step(s)

decodeTriggerEvent(s, t, wheel, up, toothAgo, eventAgo) ==
    LET skip  == needToSkip(s, wheel, up)
        point == isSynchronizationPoint(s, t, wheel, up, toothAgo, eventAgo)
        d0    == IF t.isFirstEvent THEN 0 ELSE Ages(toothAgo)
    IN  [shaft_is_synchronized  |-> point \/ stillSynchronized(t, eventAgo),
         toothDurations         |-> IF skip THEN t.toothDurations
                                    ELSE <<d0>> \o SubSeq(t.toothDurations, 1, GAP_TRACKING_LENGTH - 1),
         totalRevolutionCounter |-> t.totalRevolutionCounter + (IF point THEN 1 ELSE 0),
         eventCount             |-> IF point THEN noEvents ELSE [t.eventCount EXCEPT ![wheel] = @ + 1],
         current_index          |-> IF point THEN 0 ELSE t.current_index + Step(s),
         isFirstEvent           |-> t.isFirstEvent /\ skip]

\* Mutant: the last event of the cycle is not counted.
validateEventCounters_LastNotCounted(s, t, wheel) == t.eventCount # s.expectedEventCount

validateEventCounters(s, t, wheel) == [t.eventCount EXCEPT ![wheel] = @ + 1] # s.expectedEventCount

\* Mutant: the last event of a cycle is out of range.
isValidIndex_OffByOne(s, t) == t.current_index < Size(s) - 1

isValidIndex(s, t) == t.current_index < Size(s)

----------------------------------------------------------------------------
(* Where the wheel's synchronization point is: TriggerStimulatorHelper      *)

\* getChannelState at the last event: what the channels are at before the first.
lastLevels(s) ==
    [w \in Wheels |-> LET own == SelectSeq(s.events, LAMBDA e : e.wheel = w)
                      IN  IF own = <<>> THEN s.initialState[w] ELSE own[Len(own)].up]

\* The simulation: the decoder, the levels of the channels, the time of the last gap
\* edge and the number of the event that synchronized first.  It is over
\* GAP_TRACKING_LENGTH cycles after that event.
simulationStart == [t |-> resetTriggerState, levels |-> noEvents, toothAt |-> 0, zero |-> None]

\* Event number j, counted from 1 over all cycles: an edge of every channel whose
\* level it changes.
feedSimulatedEvent(s, p, j) ==
    LET i    == ((j - 1) % Size(s)) + 1
        time == ((j - 1) \div Size(s)) * CYCLE + s.events[i].angle
        before == IF i = 1 THEN lastLevels(s) ELSE p.levels
        levels == [(IF i = 1 THEN s.initialState ELSE p.levels) EXCEPT ![s.events[i].wheel] = s.events[i].up]
        needEvent(w) == before[w] # levels[w]
        feed(q, w) ==
            LET t == decodeTriggerEvent(s, q.t, w, levels[w], time - q.toothAt, 0)
            IN  IF needEvent(w) /\ isUsefulSignal(s, levels[w])
                THEN [q EXCEPT !.t = t, !.toothAt = IF needToSkip(s, w, levels[w]) THEN @ ELSE time,
                               !.zero = IF @ = None /\ t.shaft_is_synchronized /\ j <= 4 * PWM_PHASE_MAX_COUNT
                                        THEN j ELSE @]
                ELSE q
    IN  IF p.zero # None /\ j > p.zero + GAP_TRACKING_LENGTH * Size(s) THEN p
        ELSE feed(feed(feed([p EXCEPT !.levels = levels], T_PRIMARY), T_SECONDARY), T_CHANNEL_3)

\* findTriggerSyncPoint and assertSyncPositionAndSetDutyCycle: each of the cycles
\* after the first synchronization must end in another.  The event the decoder
\* counts from, None when the definition is refused.  (The events are fed in blocks,
\* each after the one before it is done, to keep the recursion shallow.)
BLOCK == 32
findTriggerZeroEventIndex(s) ==
    LET feedBlock(p, first) ==
            LET feed[k \in 0..BLOCK] == IF k = 0 THEN p ELSE feedSimulatedEvent(s, feed[k - 1], first + k)
            IN  feed[BLOCK]
        blocks == (4 * PWM_PHASE_MAX_COUNT + GAP_TRACKING_LENGTH * Size(s)) \div BLOCK + 1
        simulation[b \in 0..blocks] ==
            IF b = 0 THEN simulationStart
            ELSE LET p == simulation[b - 1]
                 IN  IF p.zero >= None THEN feedBlock(p, (b - 1) * BLOCK) ELSE p
        end == simulation[blocks]
    IN  IF end.zero # None /\ end.t.totalRevolutionCounter = GAP_TRACKING_LENGTH + 1
        THEN ((end.zero - 1) % Size(s)) + 1 ELSE None

\* Engine::initializeTriggerWaveform
initializedShape(c) ==
    LET b    == initializeTriggerWaveform(c.type, c.ambiguousOperationMode)
        w    == b @@ [useOnlyRisingEdge |-> c.onlyRising, expectedEventCount |-> expectedEventCount(b, c.onlyRising)]
        zero == findTriggerZeroEventIndex(w)
        bad  == DefinitionError(w, c.onlyRising) \/ zero = None
    IN  w @@ [shapeDefinitionError |-> bad, triggerShapeSynchPointIndex |-> zero,
              eventAngles |-> IF bad THEN <<>> ELSE calculateTriggerSynchPoint(w, zero)]

----------------------------------------------------------------------------
(* The shaft                                                                *)

EngineCycle == CyclesPerEngineCycle(triggerShape) * CYCLE
ZeroAngle == triggerShape.events[triggerShape.triggerShapeSynchPointIndex].angle

\* Where the cam sensor sees an edge of the front in use: one tooth on a cam of
\* no particular phase, or the three rises of the Miata NB2 cam.
CamAngles(c) ==
    CASE c.vvtMode = "INACTIVE"  -> {}
      [] c.vvtMode = "MIATA_NB2" -> {15400, 28080, 1000}
      [] OTHER                   -> {3333}

NextEdge == triggerShape.events[pos]
EdgeAngle == (at \div CYCLE) * CYCLE + NextEdge.angle
CamsDue == {a \in CamAngles(config) : at < a /\ a < EdgeAngle}

Turn(to) == at' = to % EngineCycle
TurnTime(to) == ((to - at) * speed) \div 2
PassEdge == Turn(EdgeAngle) /\ pos' = (pos % Size(triggerShape)) + 1 /\ UNCHANGED speed

\* Each age is kept only as far, and only when, the code tells it apart.
Capped(age, cap) == IF age > cap THEN cap ELSE age
Elapsed(dt) ==
    [tooth |-> Ages(since.tooth + dt),
     event |-> Capped(since.event + dt, NT_PER_SECOND + 1),
     zero  |-> Capped(since.zero + dt, NO_RPM_EVENTS_TIMEOUT_SECS * NT_PER_SECOND),
     cam   |-> IF config.vvtMode = "MIATA_NB2" THEN Ages(since.cam + dt) ELSE 0,
     edge  |-> [up \in BOOLEAN |-> IF config.noiseless THEN Ages(since.edge[up] + dt) ELSE 0]]

\* Undisturbed edges are counted up to CLEAN_CYCLES engine cycles.
CLEAN_CYCLES == 5
CleanCap == CLEAN_CYCLES * CyclesPerEngineCycle(triggerShape) * Size(triggerShape)

Disturbance == faults < config.maxFaults /\ faults' = faults + 1 /\ clean' = 0

----------------------------------------------------------------------------
(* TriggerCentral                                                           *)

resetAccumSignalData == [heard |-> [up \in BOOLEAN |-> FALSE], accum |-> [up \in BOOLEAN |-> 0],
                         prev |-> [up \in BOOLEAN |-> 0]]

syncRatioAvg(s) == (s.gaps[1][1] + s.gaps[1][2] + 1000) \div 2000

\* Only the primary channel is filtered.  pass: whether the edge is not too early.
noiseFilter(s, f, t, up, ago) ==
    LET currentPeriod == f.accum[up] + (IF f.heard[up] THEN ago ELSE 0)
        isGapExpected == /\ s.isSynchronizationNeeded /\ t.shaft_is_synchronized
                         /\ t.eventCount[T_PRIMARY] + 1 = s.expectedEventCount[T_PRIMARY]
        allowedPeriod == f.prev[~up] * (IF isGapExpected THEN syncRatioAvg(s) ELSE 1)
        maxAllowedPeriod == (5 * allowedPeriod) \div 4
        pass   == currentPeriod >= (2 * allowedPeriod) \div 3
        normal == ~isGapExpected /\ (maxAllowedPeriod = 0 \/ currentPeriod <= maxAllowedPeriod)
    IN  [pass |-> pass,
         filter |-> [heard |-> [f.heard EXCEPT ![up] = TRUE],
                     accum |-> [f.accum EXCEPT ![up] = IF pass THEN 0 ELSE currentPeriod],
                     prev  |-> [f.prev EXCEPT ![up] = IF pass /\ normal THEN currentPeriod ELSE @]]]

\* The user's setting counts for the wheels that may sit on the crankshaft or on the
\* camshaft.
getOperationMode(c, s) ==
    IF c.type \in {"TT_TOOTHED_WHEEL", "TT_ONE", "TT_ONE_PLUS_ONE", "TT_3_1_CAM", "TT_TOOTHED_WHEEL_60_2",
                  "TT_TOOTHED_WHEEL_36_1"}
    THEN c.ambiguousOperationMode ELSE s.operationMode

\* The index the listeners are given.
triggerIndexForListeners(s, t) ==
    LET mode == getOperationMode(config, s)
        crankDivider == IF mode = "CRANK" THEN 2 ELSE SYMMETRICAL_CRANK_SENSOR_DIVIDER
    IN  IF mode \in {"CAM", "TWO_STROKE"} THEN t.current_index
        ELSE t.current_index + (t.totalRevolutionCounter % crankDivider) * Size(s)

OnTriggerSynchronizationLost(r, lost) ==
    IF lost THEN [r EXCEPT !.state = "STOPPED", !.known = FALSE, !.isSpinning = FALSE] ELSE r

\* setSpinningUp and setLastEventTimeForInstantRpm
OnTriggerStateProperState(c, r, t) ==
    LET stopped == r.state = "STOPPED" \/ (r.state = "SPINNING_UP" /\ ~r.known)
        s == IF stopped /\ ~r.isSpinning
             THEN [r EXCEPT !.state = "SPINNING_UP", !.isSpinning = TRUE, !.spinningEventIndex = 0] ELSE r
    IN  IF ~c.faster THEN r
        ELSE IF s.state = "SPINNING_UP" /\ ~t.shaft_is_synchronized /\ s.spinningEventIndex < PRE_SYNC_EVENTS
             THEN [s EXCEPT !.spinningEventIndex = @ + 1] ELSE s

\* RPM is known once index 0 came twice within two seconds, or from the instant
\* RPM of the spin-up, which needs enough timestamps.
rpmShaftPositionCallback(r, index, zeroAgo, instantRpm) ==
    LET s == IF index = 0 /\ zeroAgo < NO_RPM_EVENTS_TIMEOUT_SECS * NT_PER_SECOND
             THEN [r EXCEPT !.known = TRUE, !.state = "RUNNING"] ELSE r
    IN  IF s.state = "SPINNING_UP" THEN [s EXCEPT !.known = instantRpm] ELSE s

\* Is this the angle of the shaft, up to whole trigger cycles?
RightAngle(index, angle) == triggerShape.eventAngles[index] % CYCLE = (angle - ZeroAngle) % CYCLE

\* An edge that gets past the filter, at time e and shaft angle `angle`, None when
\* it is not one of the wheel.
usefulShaftSignal(wheel, up, e, angle) ==
    LET s     == triggerShape
        next  == decodeTriggerEvent(s, ts, wheel, up, e.tooth, e.event)
        point == isSynchronizationPoint(s, ts, wheel, up, e.tooth, e.event)
        index == triggerIndexForListeners(s, next)
        lost  == e.event > NT_PER_SECOND
        told  == next.shaft_is_synchronized /\ isValidIndex(s, next)
        r     == OnTriggerStateProperState(config, OnTriggerSynchronizationLost(rpm, lost), next)
    IN  /\ ts' = [next EXCEPT !.totalRevolutionCounter = @ % REV_MODULUS]
        /\ errorPin' = IF point /\ stillSynchronized(ts, e.event) THEN validateEventCounters(s, ts, wheel)
                       ELSE errorPin
        /\ \E instantRpm \in (IF told /\ r.state = "SPINNING_UP" THEN BOOLEAN ELSE {FALSE}) :
              rpm' = IF told THEN rpmShaftPositionCallback(r, index, e.zero, instantRpm) ELSE r
        /\ since' = [e EXCEPT !.event = 0, !.tooth = IF needToSkip(s, wheel, up) THEN @ ELSE 0,
                              !.zero = IF told /\ index = 0 THEN 0 ELSE @]
        /\ verdict' = IF ~told \/ angle = None THEN "none" ELSE IF RightAngle(index, angle) THEN "right" ELSE "wrong"
        /\ misled' = IF point \/ misled = "no" THEN IF verdict' = "wrong" THEN "yes" ELSE "no" ELSE misled

handleShaftSignal(wheel, up, dt, angle) ==
    LET e        == Elapsed(dt)
        filtered == ~triggerShape.shapeDefinitionError /\ config.noiseless /\ wheel = T_PRIMARY
        f        == noiseFilter(triggerShape, filter, ts, up, e.edge[up])
        now      == IF filtered THEN [e EXCEPT !.edge[up] = 0] ELSE e
        useful   == ~triggerShape.shapeDefinitionError /\ isUsefulSignal(triggerShape, up)
    IN  /\ filter' = IF filtered THEN f.filter ELSE filter
        /\ \/ /\ ~useful
              /\ since' = now
              /\ UNCHANGED <<ts, rpm, errorPin, verdict, misled>>
           \/ /\ useful /\ filtered /\ ~f.pass
              /\ since' = now /\ verdict' = "none"
              /\ UNCHANGED <<ts, rpm, errorPin, misled>>
           \/ /\ useful /\ (filtered => f.pass)
              /\ usefulShaftSignal(wheel, up, now, angle)

\* Mutant: the revolution is moved on at every cam edge.
hwHandleVvtCamSignal_AlwaysMoves(dt) ==
    /\ ts' = [ts EXCEPT !.totalRevolutionCounter = (@ + 1) % REV_MODULUS]
    /\ since' = Elapsed(dt)
    /\ UNCHANGED cam

\* An edge of the cam sensor, the front that is in use.
hwHandleVvtCamSignal(dt) ==
    LET e        == Elapsed(dt)
        duration == e.cam
        goodRatio == ~Below(duration, cam, 6375) /\ ~Above(duration, cam, 14000)
        rev      == ts.totalRevolutionCounter
        nb2      == config.vvtMode = "MIATA_NB2"
    IN  /\ cam' = IF rpm.known /\ nb2 THEN duration ELSE cam
        /\ since' = IF rpm.known /\ nb2 THEN [e EXCEPT !.cam = 0] ELSE e
        /\ ts' = IF ~rpm.known \/ (nb2 /\ ~goodRatio) THEN ts
                 ELSE [ts EXCEPT !.totalRevolutionCounter =
                         IF nb2 THEN 0
                         ELSE IF (rev % 2 = 1) = (config.vvtMode = "FIRST_HALF") THEN rev
                         ELSE (rev + 1) % REV_MODULUS]

----------------------------------------------------------------------------
Init ==
    /\ config \in Configs
    /\ triggerShape = initializedShape(config)
    /\ ~triggerShape.shapeDefinitionError
    /\ ts = resetTriggerState
    /\ filter = resetAccumSignalData
    /\ rpm = [state |-> "STOPPED", known |-> FALSE, isSpinning |-> FALSE, spinningEventIndex |-> 0]
    /\ cam = 0
    /\ errorPin = FALSE
    /\ since = [tooth |-> 10 * NT_PER_SECOND, event |-> NT_PER_SECOND + 1,
                zero |-> NO_RPM_EVENTS_TIMEOUT_SECS * NT_PER_SECOND, cam |-> 0, edge |-> [up \in BOOLEAN |-> 0]]
    /\ pos \in {p \in 1..Size(triggerShape) : p % config.stride = 1 % config.stride}
    /\ \E cycle \in 0..(IF CamAngles(config) = {} THEN 0 ELSE CyclesPerEngineCycle(triggerShape) - 1) :
          at = cycle * CYCLE + IF pos = 1 THEN 0 ELSE triggerShape.events[pos - 1].angle
    /\ speed = 2
    /\ faults = 0 /\ clean = 0
    /\ verdict = "none" /\ misled = "no"

Tooth ==
    /\ CamsDue = {}
    /\ PassEdge
    /\ handleShaftSignal(NextEdge.wheel, NextEdge.up, TurnTime(EdgeAngle), EdgeAngle)
    /\ clean' = IF clean < CleanCap THEN clean + 1 ELSE clean
    /\ UNCHANGED <<setup, cam, faults>>

CamTooth ==
    \E a \in CamsDue :
        /\ \A b \in CamsDue : a <= b
        /\ Turn(a)
        /\ hwHandleVvtCamSignal(TurnTime(a))
        /\ UNCHANGED <<setup, filter, rpm, errorPin, pos, speed, faults, clean, verdict, misled>>

MissedTooth ==
    /\ CamsDue = {}
    /\ Disturbance
    /\ PassEdge
    /\ since' = Elapsed(TurnTime(EdgeAngle))
    /\ UNCHANGED <<setup, ts, filter, rpm, cam, errorPin, verdict, misled>>

MissedCamTooth ==
    \E a \in CamsDue :
        /\ \A b \in CamsDue : a <= b
        /\ Disturbance
        /\ Turn(a)
        /\ since' = Elapsed(TurnTime(a))
        /\ UNCHANGED <<setup, ts, filter, rpm, cam, errorPin, pos, speed, verdict, misled>>

\* Interference, half way to the next edge.
ExtraEdge(wheel, up) ==
    LET half == at + (EdgeAngle - at) \div 2
    IN  /\ CamsDue = {}
        /\ Disturbance
        /\ Turn(half)
        /\ handleShaftSignal(wheel, up, TurnTime(half), None)
        /\ UNCHANGED <<setup, cam, pos, speed>>

Stall(time) ==
    /\ Disturbance
    /\ since' = Elapsed(time)
    /\ UNCHANGED <<setup, ts, filter, rpm, cam, errorPin, shaft, verdict, misled>>

SpeedChange ==
    /\ Disturbance
    /\ speed' = 3 - speed
    /\ UNCHANGED <<setup, ts, filter, rpm, cam, errorPin, since, at, pos, verdict, misled>>

\* useOnlyRisingEdgeForTrigger is changed while edges arrive: the wheel's tables are
\* made anew under a lock, the decoder keeps its state.
onConfigurationChangeTriggerCallback ==
    /\ Disturbance
    /\ config' \in Configs /\ config' = [config EXCEPT !.onlyRising = ~@]
    /\ triggerShape' = initializedShape(config')
    /\ filter' = resetAccumSignalData
    /\ verdict' = "none" /\ misled' = "reconfigured"
    /\ UNCHANGED <<ts, rpm, cam, errorPin, since, shaft>>

Next ==
    \/ Tooth
    \/ CamTooth
    \/ MissedTooth
    \/ MissedCamTooth
    \/ \E wheel \in {e.wheel : e \in ToSet(triggerShape.events)}, up \in BOOLEAN : ExtraEdge(wheel, up)
    \/ \E time \in {CYCLE, NT_PER_SECOND + 1, 10 * NT_PER_SECOND} : Stall(time)
    \/ SpeedChange
    \/ onConfigurationChangeTriggerCallback

Spec == Init /\ [][Next]_vars

----------------------------------------------------------------------------

\* The state is well typed; in particular the revolution counter and the index are
\* the ones triggerIndexForListeners is defined for.
TypeOK ==
    /\ config \in Configs
    /\ ts.totalRevolutionCounter \in 0..REV_MODULUS - 1 /\ ts.current_index \in Nat
    /\ at \in 0..EngineCycle - 1 /\ pos \in 1..Size(triggerShape)
    /\ faults \in 0..config.maxFaults /\ clean \in 0..CleanCap
    /\ verdict \in {"none", "right", "wrong"}

IN_STEP_CYCLES == 2

\* From wherever the shaft starts and whatever disturbed it, after two trigger cycles
\* of good edges every index handleShaftSignal gives to the listeners stands for the
\* angle the shaft is at.  (shapeWithoutTdc: such a wheel says nothing of the angle.)
InStep ==
    clean >= IN_STEP_CYCLES * Size(triggerShape) /\ ~triggerShape.shapeWithoutTdc => verdict = "right"

\* When a missed or extra edge made the listeners work with a wrong angle, the next
\* synchronization finds it: decodeTriggerEvent reports the wrong event count on
\* triggerDecoderErrorPin.  (Two disturbances can make up for one another in the
\* count, and a change of the tables in mid-cycle is no error of the wheel.)
WrongIsFlagged ==
    [][/\ misled = "yes" /\ faults' <= 1 /\ ~triggerShape.shapeWithoutTdc
       /\ ts.shaft_is_synchronized /\ ts.current_index # 0 /\ ts'.current_index = 0
       => errorPin']_vars

\* prepareShape finds, for every degree of the engine cycle, the last event at or
\* before it: nothing that is scheduled from that event lies in its past
\* (findTriggerPosition), and no later event is skipped.
PositionFound == faults = 0 /\ clean = 0 /\ pos = 1 => PositionsFound(triggerShape)

\* The trigger cycles between the synchronization point at angle ZeroAngle and an
\* angle of the engine cycle.
PhysicalRevolution(angle) ==
    Cardinality({k \in 0..CyclesPerEngineCycle(triggerShape) - 1 : k * CYCLE + ZeroAngle <= angle})
CamReference == IF config.vvtMode = "MIATA_NB2" THEN 15400 ELSE 3333

\* With a cam sensor the revolution counter settles, whatever the parity it began
\* with and whatever disturbed it, on the phase hwHandleVvtCamSignal aims for: it
\* numbers the crank's revolutions from the one the cam edge falls in.
PhaseLocked ==
    config.vvtMode # "INACTIVE" /\ clean = CleanCap =>
        (ts.totalRevolutionCounter - PhysicalRevolution(at)
          - (IF config.vvtMode = "FIRST_HALF" THEN 1 ELSE 0) + PhysicalRevolution(CamReference))
        % CyclesPerEngineCycle(triggerShape) = 0
=============================================================================
