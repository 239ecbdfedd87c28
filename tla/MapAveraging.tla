----------------------------- MODULE MapAveraging -----------------------------
(***************************************************************************)
(* Manifold pressure, averaged over a window of angles in each cycle: a    *)
(* trigger event schedules the opening of the windows, each opening        *)
(* schedules its closing, the ADC interrupt adds samples in between, and a *)
(* closing window stores its average in a ring whose minimum is the MAP.   *)
(* The trigger interrupt preempts the timer's, and both preempt the ADC's; *)
(* angles come from a thread that all of them preempt.  Delays are left    *)
(* open: any pending record may be the next one to fire.                   *)
(***************************************************************************)
EXTENDS Integers, Sequences, FiniteSets, FiniteSetsExt

CONSTANTS cylindersCount,
          Samples,                  \* what the sensor may read
          MAX_MAP_BUFFER_LENGTH,
          Lengths,                  \* what CONFIG(mapMinBufferLength) may be set to
          MaxSamples                \* model bound: samples between two openings

Cylinder == 0 .. cylindersCount - 1

FLT_MAX == 1000
NO_VALUE_YET == -100

ASSUME MapAveragingAssumption ==
  /\ cylindersCount \in Nat \ {0} /\ MAX_MAP_BUFFER_LENGTH \in Nat \ {0}
  /\ Samples \subseteq 0 .. FLT_MAX /\ Samples # {}
  /\ Lengths \subseteq Int /\ Lengths # {} /\ MaxSamples \in Nat

StartTimer(i, k) == <<"startTimer", i, k>>
EndTimer(i, k) == <<"endTimer", i, k>>
Sched == {StartTimer(i, k) : i \in Cylinder, k \in {0, 1}} \cup {EndTimer(i, k) : i \in Cylinder, k \in {0, 1}}

VARIABLES
  pending,                  \* records on the timer
  isAveraging, mapAdcAccumulator, mapMeasurementsCounter,
  adc,                      \* the sample an interrupted ADC callback is about to add: at most one
  averagedMapRunningBuffer, averagedMapBufIdx, mapMinBufferLength, currentPressure,
  configLength,             \* CONFIG(mapMinBufferLength)
  validRpm,
  mapAveragingStart,        \* for each cylinder: is its angle a number
  mapAveragingDuration,     \* is the duration a number
  refresh,                  \* the refreshMapAveragingPreCalc under way: at most one
  recent,                   \* history: the results since the ring was reset, latest first
  early                     \* history: samples in the accumulator read before the last opening

window == <<isAveraging, mapAdcAccumulator, mapMeasurementsCounter, adc, early>>
ring == <<averagedMapRunningBuffer, averagedMapBufIdx, mapMinBufferLength, currentPressure, recent>>
angles == <<mapAveragingStart, mapAveragingDuration, refresh>>
vars == <<pending, window, ring, configLength, validRpm, angles>>

-----------------------------------------------------------------------------
\* The length within its range.
applied(length) == Max({Min({length, MAX_MAP_BUFFER_LENGTH}), 1})

\* The first entries are set to the largest value, the others stay.
cleared(length) == [i \in 0 .. MAX_MAP_BUFFER_LENGTH - 1 |->
                      IF i < length THEN FLT_MAX ELSE averagedMapRunningBuffer[i]]

Init ==
  /\ pending = {}
  /\ isAveraging = FALSE /\ mapAdcAccumulator = 0 /\ mapMeasurementsCounter = 0
  /\ adc = {} /\ early = 0
  /\ configLength \in Lengths
  /\ mapMinBufferLength = applied(configLength)
  /\ averagedMapRunningBuffer = [i \in 0 .. MAX_MAP_BUFFER_LENGTH - 1 |->
                                   IF i < mapMinBufferLength THEN FLT_MAX ELSE 0]
  /\ averagedMapBufIdx = 0 /\ currentPressure = NO_VALUE_YET /\ recent = <<>>
  /\ validRpm = FALSE
  /\ mapAveragingStart = [i \in Cylinder |-> FALSE] /\ mapAveragingDuration = FALSE
  /\ refresh = {}

\* The engine starts and stops,
setValidRpm ==
  /\ validRpm' = ~validRpm
  /\ UNCHANGED <<pending, window, ring, configLength, angles>>

\* external: the configuration is changed.
setMapMinBufferLength(length) ==
  /\ configLength' = length
  /\ UNCHANGED <<pending, window, ring, validRpm, angles>>

-----------------------------------------------------------------------------
(* refreshMapAveragingPreCalc, in a thread: one cylinder after the other,   *)
(* then the duration, all numbers or none according to the RPM read first.  *)

refreshMapAveragingPreCalc ==
  /\ refresh = {}
  /\ refresh' = {[next |-> 0, valid |-> validRpm]}
  /\ UNCHANGED <<pending, window, ring, configLength, validRpm, mapAveragingStart, mapAveragingDuration>>

refreshNext(r) ==
  /\ refresh = {r}
  /\ IF r.next < cylindersCount
     THEN /\ mapAveragingStart' = [mapAveragingStart EXCEPT ![r.next] = r.valid]
          /\ refresh' = {[r EXCEPT !.next = @ + 1]}
          /\ UNCHANGED mapAveragingDuration
     ELSE /\ mapAveragingDuration' = r.valid
          /\ refresh' = {}
          /\ UNCHANGED mapAveragingStart
  /\ UNCHANGED <<pending, window, ring, configLength, validRpm>>

-----------------------------------------------------------------------------
\* scheduleByAngle of some records, given those on the timer.  When the RPM is 0 the time
\* of a degree is not a number, and neither may the angle be one; the conversion of such
\* a delay to an integer gives 0 on the processors of the firmware, so that the executor
\* takes the record all the same, for now: no delay is refused, and any record may be due.
scheduleByAngle(timer, records) == timer \cup records

\* applyMapMinBufferLength, when the configured length is not the one in use.
applyMapMinBufferLength ==
  IF configLength = mapMinBufferLength THEN UNCHANGED ring
  ELSE /\ mapMinBufferLength' = applied(configLength)
       /\ averagedMapBufIdx' = 0
       /\ averagedMapRunningBuffer' = cleared(applied(configLength))
       /\ recent' = <<>>
       /\ UNCHANGED currentPressure

\* The cylinders before the first one whose window has no number for an end.
Prepared(samplingCount) ==
  {i \in 0 .. samplingCount - 1 : mapAveragingDuration /\ \A j \in 0 .. i : mapAveragingStart[j]}

\* The trigger event at mapAveragingSchedulingAtIndex; k is the parity of the
\* revolution counter.  A record that is pending stays as it is.
mapAveragingTriggerCallback(k, samplingCount) ==
  /\ validRpm
  /\ applyMapMinBufferLength
  /\ pending' = scheduleByAngle(pending, {StartTimer(i, k) : i \in Prepared(samplingCount)})
  /\ UNCHANGED <<window, configLength, validRpm, angles>>

\* Mutant: samples of the last window are kept.
startAveraging_KeepsSamples(i, k) ==
  /\ StartTimer(i, k) \in pending
  /\ isAveraging' = TRUE /\ early' = mapMeasurementsCounter
  /\ pending' = scheduleByAngle(pending \ {StartTimer(i, k)}, {EndTimer(i, k)})
  /\ adc' = {[a EXCEPT !.early = TRUE] : a \in adc}
  /\ UNCHANGED <<mapAdcAccumulator, mapMeasurementsCounter, ring, configLength, validRpm, angles>>

\* Mutant: without a duration the closing is not scheduled.
startAveraging_NoDuration(i, k) ==
  /\ StartTimer(i, k) \in pending
  /\ isAveraging' = TRUE /\ mapAdcAccumulator' = 0 /\ mapMeasurementsCounter' = 0 /\ early' = 0
  /\ pending' = (pending \ {StartTimer(i, k)}) \cup (IF mapAveragingDuration THEN {EndTimer(i, k)} ELSE {})
  /\ UNCHANGED <<adc, ring, configLength, validRpm, angles>>

\* The window opens, and its closing is scheduled by the duration as it is now.
startAveraging(i, k) ==
  /\ StartTimer(i, k) \in pending
  /\ isAveraging' = TRUE
  /\ mapAdcAccumulator' = 0
  /\ mapMeasurementsCounter' = 0
  /\ adc' = {[a EXCEPT !.early = TRUE] : a \in adc}
  /\ early' = 0
  /\ pending' = scheduleByAngle(pending \ {StartTimer(i, k)}, {EndTimer(i, k)})
  /\ UNCHANGED <<ring, configLength, validRpm, angles>>

\* The ADC interrupt, up to the lock; with the sensor chart of MAP on it samples at
\* any time.
mapAveragingAdcCallback(adcValue, chart) ==
  /\ adc = {}
  /\ isAveraging \/ chart
  /\ mapMeasurementsCounter < MaxSamples
  /\ adc' = {[value |-> adcValue, early |-> FALSE]}
  /\ UNCHANGED <<pending, isAveraging, mapAdcAccumulator, mapMeasurementsCounter, early, ring, configLength,
                 validRpm, angles>>

\* Its locked part.
addSample(a) ==
  /\ adc = {a}
  /\ mapAdcAccumulator' = mapAdcAccumulator + a.value
  /\ mapMeasurementsCounter' = mapMeasurementsCounter + 1
  /\ early' = IF a.early THEN early + 1 ELSE early
  /\ adc' = {}
  /\ UNCHANGED <<pending, isAveraging, ring, configLength, validRpm, angles>>

\* Mutant: the loop ends one entry early.
store_LastNotSeen(average) ==
  LET buffer == [averagedMapRunningBuffer EXCEPT ![averagedMapBufIdx] = average]
  IN  /\ averagedMapRunningBuffer' = buffer
      /\ averagedMapBufIdx' = (averagedMapBufIdx + 1) % mapMinBufferLength
      /\ currentPressure' = Min({buffer[i] : i \in {0} \cup 1 .. mapMinBufferLength - 2})
      /\ recent' = SubSeq(<<average>> \o recent, 1, Min({Len(recent) + 1, mapMinBufferLength}))
      /\ UNCHANGED mapMinBufferLength

\* A result goes into the ring, and the minimum of the ring is the pressure.
store(average) ==
  LET buffer == [averagedMapRunningBuffer EXCEPT ![averagedMapBufIdx] = average]
  IN  /\ averagedMapRunningBuffer' = buffer
      /\ averagedMapBufIdx' = (averagedMapBufIdx + 1) % mapMinBufferLength
      /\ currentPressure' = Min({buffer[i] : i \in 0 .. mapMinBufferLength - 1})
      /\ recent' = SubSeq(<<average>> \o recent, 1, Min({Len(recent) + 1, mapMinBufferLength}))
      /\ UNCHANGED mapMinBufferLength

\* A window closes, and any other that is open with it; without samples there is only
\* a warning.
endAveraging(i, k) ==
  /\ EndTimer(i, k) \in pending
  /\ pending' = pending \ {EndTimer(i, k)}
  /\ isAveraging' = FALSE
  /\ IF mapMeasurementsCounter > 0
     THEN store(mapAdcAccumulator \div mapMeasurementsCounter)
     ELSE UNCHANGED ring
  /\ UNCHANGED <<mapAdcAccumulator, mapMeasurementsCounter, adc, early, configLength, validRpm, angles>>

TimerStep == \E i \in Cylinder, k \in {0, 1} : startAveraging(i, k) \/ endAveraging(i, k)

Next ==
  \/ setValidRpm
  \/ \E length \in Lengths : setMapMinBufferLength(length)
  \/ refreshMapAveragingPreCalc
  \/ \E r \in refresh : refreshNext(r)
  \/ \E k \in {0, 1}, samplingCount \in {1, cylindersCount} : mapAveragingTriggerCallback(k, samplingCount)
  \/ \E adcValue \in Samples, chart \in BOOLEAN : mapAveragingAdcCallback(adcValue, chart)
  \/ \E a \in adc : addSample(a)
  \/ TimerStep

Spec == Init /\ [][Next]_vars

\* The executor runs every record that is pending.
FairSpec ==
  /\ Spec
  /\ \A i \in Cylinder, k \in {0, 1} : WF_vars(startAveraging(i, k)) /\ WF_vars(endAveraging(i, k))

-----------------------------------------------------------------------------
\* The ring's index and length stay within the array, whatever length is configured.
TypeOK ==
  /\ pending \subseteq Sched
  /\ {isAveraging, validRpm, mapAveragingDuration} \subseteq BOOLEAN
  /\ mapAveragingStart \in [Cylinder -> BOOLEAN]
  /\ mapAdcAccumulator \in Nat /\ mapMeasurementsCounter \in 0 .. MaxSamples /\ early \in Nat
  /\ configLength \in Lengths
  /\ mapMinBufferLength \in 1 .. MAX_MAP_BUFFER_LENGTH
  /\ averagedMapBufIdx \in 0 .. mapMinBufferLength - 1
  /\ averagedMapRunningBuffer \in [0 .. MAX_MAP_BUFFER_LENGTH - 1 -> 0 .. FLT_MAX]
  /\ currentPressure \in 0 .. FLT_MAX \cup {NO_VALUE_YET}
  /\ recent \in Seq(0 .. FLT_MAX)
  /\ adc = {} \/ \E a \in [value : Samples, early : BOOLEAN] : adc = {a}
  /\ refresh = {} \/ \E r \in [next : 0 .. cylindersCount, valid : BOOLEAN] : refresh = {r}

\* An average holds at most one sample read before its window opened: the one of an ADC
\* callback that the closing of one window and the opening of the next interrupted.
SamplesOfWindow == early <= 1

\* The pressure is the minimum of the latest results, as many as configured, since the
\* length was changed.
MinimumOfLatest ==
  recent # <<>> => currentPressure = Min({recent[i] : i \in 1 .. Len(recent)})

\* An open window is closed again, also when the engine stops before its closing has
\* been scheduled.
WindowCloses == isAveraging ~> ~isAveraging
=============================================================================
