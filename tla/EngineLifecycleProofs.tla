------------------------ MODULE EngineLifecycleProofs ------------------------
(***************************************************************************)
(* Proofs about EngineLifecycle for every choice of the time constants.    *)
(* Each bound holds with a slack that depends on where the slow callback   *)
(* is: the time since its last call while it is idle, a whole period until *)
(* it has made its check, none afterwards.                                 *)
(***************************************************************************)
EXTENDS EngineLifecycle, TLAPS

\* Steps of the slow callback before and after the RPM has been checked or cleared.
BeforeClear == {"check", "stopSpinning", "clearRpm"}
AfterClear == {"setStopped", "watchdog", "watchdogStops", "stopPins", "shutdown"}
BeforeStopPins == BeforeClear \cup {"setStopped", "watchdog", "watchdogStops", "stopPins"}

\* An RPM is younger than a second, as of the last check.
RpmAge ==
  rpm # "zero" =>
    /\ slow = "idle" => sinceTooth < NT_PER_SECOND + sinceSlow
    /\ slow \in BeforeClear => sinceTooth < NT_PER_SECOND + SLOW_CALLBACK_PERIOD
    /\ slow \in AfterClear => sinceTooth < NT_PER_SECOND

\* A stop request that the last check has seen has cleared the RPM.
StopAge ==
  needToStopEngine /\ rpm # "zero" =>
    /\ slow = "idle" => sinceStop <= sinceSlow
    /\ slow \in BeforeClear => sinceStop <= SLOW_CALLBACK_PERIOD
    /\ slow \in AfterClear => sinceStop = 0

\* The same for the time since the push of the button.
StarterAge ==
  starter =>
    /\ sincePush # None
    /\ slow = "idle" => sincePush <= startCrankingDuration + sinceSlow
    /\ slow # "idle" => sincePush <= startCrankingDuration

\* Callbacks are due soon after a tooth; what is on has been seen by the watchdog.
OutputAge ==
  /\ armed => sinceTooth <= NT_PER_SECOND
  /\ charged /\ ~priming =>
       /\ slow = "idle" => sinceTooth < WatchdogThreshold + sinceSlow
       /\ slow \in BeforeStopPins => sinceTooth < WatchdogThreshold + SLOW_CALLBACK_PERIOD
       /\ slow = "shutdown" => sinceTooth < WatchdogThreshold

\* What the assumption says of each constant.
LEMMA Constants ==
  /\ NT_PER_SECOND \in Nat \ {0} /\ WatchdogThreshold \in Nat \ {0}
  /\ SLOW_CALLBACK_PERIOD \in Nat \ {0} /\ startCrankingDuration \in Nat \ {0}
  /\ MaxAge \in Nat \ {0}
  /\ isFasterEngineSpinUpEnabled \in BOOLEAN /\ startStopButtonPin \in BOOLEAN
  /\ EFI_MAIN_RELAY_CONTROL \in BOOLEAN /\ startOfCrankingPrimingPulse \in BOOLEAN
  /\ MaxAge > 3 * NT_PER_SECOND
  /\ MaxAge > startCrankingDuration + SLOW_CALLBACK_PERIOD
  /\ MaxAge >= WatchdogThreshold + SLOW_CALLBACK_PERIOD
  /\ WatchdogThreshold > 2 * NT_PER_SECOND
  /\ None \notin Nat
  BY LifecycleAssumption, Zenon

\* Type correctness of the flags, ages and steps.
THEOREM TypeCorrect == Spec => []TypeOK
<1> USE Constants DEF Age
<1>1. Init => TypeOK
  <2> SUFFICES ASSUME Init PROVE TypeOK
    OBVIOUS
  <2>1. {sinceTooth, sinceRpmEvent} \subseteq Age /\ sinceSlow \in 0 .. SLOW_CALLBACK_PERIOD
    BY SMT DEF Init
  <2>2. {rpmSpinning, isSpinning, synchronized, armed, charged, priming, starter, preempted}
          \subseteq BOOLEAN
    BY Zenon DEF Init
  <2> QED
    BY <2>1, <2>2, Zenon DEF Init, TypeOK
<1>2. TypeOK /\ [Next]_vars => TypeOK'
  <2> SUFFICES ASSUME TypeOK, [Next]_vars PROVE TypeOK'
    OBVIOUS
  <2> USE DEF TypeOK
  <2>1. CASE Tick
    BY <2>1 DEF Tick, Older, rpmState, outputs
  <2>2. CASE ShaftSignal
    BY <2>2 DEF ShaftSignal, handleShaftSignal, stateForRpm, button
  <2>3. CASE outputOn
    BY <2>3 DEF outputOn, rpmState, trigger, button
  <2>4. CASE outputOff
    BY <2>4 DEF outputOff, rpmState, trigger, button
  <2>5. CASE endPrimePulse
    BY <2>5 DEF endPrimePulse, rpmState, trigger, button
  <2>6. CASE stopEngine
    <3>1. sinceStop' \in Age \cup {None}
      BY <2>6 DEF stopEngine
    <3> QED
      BY <2>6, <3>1, Zenon DEF stopEngine, rpmState, trigger, button
  <2>7. CASE SlowCallback
    <3> USE DEF SlowStep, rpmState, trigger, outputs, button
    <3>1. ASSUME NEW level \in BOOLEAN, slowStartStopButtonCallback(level) PROVE TypeOK'
      <4>1. sinceStop' \in Age \cup {None}
        BY <3>1 DEF slowStartStopButtonCallback
      <4>2. sincePush' \in Age \cup {None}
        BY <3>1 DEF slowStartStopButtonCallback
      <4>3. startStopState' \in BOOLEAN \cup {None} /\ starter' \in BOOLEAN /\ charged' \in BOOLEAN
        BY <3>1, Zenon DEF slowStartStopButtonCallback
      <4> QED
        BY <3>1, <4>1, <4>2, <4>3, Zenon DEF slowStartStopButtonCallback
    <3>2. CASE slowCheckIfSpinning \/ clearSpinning \/ clearRpm \/ setStopped
      BY <3>2 DEF slowCheckIfSpinning, clearSpinning, clearRpm, setStopped
    <3>3. CASE watchdog \/ watchdogStops \/ stopPins
      BY <3>3 DEF watchdog, watchdogStops, stopPins
    <3>4. ASSUME NEW lowVoltage \in BOOLEAN, checkShutdown(lowVoltage) PROVE TypeOK'
      <4>1. sinceStop' \in Age \cup {None} /\ sinceSlow' \in 0 .. SLOW_CALLBACK_PERIOD
        BY <3>4 DEF checkShutdown
      <4> QED
        BY <3>4, <4>1, Zenon DEF checkShutdown
    <3> QED
      BY <2>7, <3>1, <3>2, <3>3, <3>4, Zenon DEF SlowCallback
  <2>8. CASE UNCHANGED vars
    BY <2>8 DEF vars, rpmState, trigger, outputs, button
  <2> QED
    BY <2>1, <2>2, <2>3, <2>4, <2>5, <2>6, <2>7, <2>8 DEF Next
<1> QED
  BY <1>1, <1>2, PTL DEF Spec

\* The types that the age arguments need, one variable at a time.
LEMMA AgeTypes ==
  ASSUME TypeOK
  PROVE  /\ sinceTooth \in Nat /\ sinceTooth <= MaxAge
         /\ sinceStop # None => sinceStop \in Nat /\ sinceStop <= MaxAge
         /\ sincePush # None => sincePush \in Nat /\ sincePush <= MaxAge
         /\ sinceSlow \in Nat /\ sinceSlow <= SLOW_CALLBACK_PERIOD
         /\ slow \in {"idle"} \cup BeforeClear \cup AfterClear
  BY Constants DEF TypeOK, Age, BeforeClear, AfterClear

\* RpmCalculator never keeps an RPM for longer than a second and a period
\* without teeth, for every period, timeout and interleaving.
THEOREM RpmExpires == Spec => []RpmNotStale
<1> USE Constants DEF BeforeClear, AfterClear
<1>1. Init => RpmAge
  BY DEF Init, RpmAge
<1>2. TypeOK /\ RpmAge /\ [Next]_vars => RpmAge'
  <2> SUFFICES ASSUME TypeOK, RpmAge, [Next]_vars PROVE RpmAge'
    OBVIOUS
  <2> USE AgeTypes DEF RpmAge
  <2>1. CASE Tick
    BY <2>1 DEF Tick, Older, rpmState
  <2>2. CASE ShaftSignal
    BY <2>2 DEF ShaftSignal, handleShaftSignal
  <2>3. CASE outputOn \/ outputOff \/ endPrimePulse \/ stopEngine
    BY <2>3 DEF outputOn, outputOff, endPrimePulse, stopEngine, rpmState, trigger
  <2>4. CASE SlowCallback
    <3> USE DEF SlowStep, rpmState, trigger
    <3>1. ASSUME NEW level \in BOOLEAN, sinceSlow = SLOW_CALLBACK_PERIOD,
                 slowStartStopButtonCallback(level)
          PROVE  RpmAge'
      BY <3>1 DEF slowStartStopButtonCallback
    <3>2. CASE slowCheckIfSpinning
      BY <3>2 DEF slowCheckIfSpinning, checkIfSpinning
    <3>3. CASE clearSpinning \/ clearRpm \/ setStopped
      BY <3>3 DEF clearSpinning, clearRpm, setStopped
    <3>4. CASE watchdog \/ watchdogStops \/ stopPins
      BY <3>4 DEF watchdog, watchdogStops, stopPins
    <3>5. ASSUME NEW lowVoltage \in BOOLEAN, checkShutdown(lowVoltage) PROVE RpmAge'
      BY <3>5 DEF checkShutdown
    <3> QED
      BY <2>4, <3>1, <3>2, <3>3, <3>4, <3>5, Zenon DEF SlowCallback
  <2>5. CASE UNCHANGED vars
    BY <2>5 DEF vars, rpmState, trigger
  <2> QED
    BY <2>1, <2>2, <2>3, <2>4, <2>5 DEF Next
<1>3. TypeOK /\ RpmAge => RpmNotStale
  BY AgeTypes DEF RpmAge, RpmNotStale
<1> QED
  BY <1>1, <1>2, <1>3, TypeCorrect, PTL DEF Spec

\* The starter is engaged for no longer than the cranking duration and a period.
THEOREM StarterStops == Spec => []StarterBounded
<1> USE Constants DEF BeforeClear, AfterClear
<1>1. Init => StarterAge
  BY DEF Init, StarterAge
<1>2. TypeOK /\ StarterAge /\ [Next]_vars => StarterAge'
  <2> SUFFICES ASSUME TypeOK, StarterAge, [Next]_vars PROVE StarterAge'
    OBVIOUS
  <2> USE AgeTypes DEF StarterAge
  <2>1. CASE Tick
    BY <2>1 DEF Tick, Older
  <2>2. CASE ShaftSignal
    BY <2>2 DEF ShaftSignal, handleShaftSignal, button
  <2>3. CASE outputOn \/ outputOff \/ endPrimePulse \/ stopEngine
    BY <2>3 DEF outputOn, outputOff, endPrimePulse, stopEngine, button
  <2>4. CASE SlowCallback
    <3> USE DEF SlowStep, button
    <3>1. ASSUME NEW level \in BOOLEAN, slowStartStopButtonCallback(level) PROVE StarterAge'
      <4> DEFINE starts == startStopButtonPin /\ startStopState = FALSE /\ level
                             /\ isStopped(state, rpm)
                 push == IF starts THEN 0 ELSE sincePush
                 over == push # None /\ (state = "RUNNING" \/ push > startCrankingDuration)
      <4>1. /\ starter' => (starter \/ starts) /\ ~over
            /\ sincePush' = IF over THEN None ELSE push
            /\ slow' = "check"
        BY <3>1, Zenon DEF slowStartStopButtonCallback
      <4>2. starter \/ starts => push # None /\ push \in Nat
        OBVIOUS
      <4> HIDE DEF starts
      <4> QED
        BY <4>1, <4>2
    <3>2. CASE slowCheckIfSpinning \/ clearSpinning \/ clearRpm \/ setStopped
      BY <3>2 DEF slowCheckIfSpinning, clearSpinning, clearRpm, setStopped
    <3>3. CASE watchdog \/ watchdogStops \/ stopPins
      BY <3>3 DEF watchdog, watchdogStops, stopPins
    <3>4. ASSUME NEW lowVoltage \in BOOLEAN, checkShutdown(lowVoltage) PROVE StarterAge'
      BY <3>4 DEF checkShutdown
    <3> QED
      BY <2>4, <3>1, <3>2, <3>3, <3>4, Zenon DEF SlowCallback
  <2>5. CASE UNCHANGED vars
    BY <2>5 DEF vars, button
  <2> QED
    BY <2>1, <2>2, <2>3, <2>4, <2>5 DEF Next
<1>3. TypeOK /\ StarterAge => StarterBounded
  BY AgeTypes DEF StarterAge, StarterBounded
<1> QED
  BY <1>1, <1>2, <1>3, TypeCorrect, PTL DEF Spec

\* Nothing stays switched on for longer than the watchdog's threshold and a
\* period after the last tooth.
THEOREM OutputsSwitchedOff == Spec => []OutputsNotLeftOn
<1> USE Constants DEF BeforeClear, AfterClear, BeforeStopPins
<1>1. Init => OutputAge
  BY DEF Init, OutputAge
<1>2. TypeOK /\ OutputAge /\ [Next]_vars => OutputAge'
  <2> SUFFICES ASSUME TypeOK, OutputAge, [Next]_vars PROVE OutputAge'
    OBVIOUS
  <2> USE AgeTypes DEF OutputAge
  <2>1. CASE Tick
    <3>1. /\ armed' => sinceTooth' <= NT_PER_SECOND
          /\ charged' = charged /\ priming' = priming /\ slow' = slow
      BY <2>1, Zenon DEF Tick
    <3>2. sinceTooth' <= sinceTooth + 1 /\ sinceTooth' \in Nat
      BY <2>1 DEF Tick, Older
    <3> QED
      BY <2>1, <3>1, <3>2 DEF Tick
  <2>2. CASE ShaftSignal
    BY <2>2 DEF ShaftSignal, handleShaftSignal
  <2>3. CASE outputOn
    BY <2>3 DEF outputOn, trigger
  <2>4. CASE outputOff \/ endPrimePulse \/ stopEngine
    BY <2>4 DEF outputOff, endPrimePulse, stopEngine, trigger
  <2>5. CASE SlowCallback
    <3> USE DEF SlowStep, outputs, trigger
    <3>1. ASSUME NEW level \in BOOLEAN, sinceSlow = SLOW_CALLBACK_PERIOD,
                 slowStartStopButtonCallback(level)
          PROVE  OutputAge'
      <4>1. /\ charged' => charged
            /\ priming' = priming /\ armed' = armed /\ sinceTooth' = sinceTooth
            /\ slow = "idle" /\ slow' = "check"
        BY <3>1, Zenon DEF slowStartStopButtonCallback
      <4> QED
        BY <3>1, <4>1
    <3>2. CASE slowCheckIfSpinning \/ clearSpinning \/ clearRpm \/ setStopped
      BY <3>2 DEF slowCheckIfSpinning, clearSpinning, clearRpm, setStopped
    <3>3. CASE watchdog
      <4>1. charged' => charged /\ isSpinning
        BY <3>3, Zenon DEF watchdog
      <4> QED
        BY <3>3, <4>1 DEF watchdog
    <3>4. CASE watchdogStops \/ stopPins
      BY <3>4 DEF watchdogStops, stopPins
    <3>5. ASSUME NEW lowVoltage \in BOOLEAN, checkShutdown(lowVoltage) PROVE OutputAge'
      <4>1. /\ charged' => charged
            /\ priming' = priming /\ armed' = armed /\ sinceTooth' = sinceTooth
            /\ slow = "shutdown" /\ slow' = "idle" /\ sinceSlow' = 0
        BY <3>5, Zenon DEF checkShutdown
      <4> QED
        BY <4>1
    <3> QED
      BY <2>5, <3>1, <3>2, <3>3, <3>4, <3>5, Zenon DEF SlowCallback
  <2>6. CASE UNCHANGED vars
    BY <2>6 DEF vars, outputs, trigger
  <2> QED
    BY <2>1, <2>2, <2>3, <2>4, <2>5, <2>6 DEF Next
<1>3. TypeOK /\ OutputAge => OutputsNotLeftOn
  BY AgeTypes DEF OutputAge, OutputsNotLeftOn
<1> QED
  BY <1>1, <1>2, <1>3, TypeCorrect, PTL DEF Spec

\* Without the faster spin-up the engine never spins up, so that only
\* setRpmValue, which heeds the stop request, can bring an RPM back.
NeverSpinsUp == state # "SPINNING_UP"

\* A stop request keeps the RPM at zero until it expires, provided that the
\* faster spin-up is not enabled (the run lifecycle_stop_ignored shows that it
\* does not with it).
THEOREM StopHonoured ==
  ASSUME ~isFasterEngineSpinUpEnabled PROVE Spec => []StopRequestHonoured
<1> USE Constants DEF BeforeClear, AfterClear
<1>1. Init => NeverSpinsUp /\ StopAge
  BY DEF Init, StopAge, NeverSpinsUp
<1>2. TypeOK /\ NeverSpinsUp /\ [Next]_vars => NeverSpinsUp'
  <2> SUFFICES ASSUME TypeOK, NeverSpinsUp, [Next]_vars PROVE NeverSpinsUp'
    OBVIOUS
  <2> USE DEF NeverSpinsUp
  <2>1. CASE ShaftSignal
    BY <2>1 DEF ShaftSignal, handleShaftSignal, stateForRpm
  <2>2. CASE SlowCallback
    BY <2>2, Zenon DEF SlowCallback, slowStartStopButtonCallback, slowCheckIfSpinning,
       clearSpinning, clearRpm, setStopped, watchdog, watchdogStops, stopPins, checkShutdown,
       rpmState
  <2>3. CASE Tick \/ outputOn \/ outputOff \/ endPrimePulse \/ stopEngine \/ UNCHANGED vars
    BY <2>3, Zenon DEF Tick, outputOn, outputOff, endPrimePulse, stopEngine, vars, rpmState
  <2> QED
    BY <2>1, <2>2, <2>3 DEF Next
<1>3. TypeOK /\ NeverSpinsUp /\ StopAge /\ [Next]_vars => StopAge'
  <2> SUFFICES ASSUME TypeOK, NeverSpinsUp, StopAge, [Next]_vars PROVE StopAge'
    OBVIOUS
  <2> USE AgeTypes DEF StopAge, needToStopEngine
  <2>1. CASE Tick
    BY <2>1 DEF Tick, Older, rpmState
  <2>2. CASE ShaftSignal
    <3> PICK position \in {"invalid", "tooth", "sync", "cycle"},
             r \in {"noisy", "low", "high"}, i \in {"zero", "noisy", "low"} :
               handleShaftSignal(position, r, i)
      BY <2>2 DEF ShaftSignal
    <3>1. needToStopEngine => rpm' \in {rpm, "zero"}
      BY DEF handleShaftSignal, checkIfSpinning, NeverSpinsUp
    <3> QED
      BY <3>1 DEF handleShaftSignal
  <2>3. CASE outputOn \/ outputOff \/ endPrimePulse
    BY <2>3 DEF outputOn, outputOff, endPrimePulse, rpmState
  <2>4. CASE stopEngine
    BY <2>4 DEF stopEngine, rpmState
  <2>5. CASE SlowCallback
    <3> USE DEF SlowStep, rpmState
    <3>1. ASSUME NEW level \in BOOLEAN, sinceSlow = SLOW_CALLBACK_PERIOD,
                 slowStartStopButtonCallback(level)
          PROVE  StopAge'
      <4>1. /\ sinceStop' \in {0, sinceStop} /\ rpm' = rpm
            /\ slow = "idle" /\ slow' = "check"
        BY <3>1 DEF slowStartStopButtonCallback
      <4> QED
        BY <3>1, <4>1
    <3>2. CASE slowCheckIfSpinning
      BY <3>2 DEF slowCheckIfSpinning, checkIfSpinning
    <3>3. CASE clearSpinning \/ clearRpm \/ setStopped
      BY <3>3 DEF clearSpinning, clearRpm, setStopped
    <3>4. CASE watchdog \/ watchdogStops \/ stopPins
      BY <3>4 DEF watchdog, watchdogStops, stopPins
    <3>5. ASSUME NEW lowVoltage \in BOOLEAN, checkShutdown(lowVoltage) PROVE StopAge'
      <4>1. /\ sinceStop' \in {0, sinceStop} /\ rpm' = rpm
            /\ slow = "shutdown" /\ slow' = "idle" /\ sinceSlow' = 0
        BY <3>5 DEF checkShutdown
      <4> QED
        BY <4>1
    <3> QED
      BY <2>5, <3>1, <3>2, <3>3, <3>4, <3>5, Zenon DEF SlowCallback
  <2>6. CASE UNCHANGED vars
    BY <2>6 DEF vars, rpmState
  <2> QED
    BY <2>1, <2>2, <2>3, <2>4, <2>5, <2>6 DEF Next
<1>4. TypeOK /\ StopAge => StopRequestHonoured
  BY AgeTypes DEF StopAge, StopRequestHonoured, needToStopEngine
<1> QED
  BY <1>1, <1>2, <1>3, <1>4, TypeCorrect, PTL DEF Spec
=============================================================================
