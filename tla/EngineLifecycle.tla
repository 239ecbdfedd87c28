--------------------------- MODULE EngineLifecycle ---------------------------
(***************************************************************************)
(* Is the engine turning?  RpmCalculator and Engine each keep their own    *)
(* answer, changed by the trigger interrupt at every tooth and by the      *)
(* periodic slow callback, which the trigger interrupt may preempt between *)
(* any two of its steps.  On that answer depend the watchdog that switches *)
(* the coils and injectors off, the stop request, the starter and the      *)
(* priming pulse.  Moments are kept as ages, which stop growing at MaxAge. *)
(***************************************************************************)
EXTENDS Integers

CONSTANTS NT_PER_SECOND,         \* time steps in a second
          WatchdogThreshold,     \* REVOLUTION_TIME_HIGH_THRESHOLD, 2.4 seconds
          SLOW_CALLBACK_PERIOD,
          startCrankingDuration, \* in time steps
          isFasterEngineSpinUpEnabled,
          startStopButtonPin,    \* is there a start/stop button
          EFI_MAIN_RELAY_CONTROL,
          startOfCrankingPrimingPulse, \* is there a priming pulse at power-up
          None,
          MaxAge                 \* model bound: ages are not told apart beyond it

ASSUME LifecycleAssumption ==
  /\ {NT_PER_SECOND, WatchdogThreshold, SLOW_CALLBACK_PERIOD,
      startCrankingDuration, MaxAge} \subseteq Nat \ {0}
  /\ {isFasterEngineSpinUpEnabled, startStopButtonPin, EFI_MAIN_RELAY_CONTROL,
      startOfCrankingPrimingPulse} \subseteq BOOLEAN
  /\ MaxAge > 3 * NT_PER_SECOND
  /\ MaxAge > startCrankingDuration + SLOW_CALLBACK_PERIOD
  /\ MaxAge >= WatchdogThreshold + SLOW_CALLBACK_PERIOD
  /\ WatchdogThreshold > 2 * NT_PER_SECOND
  /\ None \notin Nat

Age == 0 .. MaxAge

VARIABLES
  state,           \* RpmCalculator::state
  rpm,             \* rpmValue: "zero", "noisy", "low" (below cranking.rpm) or "high"
  rpmSpinning,     \* RpmCalculator::isSpinning
  isSpinning,      \* Engine::isSpinning
  synchronized,    \* TriggerState::shaft_is_synchronized
  sinceTooth,      \* age of previousShaftEventTimeNt and lastTriggerToothEventTimeNt
  sinceRpmEvent,   \* age of lastRpmEventTimeNt
  sinceStop,       \* age of stopEngineRequestTimeNt, None while it is 0
  sincePush,       \* age of startStopStateLastPushTime, None while it is 0
  sinceSlow,       \* time since the last slow callback
  armed,           \* have trigger handlers scheduled callbacks that switch outputs on
  charged,         \* is a coil, an injector or an auxiliary valve switched on
  priming,         \* is the end of the priming pulse still to come
  starter,         \* enginePins.starterControl
  startStopState,  \* last level of the button, None before the first callback
  slow,            \* step that the slow callback is about to make
  preempted        \* did a tooth come since the last step of the slow callback

rpmState == <<state, rpm, rpmSpinning>>
trigger == <<synchronized, sinceTooth, sinceRpmEvent>>
outputs == <<armed, charged, priming>>
button == <<sincePush, starter, startStopState>>
vars == <<rpmState, isSpinning, trigger, sinceStop, sinceSlow, outputs, button, slow, preempted>>

isStopped(st, r) == st = "STOPPED" \/ (st = "SPINNING_UP" /\ r = "zero")
isValidRpm(r) == r \in {"low", "high"}

needToStopEngine == sinceStop # None /\ sinceStop < 3 * NT_PER_SECOND

\* Mutant: only the RPM events are looked at.
checkRpmEventsOnly(toothAge) == ~needToStopEngine /\ sinceRpmEvent < 2 * NT_PER_SECOND

\* Mutant: a stop request is not looked at.
checkTimeoutsOnly(toothAge) ==
  sinceRpmEvent < 2 * NT_PER_SECOND /\ toothAge < NT_PER_SECOND

\* RpmCalculator::checkIfSpinning, given the age of the last tooth.
checkIfSpinning(toothAge) ==
  /\ ~needToStopEngine
  /\ sinceRpmEvent < 2 * NT_PER_SECOND
  /\ toothAge < NT_PER_SECOND

-----------------------------------------------------------------------------
\* Power-up, after the trigger listeners have been added and the priming pulse
\* has been started; the slow callback is called next.
Init ==
  /\ state = "STOPPED" /\ rpm = "zero" /\ rpmSpinning = FALSE
  /\ isSpinning = FALSE
  /\ synchronized = FALSE /\ sinceTooth = MaxAge /\ sinceRpmEvent = MaxAge
  /\ sinceStop = None
  /\ sincePush = None /\ starter = FALSE /\ startStopState = None
  /\ sinceSlow = SLOW_CALLBACK_PERIOD
  /\ priming = startOfCrankingPrimingPulse /\ charged = priming /\ armed = FALSE
  /\ slow = "idle" /\ preempted = FALSE

Older(age) == IF age = None \/ age = MaxAge THEN age ELSE age + 1

\* Time passes.  The slow callback is never late by a whole time step, a priming
\* pulse (at most 200 ms) is shorter than one, and a callback scheduled at a
\* tooth comes within a second of the last tooth (at 60 RPM a revolution).
Tick ==
  /\ slow = "idle" /\ sinceSlow < SLOW_CALLBACK_PERIOD
  /\ ~priming
  /\ sinceTooth' = Older(sinceTooth)
  /\ sinceRpmEvent' = Older(sinceRpmEvent)
  /\ sinceStop' = Older(sinceStop)
  /\ sincePush' = Older(sincePush)
  /\ sinceSlow' = sinceSlow + 1
  /\ armed' = (armed /\ sinceTooth' <= NT_PER_SECOND)
  /\ UNCHANGED <<rpmState, isSpinning, synchronized, charged, priming, starter, startStopState,
                 slow, preempted>>

-----------------------------------------------------------------------------
(* The trigger interrupt *)

\* RpmCalculator::setRpmValue: running with a low RPM is still running.
stateForRpm(st, r) ==
  IF r = "high" THEN "RUNNING"
  ELSE IF st \in {"STOPPED", "SPINNING_UP"} THEN "CRANKING" ELSE st

\* A tooth, as the decoder sees it: "invalid" (beyond the known index), "tooth",
\* "sync" (a synchronization point) or "cycle" (one that starts an engine cycle).
\* r is the RPM of the last cycle, i the instant RPM.
handleShaftSignal(position, r, i) ==
  LET lost == sinceTooth > NT_PER_SECOND              \* OnTriggerSynchronizationLost
      state1 == IF lost THEN "STOPPED" ELSE state
      rpm1 == IF lost THEN "zero" ELSE rpm
      spinning1 == rpmSpinning /\ ~lost
      spinsUp == /\ isFasterEngineSpinUpEnabled        \* setSpinningUp
                 /\ isStopped(state1, rpm1) /\ ~spinning1
      state2 == IF spinsUp THEN "SPINNING_UP" ELSE state1
      heard == synchronized' /\ position # "invalid"
      hadRpmRecently == heard /\ position = "cycle" /\ checkIfSpinning(0)
      state3 == IF hadRpmRecently THEN stateForRpm(state2, r) ELSE state2
      instant == heard /\ state3 = "SPINNING_UP"
  IN  /\ slow # "idle" => ~preempted
      /\ r # "low" => sinceRpmEvent < NT_PER_SECOND   \* a long cycle is a slow one
      /\ isSpinning' = TRUE
      /\ sinceTooth' = 0
      /\ synchronized' = (position \in {"sync", "cycle"} \/ (synchronized /\ ~lost))
      /\ rpmSpinning' = (spinning1 \/ spinsUp)
      /\ state' = state3
      /\ rpm' = IF instant THEN i ELSE IF hadRpmRecently THEN r ELSE rpm1
      /\ sinceRpmEvent' = IF heard /\ position = "cycle" THEN 0 ELSE sinceRpmEvent
      /\ armed' = (armed \/ (heard /\ isValidRpm(rpm')))
      /\ preempted' = (slow # "idle")
      /\ UNCHANGED <<sinceStop, sinceSlow, charged, priming, button, slow>>

-----------------------------------------------------------------------------
(* Callbacks that trigger handlers and the priming pulse have scheduled *)

outputOn ==
  /\ armed
  /\ charged' = TRUE
  /\ UNCHANGED <<rpmState, isSpinning, trigger, sinceStop, sinceSlow, armed, priming, button,
                 slow, preempted>>

\* The end of a pulse or a spark.  A spark that waits for a tooth never comes if
\* the crankshaft stops.
outputOff ==
  /\ charged /\ ~priming
  /\ charged' = FALSE
  /\ armed' \in BOOLEAN /\ (armed' => armed)
  /\ UNCHANGED <<rpmState, isSpinning, trigger, sinceStop, sinceSlow, priming, button,
                 slow, preempted>>

endPrimePulse ==
  /\ priming
  /\ priming' = FALSE
  /\ charged' = FALSE
  /\ UNCHANGED <<rpmState, isSpinning, trigger, sinceStop, sinceSlow, armed, button,
                 slow, preempted>>

-----------------------------------------------------------------------------
(* Stop request: console, TunerStudio or the start/stop button *)

stopEngine ==
  /\ slow = "idle"
  /\ sinceStop' = 0
  /\ charged' = FALSE
  /\ UNCHANGED <<rpmState, isSpinning, trigger, sinceSlow, armed, priming, button,
                 slow, preempted>>

-----------------------------------------------------------------------------
(* doPeriodicSlowCallback, step by step *)

SlowStep(from, to) == slow = from /\ slow' = to /\ preempted' = FALSE

\* Mutant: the time is forgotten and the starter is not disengaged.
buttonForgetsStarter(level) ==
  LET pushed == startStopButtonPin /\ startStopState = FALSE /\ level
      starts == pushed /\ isStopped(state, rpm)
      push == IF starts THEN 0 ELSE sincePush
      over == push # None /\ (state = "RUNNING" \/ push > startCrankingDuration)
  IN  /\ SlowStep("idle", "check")
      /\ startStopState' = IF startStopButtonPin THEN level ELSE startStopState
      /\ sincePush' = IF over THEN None ELSE push
      /\ starter' = (starter \/ starts)
      /\ UNCHANGED <<rpmState, isSpinning, trigger, sinceStop, sinceSlow, outputs>>

\* slowStartStopButtonCallback with the button at the given level: a push while
\* stopped engages the starter, one while running is a stop request; the starter
\* is disengaged once the engine runs or after startCrankingDuration.
slowStartStopButtonCallback(level) ==
  LET pushed == startStopButtonPin /\ startStopState = FALSE /\ level
      starts == pushed /\ isStopped(state, rpm)
      stops == pushed /\ state = "RUNNING"
      push == IF starts THEN 0 ELSE sincePush
      over == push # None /\ (state = "RUNNING" \/ push > startCrankingDuration)
  IN  /\ SlowStep("idle", "check")
      /\ startStopState' = IF startStopButtonPin THEN level ELSE startStopState
      /\ sincePush' = IF over THEN None ELSE push
      /\ starter' = ((starter \/ starts) /\ ~over)
      /\ sinceStop' = IF stops THEN 0 ELSE sinceStop
      /\ charged' = (charged /\ ~stops)
      /\ UNCHANGED <<rpmState, isSpinning, trigger, sinceSlow, armed, priming>>

\* The timeouts are checked.
slowCheckIfSpinning ==
  /\ slow' = IF checkIfSpinning(sinceTooth) THEN "watchdog" ELSE "stopSpinning"
  /\ SlowStep("check", slow')
  /\ UNCHANGED <<rpmState, isSpinning, trigger, sinceStop, sinceSlow, outputs, button>>

\* Mutant: the flag stays set.
keepSpinning ==
  /\ SlowStep("stopSpinning", "clearRpm")
  /\ UNCHANGED <<rpmState, isSpinning, trigger, sinceStop, sinceSlow, outputs, button>>

\* setStopSpinning: three assignments.
clearSpinning ==
  /\ SlowStep("stopSpinning", "clearRpm")
  /\ rpmSpinning' = FALSE
  /\ UNCHANGED <<state, rpm, isSpinning, trigger, sinceStop, sinceSlow, outputs, button>>

clearRpm ==
  /\ SlowStep("clearRpm", "setStopped")
  /\ rpm' = "zero"
  /\ UNCHANGED <<state, rpmSpinning, isSpinning, trigger, sinceStop, sinceSlow, outputs, button>>

setStopped ==
  /\ SlowStep("setStopped", "watchdog")
  /\ state' = "STOPPED"
  /\ UNCHANGED <<rpm, rpmSpinning, isSpinning, trigger, sinceStop, sinceSlow, outputs, button>>

\* Mutant: the threshold is missed by one.
watchdogOffByOne ==
  /\ slow' = IF isSpinning /\ sinceTooth > WatchdogThreshold
             THEN "watchdogStops" ELSE "shutdown"
  /\ SlowStep("watchdog", slow')
  /\ charged' = (charged /\ isSpinning)
  /\ UNCHANGED <<rpmState, isSpinning, trigger, sinceStop, sinceSlow, armed, priming, button>>

\* Engine::watchdog: the second pass, while not spinning, switches off what is on.
watchdog ==
  /\ slow' = IF isSpinning /\ sinceTooth >= WatchdogThreshold
             THEN "watchdogStops" ELSE "shutdown"
  /\ SlowStep("watchdog", slow')
  /\ charged' = (charged /\ isSpinning)
  /\ UNCHANGED <<rpmState, isSpinning, trigger, sinceStop, sinceSlow, armed, priming, button>>

watchdogStops ==
  /\ SlowStep("watchdogStops", "stopPins")
  /\ isSpinning' = FALSE
  /\ UNCHANGED <<rpmState, trigger, sinceStop, sinceSlow, outputs, button>>

stopPins ==
  /\ SlowStep("stopPins", "shutdown")
  /\ charged' = FALSE
  /\ UNCHANGED <<rpmState, isSpinning, trigger, sinceStop, sinceSlow, armed, priming, button>>

\* checkShutdown: a battery below 5 V is a stop request, the first time only.
checkShutdown(lowVoltage) ==
  LET stops == /\ EFI_MAIN_RELAY_CONTROL /\ lowVoltage
               /\ isValidRpm(rpm) /\ sinceStop = None
  IN  /\ SlowStep("shutdown", "idle")
      /\ sinceSlow' = 0
      /\ sinceStop' = IF stops THEN 0 ELSE sinceStop
      /\ charged' = (charged /\ ~stops)
      /\ UNCHANGED <<rpmState, isSpinning, trigger, armed, priming, button>>

SlowCallback ==
  \/ \E level \in BOOLEAN :
       sinceSlow = SLOW_CALLBACK_PERIOD /\ slowStartStopButtonCallback(level)
  \/ slowCheckIfSpinning
  \/ clearSpinning
  \/ clearRpm
  \/ setStopped
  \/ watchdog
  \/ watchdogStops
  \/ stopPins
  \/ \E lowVoltage \in BOOLEAN : checkShutdown(lowVoltage)

ShaftSignal ==
  \E position \in {"invalid", "tooth", "sync", "cycle"},
     r \in {"noisy", "low", "high"}, i \in {"zero", "noisy", "low"} :
       handleShaftSignal(position, r, i)

Next ==
  \/ Tick
  \/ ShaftSignal
  \/ outputOn
  \/ outputOff
  \/ endPrimePulse
  \/ stopEngine
  \/ SlowCallback

Spec == Init /\ [][Next]_vars

\* Time passes, the virtual timer calls the slow callback, which runs to its
\* end, and the priming pulse's timer is served.  Nothing is assumed of the teeth.
FairSpec ==
  /\ Spec
  /\ WF_vars(Tick)
  /\ WF_vars(SlowCallback)
  /\ WF_vars(endPrimePulse)

-----------------------------------------------------------------------------
(* Properties *)

\* The states and ages of RpmCalculator, Engine and the start/stop button are well
\* formed.
TypeOK ==
  /\ state \in {"STOPPED", "SPINNING_UP", "CRANKING", "RUNNING"}
  /\ rpm \in {"zero", "noisy", "low", "high"}
  /\ {rpmSpinning, isSpinning, synchronized, armed, charged, priming, starter, preempted}
       \subseteq BOOLEAN
  /\ {sinceTooth, sinceRpmEvent} \subseteq Age
  /\ {sinceStop, sincePush} \subseteq Age \cup {None}
  /\ sinceSlow \in 0 .. SLOW_CALLBACK_PERIOD
  /\ startStopState \in BOOLEAN \cup {None}
  /\ slow \in {"idle", "check", "stopSpinning", "clearRpm", "setStopped", "watchdog",
               "watchdogStops", "stopPins", "shutdown"}

\* An RPM is never older than the one second without teeth after which the
\* engine counts as stopped, plus the period of the slow callback that finds out,
\* whatever teeth come between the steps of that callback.
RpmNotStale == rpm # "zero" => sinceTooth < NT_PER_SECOND + SLOW_CALLBACK_PERIOD

\* No coil or injector stays on for longer than the watchdog's threshold, plus a
\* period, after the last tooth.
OutputsNotLeftOn ==
  charged /\ ~priming => sinceTooth < WatchdogThreshold + SLOW_CALLBACK_PERIOD

\* settings.cpp: "See 'Engine::needToStopEngine' for code which actually stops
\* engine": from the slow callback after a stop request until the request
\* expires there is no RPM, hence no new injection and no new dwell.
StopRequestHonoured ==
  needToStopEngine /\ sinceStop > SLOW_CALLBACK_PERIOD => rpm = "zero"

\* The starter is engaged only while the slow callback counts the time since
\* the push, and never longer than the cranking duration and a period.
StarterBounded ==
  starter => sincePush # None /\ sincePush <= startCrankingDuration + SLOW_CALLBACK_PERIOD

\* Once no more teeth come, both answers and all outputs settle in the state from
\* which the engine can be started anew, whatever the last teeth interrupted, and
\* so does the starter, unless the button is pushed again and again.
SettlesStopped ==
  <>[](sinceTooth > 0) =>
    /\ <>[](/\ state = "STOPPED" /\ rpm = "zero" /\ ~rpmSpinning /\ ~isSpinning
            /\ ~charged)
    /\ <>[]~starter \/ []<>(sincePush = 0)
=============================================================================
