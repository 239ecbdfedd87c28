----------------------------- MODULE SoftwarePwm -----------------------------
(***************************************************************************)
(* SimplePwm: a pin toggled from a timer callback that schedules itself     *)
(* again.  A controller's thread changes the duty cycle at any time, the    *)
(* configuration's thread starts the PWM again while the callback of the    *)
(* last start still waits on the timer, and the callback interrupts both.   *)
(* Times are relative: due counts down to the callback, safe.elapsed up     *)
(* from safe.startNt.                                                       *)
(***************************************************************************)
EXTENDS Integers

CONSTANTS
    Periods,            \* in ticks, multiples of RESOLUTION
    Duties,             \* in parts of RESOLUTION
    RESOLUTION,
    NAN_FREQUENCY_SLEEP_PERIOD,
    ITERATION_LIMIT,
    NESTING_LIMIT,
    MaxLag,             \* the timer interrupt is at most this late
    MaxStops            \* model bound: calls of stop()

ASSUME PwmAssumption ==
    /\ RESOLUTION \in Nat \ {0} /\ Duties \subseteq 0..RESOLUTION
    /\ \A p \in Periods : p \in Nat \ {0} /\ p % RESOLUTION = 0
    /\ \E p \in Periods : \A q \in Periods : q <= p
    /\ NAN_FREQUENCY_SLEEP_PERIOD \in Nat \ {0}
    /\ ITERATION_LIMIT \in Nat \ {0, 1} /\ NESTING_LIMIT \in Nat \ {0}
    /\ MaxLag \in 0..99 /\ MaxStops \in Nat

None == -100
NaN == -2
Idle == [pc |-> "idle", value |-> None]
phaseCount == 2
LongestPeriod == CHOOSE p \in Periods : \A q \in Periods : q <= p

VARIABLES
    periodNt, mode, switchTime,     \* what the setters change
    requested,                      \* the duty cycle last asked for, None if the call was ignored
    isStopRequested, dbgNestingLevel,
    safe,                           \* pwm_config_safe_state_s
    due,                            \* ticks to the callback of scheduling, negative when it is late
    pin,
    starter,                        \* the thread that runs startSimplePwm
    setter,                         \* the thread that runs setSimplePwmDutyCycle
    started,
    fatal,                          \* firmwareError was called
    stops                           \* calls of stop()

settings == <<periodNt, mode, switchTime, requested>>
state == <<isStopRequested, dbgNestingLevel, safe, due, pin, fatal>>
vars == <<settings, state, starter, setter, started, stops>>

----------------------------------------------------------------------------
\* Mutant: a zero duty cycle is a pulse of no length.
modeOf_NoZero(duty) == IF duty = RESOLUTION THEN "PM_FULL" ELSE "PM_NORMAL"

modeOf(duty) == IF duty = 0 THEN "PM_ZERO" ELSE IF duty = RESOLUTION THEN "PM_FULL" ELSE "PM_NORMAL"

\* elapsed is counted as far as any switch time in the period lies.
ElapsedCap == IF safe.periodNt \in Periods THEN (ITERATION_LIMIT + 1) * safe.periodNt ELSE 0

\* Mutant: the start moves to now, the iteration goes on.
cycleStart_KeepsIteration(sf) ==
    IF sf.iteration = ITERATION_LIMIT THEN [sf EXCEPT !.elapsed = 0, !.iteration = 0, !.periodNt = periodNt]
    ELSE IF sf.periodNt # periodNt THEN [sf EXCEPT !.elapsed = 0, !.periodNt = periodNt] ELSE sf

\* handleCycleStart
cycleStart(sf) ==
    IF sf.periodNt # periodNt \/ sf.iteration = ITERATION_LIMIT
    THEN [sf EXCEPT !.elapsed = 0, !.iteration = 0, !.periodNt = periodNt] ELSE sf

\* In case of ZERO or FULL we are always at the starting index.
startingIndex(sf) == IF mode # "PM_NORMAL" THEN [sf EXCEPT !.phaseIndex = 0] ELSE sf

\* Is the pin high after stateChangeCallback?  Its state index is one behind.
stateChange(sf) == mode = "PM_FULL" \/ (mode = "PM_NORMAL" /\ sf.phaseIndex = 0)

\* How many ticks from now is the next toggle?
getNextSwitchTimeNt(sf) ==
    sf.iteration * sf.periodNt - sf.elapsed
    + IF mode = "PM_NORMAL" /\ sf.phaseIndex = 0 THEN (switchTime * sf.periodNt) \div RESOLUTION ELSE sf.periodNt

nextPhase(sf) ==
    IF sf.phaseIndex + 1 = phaseCount \/ mode # "PM_NORMAL"
    THEN [sf EXCEPT !.phaseIndex = 0, !.iteration = @ + 1] ELSE [sf EXCEPT !.phaseIndex = @ + 1]

\* scheduleByTimestampNt: a pending record stays as it is, a time in the past is now.
scheduled(ticks) == IF due # None THEN due ELSE IF ticks < 0 THEN 0 ELSE ticks

----------------------------------------------------------------------------
Init ==
    /\ periodNt = NaN /\ mode = "PM_NORMAL" /\ switchTime = 0 /\ requested = None
    /\ isStopRequested = FALSE /\ dbgNestingLevel = 0
    /\ safe = [periodNt |-> 0, iteration |-> 0, phaseIndex |-> 0, elapsed |-> 0]
    /\ due = None /\ pin = FALSE
    /\ starter = Idle /\ setter = Idle
    /\ started = FALSE /\ fatal = FALSE /\ stops = 0

\* A tick is longer than a call of startSimplePwm or of a setter takes; what follows a
\* fatal error, which switches every pin off, is not modelled.
Tick ==
    /\ starter.pc = "idle" /\ setter.pc = "idle" /\ ~fatal
    /\ due = None \/ due > -MaxLag
    /\ due' = IF due = None THEN None ELSE due - 1
    /\ safe' = [safe EXCEPT !.elapsed = IF @ < ElapsedCap THEN @ + 1 ELSE @]
    /\ UNCHANGED <<settings, isStopRequested, dbgNestingLevel, pin, fatal, starter, setter, started, stops>>

\* Mutant: nothing is scheduled for the end of the pause.
pause_Ends == due' = None /\ pin' = FALSE /\ UNCHANGED <<dbgNestingLevel, safe, fatal>>

\* No frequency: the pin is low, and the callback looks again later.
pause == pin' = FALSE /\ due' = NAN_FREQUENCY_SLEEP_PERIOD /\ UNCHANGED <<dbgNestingLevel, safe, fatal>>

\* The callback from the timer interrupt; no thread runs in between.
timerCallback ==
    /\ due # None /\ due <= 0
    /\ \/ /\ dbgNestingLevel + 1 >= NESTING_LIMIT
          /\ fatal' = TRUE /\ due' = None
          /\ dbgNestingLevel' = dbgNestingLevel + 1
          /\ UNCHANGED <<safe, pin>>
       \/ /\ dbgNestingLevel + 1 < NESTING_LIMIT /\ isStopRequested
          /\ due' = None
          /\ dbgNestingLevel' = dbgNestingLevel + 1      \* and back only when it goes on
          /\ UNCHANGED <<safe, pin, fatal>>
       \/ /\ dbgNestingLevel + 1 < NESTING_LIMIT /\ ~isStopRequested /\ periodNt = NaN
          /\ pause
       \/ /\ dbgNestingLevel + 1 < NESTING_LIMIT /\ ~isStopRequested /\ periodNt # NaN
          /\ LET at == startingIndex(safe)
                 sf == IF at.phaseIndex = 0 THEN cycleStart(at) ELSE at
                 ticks == getNextSwitchTimeNt(sf)
             IN  /\ pin' = stateChange(sf)
                 /\ safe' = nextPhase(sf)
                 /\ due' = IF ticks < 0 THEN 0 ELSE ticks
          /\ UNCHANGED <<dbgNestingLevel, fatal>>
    /\ UNCHANGED <<settings, isStopRequested, starter, setter, started, stops>>

----------------------------------------------------------------------------
(* The setters.  A duty cycle of zero sets the pin low before the mode is   *)
(* changed, and the mode is changed before the switch time.                 *)

setSimplePwmDutyCycle(duty) ==
    /\ started /\ setter.pc = "idle" /\ ~isStopRequested
    /\ setter' = [pc |-> "mode", value |-> duty]
    /\ pin' = (pin /\ duty # 0)
    /\ UNCHANGED <<settings, isStopRequested, dbgNestingLevel, safe, due, fatal, starter, started, stops>>

setMode ==
    /\ setter.pc = "mode"
    /\ mode' = modeOf(setter.value)
    /\ requested' = setter.value
    /\ setter' = IF mode' = "PM_NORMAL" THEN [setter EXCEPT !.pc = "time"] ELSE Idle
    /\ UNCHANGED <<periodNt, switchTime, state, starter, started, stops>>

setSwitchTime ==
    /\ setter.pc = "time"
    /\ switchTime' = setter.value
    /\ setter' = Idle
    /\ UNCHANGED <<periodNt, mode, requested, state, starter, started, stops>>

setFrequency(period) ==
    /\ started /\ starter.pc = "idle"
    /\ periodNt' = period
    /\ UNCHANGED <<mode, switchTime, requested, state, starter, setter, started, stops>>

stop ==
    /\ started /\ starter.pc = "idle" /\ ~isStopRequested /\ stops < MaxStops
    /\ isStopRequested' = TRUE
    /\ stops' = stops + 1
    /\ UNCHANGED <<settings, dbgNestingLevel, safe, due, pin, fatal, starter, setter, started>>

----------------------------------------------------------------------------
(* startSimplePwm, step by step: the interrupt of an earlier start may come *)
(* between any two of them.                                                 *)

\* setSimplePwmDutyCycle ignores the duty cycle of a start after stop(): the mode stays
\* that of the time before, and only the switch time becomes the new one.
startSimplePwm(period, duty) ==
    /\ starter.pc = "idle" /\ ~fatal
    /\ starter' = [pc |-> "init", value |-> duty]
    /\ IF isStopRequested THEN UNCHANGED <<mode, switchTime, pin>>
       ELSE /\ pin' = (pin /\ (duty # 0 \/ ~started))
            /\ mode' = modeOf(duty)
            /\ switchTime' = IF modeOf(duty) = "PM_NORMAL" THEN duty ELSE switchTime
    /\ requested' = IF isStopRequested THEN None ELSE duty
    /\ periodNt' = period
    /\ UNCHANGED <<isStopRequested, dbgNestingLevel, safe, due, fatal, setter, started, stops>>

\* Are the switch times of the wave, of which the last is always 1, in order?
checkSwitchTimes(first) == first < RESOLUTION

weComplexInit ==
    /\ starter.pc = "init"
    /\ isStopRequested' = FALSE
    /\ switchTime' = starter.value
    /\ started' = TRUE
    /\ fatal' = (fatal \/ (mode = "PM_NORMAL" /\ ~checkSwitchTimes(starter.value)))
    /\ starter' = [pc |-> "reset", value |-> None]
    /\ UNCHANGED <<periodNt, mode, requested, dbgNestingLevel, safe, due, pin, setter, stops>>

resetSafe ==
    /\ starter.pc = "reset"
    /\ safe' = [safe EXCEPT !.phaseIndex = 0, !.periodNt = -1, !.iteration = -1]
    /\ starter' = [starter EXCEPT !.pc = "callback"]
    /\ UNCHANGED <<settings, isStopRequested, dbgNestingLevel, due, pin, fatal, setter, started, stops>>

\* timerCallback in the thread, as far as "if (safe.phaseIndex == 0)".
firstCallback ==
    /\ starter.pc = "callback"
    /\ dbgNestingLevel' = dbgNestingLevel + 1
    /\ LET sf == startingIndex(safe)
       IN  /\ fatal' = (fatal \/ dbgNestingLevel' >= NESTING_LIMIT)
           /\ safe' = IF dbgNestingLevel' >= NESTING_LIMIT THEN safe ELSE sf
           /\ starter' = IF dbgNestingLevel' >= NESTING_LIMIT THEN Idle
                         ELSE [starter EXCEPT !.pc = IF sf.phaseIndex = 0 THEN "cycle" ELSE "toggle"]
    /\ UNCHANGED <<settings, isStopRequested, due, pin, setter, started, stops>>

\* handleCycleStart in the thread: an error when the interrupt moved the index.
firstCycleStart ==
    /\ starter.pc = "cycle"
    /\ fatal' = (fatal \/ safe.phaseIndex # 0)
    /\ safe' = IF safe.phaseIndex = 0 THEN cycleStart(safe) ELSE safe
    /\ starter' = [pc |-> "toggle", value |-> None]
    /\ UNCHANGED <<settings, isStopRequested, dbgNestingLevel, due, pin, setter, started, stops>>

firstToggle ==
    /\ starter.pc = "toggle"
    /\ pin' = stateChange(safe)
    /\ starter' = [pc |-> "schedule", value |-> getNextSwitchTimeNt(safe) + safe.elapsed]
    /\ safe' = nextPhase(safe)
    /\ UNCHANGED <<settings, isStopRequested, dbgNestingLevel, due, fatal, setter, started, stops>>

firstSchedule ==
    /\ starter.pc = "schedule"
    /\ due' = scheduled(starter.value - safe.elapsed)
    /\ dbgNestingLevel' = dbgNestingLevel - 1
    /\ starter' = Idle
    /\ UNCHANGED <<settings, isStopRequested, safe, pin, fatal, setter, started, stops>>

StarterStep == weComplexInit \/ resetSafe \/ firstCallback \/ firstCycleStart \/ firstToggle \/ firstSchedule

Next ==
    \/ Tick
    \/ timerCallback
    \/ \E duty \in Duties : setSimplePwmDutyCycle(duty)
    \/ setMode
    \/ setSwitchTime
    \/ \E period \in Periods \cup {NaN} : setFrequency(period)
    \/ stop
    \/ \E period \in Periods, duty \in Duties : startSimplePwm(period, duty)
    \/ StarterStep

Spec == Init /\ [][Next]_vars

\* The clock runs, the interrupt is served and threads get to run.
FairSpec ==
    /\ Spec
    /\ WF_vars(Tick) /\ WF_vars(timerCallback)
    /\ WF_vars(StarterStep) /\ WF_vars(setMode \/ setSwitchTime)

----------------------------------------------------------------------------
\* The state is well typed; the phase never leaves the two the wave has.
TypeOK ==
    /\ periodNt \in Periods \cup {NaN} /\ mode \in {"PM_ZERO", "PM_NORMAL", "PM_FULL"}
    /\ switchTime \in Duties \cup {0} /\ requested \in Duties \cup {None}
    /\ {isStopRequested, pin, started, fatal} \subseteq BOOLEAN
    /\ dbgNestingLevel \in 0..NESTING_LIMIT + 1
    /\ safe \in [periodNt : Periods \cup {0, -1}, iteration : -1..ITERATION_LIMIT,
                 phaseIndex : 0..phaseCount - 1, elapsed : Nat]
    /\ due = None \/ (due \in Int /\ due >= -MaxLag)
    /\ starter \in [pc : {"idle", "init", "reset", "callback", "cycle", "toggle", "schedule"}, value : Int]
    /\ setter \in [pc : {"idle", "mode", "time"}, value : Duties \cup {None}]

\* A PWM that was started and not stopped has its next callback on the timer, however
\* starts, stops and callbacks overlap: nothing else would ever toggle it again.
Alive == started /\ ~isStopRequested /\ starter.pc = "idle" /\ ~fatal => due # None

\* However the period is changed while the PWM runs, the next toggle is at most two of the
\* longest periods (or a pause) away: a pin is not left high because its next switch was
\* computed from an iteration counted in another period.
NextToggleSoon == due <= 2 * LongestPeriod \/ due <= NAN_FREQUENCY_SLEEP_PERIOD

Undisturbed == started /\ ~isStopRequested /\ ~fatal /\ starter.pc = "idle" /\ setter.pc = "idle"

\* Once the threads stay away, the pin comes to rest where the duty cycle last asked for
\* wants it: low for zero, high for a full one, toggling for any other, and low for a
\* paused PWM.  The duty cycle of a start after stop() is not asked for in this sense:
\* setSimplePwmDutyCycle ignores it, and the next call of it mends that.
OutputSettles ==
    /\ <>[](Undisturbed /\ periodNt = NaN) => <>[](~pin)
    /\ <>[](Undisturbed /\ requested = 0) => <>[](~pin)
    /\ <>[](Undisturbed /\ requested = RESOLUTION /\ periodNt # NaN) => <>[]pin
    /\ <>[](Undisturbed /\ requested \in 1..RESOLUTION - 1 /\ periodNt # NaN) => []<>pin /\ []<>(~pin)
=============================================================================
