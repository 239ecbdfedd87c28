------------------------------ MODULE Injection ------------------------------
(***************************************************************************)
(* Fuel injection: the trigger handler (handleFuelInjectionEvent) turns an *)
(* InjectionEvent into a pair of timed callbacks that open and close the   *)
(* injectors of its outputs; the callbacks count overlapping pulses per    *)
(* injector; the fuel schedule (addFuelEvents) is rebuilt whenever the     *)
(* engine changes between cranking and running; a priming pulse is given   *)
(* at power-up.  Times are in units of the shortest pulse the handler      *)
(* accepts.  The timers are the ones PendingEvents specifies.              *)
(***************************************************************************)
EXTENDS Integers, FiniteSets

CONSTANTS cylindersCount,
          crankingInjectionMode,  \* "SIMULTANEOUS", "SINGLE_POINT", "SEQUENTIAL", "BATCH"
          injectionMode,          \* the same, used once the engine runs
          twoWireBatchInjection,
          Durations,              \* pulse lengths the fuel math may ask for
          PrimePulses,            \* lengths of the priming pulse, {} if disabled
          EngineStartsAfterPrime, \* assume nobody cranks during the priming pulse
          isFasterEngineSpinUpEnabled,
          None,
          MinPulse,               \* the 50 us below which nothing is injected
          MaxDelay,               \* model bound: how far ahead a pulse may start
          MaxLag,                 \* model bound: how late the handler may run
          MaxInjections,          \* model bound: pulses scheduled
          TimeBound               \* model bound: the clock stops here

ASSUME InjectionAssumption ==
  /\ cylindersCount \in Nat \ {0}
  /\ {crankingInjectionMode, injectionMode} \subseteq
        {"SIMULTANEOUS", "SINGLE_POINT", "SEQUENTIAL", "BATCH"}
  /\ ("BATCH" \in {crankingInjectionMode, injectionMode} => cylindersCount % 2 = 0)
  /\ isFasterEngineSpinUpEnabled \in BOOLEAN
  /\ twoWireBatchInjection \in BOOLEAN
  /\ EngineStartsAfterPrime \in BOOLEAN
  /\ Durations \subseteq Nat /\ PrimePulses \subseteq Nat
  /\ MinPulse \in Nat \ {0} /\ MaxDelay \in Nat /\ MaxLag \in Nat
  /\ MaxInjections \in Nat /\ TimeBound \in Nat
  /\ None \notin Nat

Cylinder == 0 .. cylindersCount - 1   \* indices of events and of injectors

Up(i) == <<"signalTimerUp", i>>
Down(i) == <<"endOfInjectionEvent", i>>
Sched == {Up(i) : i \in Cylinder} \cup {Down(i) : i \in Cylinder}

Actions == {"startSimultaniousInjection", "endSimultaniousInjection",
            "turnInjectionPinHigh", "turnInjectionPinLow",
            "endSimultaniousInjectionOnlyTogglePins"}

\* handleFuelInjectionEvent between its two halves.
HandlerCall == [event : Cylinder, turnOffTime : 0 .. TimeBound, endAction : Actions]

ASSUME NoneAssumption == None \notin HandlerCall

VARIABLES
  now, pending,        \* the clock and the timers, see PendingEvents
  action,              \* scheduling_s::action of each timer
  outputs,             \* InjectionEvent::outputs as a set of injector indices
  isSimultanious,      \* InjectionEvent::isSimultanious
  isScheduled,         \* InjectionEvent::isScheduled
  overlappingCounter,  \* InjectorOutputPin::overlappingCounter
  pin,                 \* currentLogicValue of each injector
  isReady,             \* FuelSchedule::isReady
  state,               \* RpmCalculator::state
  rpm,                 \* RpmCalculator::rpmValue: "zero", "noisy" or "valid"
  handler,             \* the handleFuelInjectionEvent call under way, or None
  primed,              \* has startPrimeInjectionPulse been called
  injections           \* pulses scheduled so far

timers == <<now, pending, action>>
schedule == <<outputs, isSimultanious, isReady>>
engine == <<state, rpm>>
injectors == <<overlappingCounter, pin>>
vars == <<timers, schedule, isScheduled, injectors, engine, handler, primed, injections>>

Timers == INSTANCE PendingEvents WITH Idle <- None

-----------------------------------------------------------------------------
(* The fuel schedule *)

isStopped == state = "STOPPED" \/ (state = "SPINNING_UP" /\ rpm = "zero")

isCranking(st, r) == st = "CRANKING" \/ (st = "SPINNING_UP" /\ r = "valid")

getCurrentInjectionMode(st, r) ==
  IF isCranking(st, r) THEN crankingInjectionMode ELSE injectionMode

\* The injectors of event i.  The firing order only renames injectors in
\* SEQUENTIAL mode and is left out.
outputsOf(mode, i) ==
  LET half == cylindersCount \div 2
      index == CASE mode \in {"SIMULTANEOUS", "SINGLE_POINT"} -> 0
                 [] mode = "SEQUENTIAL" -> i
                 [] mode = "BATCH" -> i % half
  IN  IF mode = "BATCH" /\ twoWireBatchInjection
      THEN {index, index + half}
      ELSE {index}

\* addFuelEventsForCylinder for each event of es.  It gives up while there is
\* no valid RPM: oneDegreeUs is NaN.
addFuelEventsForCylinders(es, st, r) ==
  LET mode == getCurrentInjectionMode(st, r)
  IN  IF r # "valid" THEN UNCHANGED <<outputs, isSimultanious>>
      ELSE /\ outputs' = [i \in Cylinder |->
                            IF i \in es THEN outputsOf(mode, i) ELSE outputs[i]]
           /\ isSimultanious' = [i \in Cylinder |->
                IF i \in es THEN mode = "SIMULTANEOUS" ELSE isSimultanious[i]]

addFuelEvents(st, r) ==
  /\ addFuelEventsForCylinders(Cylinder, st, r)
  /\ isReady' = (r = "valid")

-----------------------------------------------------------------------------
(* Timers: a record that is pending ignores a second call, action included *)

scheduleByTimestampNt(s, t, a) ==
  IF pending[s] = None
  THEN Timers!Schedule(s, t) /\ action' = [action EXCEPT ![s] = a]
  ELSE UNCHANGED timers

Init ==
  /\ now = 0
  /\ pending = [s \in Sched |-> None]
  /\ action = [s \in Sched |-> None]
  /\ outputs = [i \in Cylinder |-> {}]
  /\ isSimultanious = [i \in Cylinder |-> FALSE]
  /\ isScheduled = [i \in Cylinder |-> FALSE]
  /\ overlappingCounter = [o \in Cylinder |-> 0]
  /\ pin = [o \in Cylinder |-> FALSE]
  /\ isReady = FALSE
  /\ state = "STOPPED"
  /\ rpm = "zero"
  /\ handler = None
  /\ primed = FALSE
  /\ injections = 0

Tick ==
  /\ Timers!Tick
  /\ UNCHANGED <<action, schedule, isScheduled, injectors, engine, handler, primed,
                 injections>>

\* Power-up: all injectors open for the length of the pulse, and the closing
\* borrows the timer of the first event.
startPrimeInjectionPulse(d) ==
  /\ ~primed
  /\ isStopped
  /\ handler = None
  /\ now + d <= TimeBound
  /\ primed' = TRUE
  /\ pin' = [o \in Cylinder |-> TRUE]
  /\ scheduleByTimestampNt(Down(0), now + d, "endSimultaniousInjectionOnlyTogglePins")
  /\ UNCHANGED <<schedule, isScheduled, overlappingCounter, engine, handler, injections>>

PrimePulseOver ==
  /\ primed
  /\ pending[Down(0)] # None => action[Down(0)] # "endSimultaniousInjectionOnlyTogglePins"

EngineMayTurn == handler = None /\ (EngineStartsAfterPrime => PrimePulseOver)

\* A revolution at cranking speed outlasts every pulse (timing assumption).
CrankingAnew == \A i \in Cylinder : ~isScheduled[i]

\* RpmCalculator::setSpinningUp changes the state and not the fuel schedule.
setSpinningUp ==
  /\ isFasterEngineSpinUpEnabled
  /\ EngineMayTurn
  /\ state = "STOPPED"
  /\ state' = "SPINNING_UP"
  /\ UNCHANGED <<timers, schedule, isScheduled, injectors, rpm, handler, primed, injections>>

\* rpmShaftPositionCallback while spinning up: an instant RPM is assigned.
assignInstantRpm ==
  /\ EngineMayTurn
  /\ state = "SPINNING_UP"
  /\ rpm = "valid" \/ CrankingAnew
  /\ rpm' = "valid"
  /\ UNCHANGED <<timers, schedule, isScheduled, injectors, state, handler, primed, injections>>

\* RpmCalculator::setRpmValue.  Running with a low RPM is still running; a
\* change of state rebuilds the fuel schedule.
setRpmValue(r, reachedRunning) ==
  /\ EngineMayTurn
  /\ r = "noisy" => ~reachedRunning
  /\ \/ reachedRunning \/ r = "noisy" \/ state = "RUNNING"
     \/ state = "CRANKING" /\ isReady
     \/ CrankingAnew
  /\ rpm' = r
  /\ state' = IF reachedRunning THEN "RUNNING"
              ELSE IF state = "RUNNING" THEN "RUNNING" ELSE "CRANKING"
  /\ IF state' # state THEN addFuelEvents(state', r) ELSE UNCHANGED schedule
  /\ UNCHANGED <<timers, isScheduled, injectors, handler, primed, injections>>

\* RpmCalculator::setStopped, after a timeout or when the trigger loses
\* synchronization: keeps the schedule.
setStopped ==
  /\ handler = None
  /\ state' = "STOPPED"
  /\ rpm' = "zero"
  /\ UNCHANGED <<timers, schedule, isScheduled, injectors, handler, primed, injections>>

\* handleFuel: a schedule that is not ready is rebuilt first; mainTriggerCallback
\* has it rebuilt, too, when the trigger configuration has changed.
refreshSchedule ==
  \/ isReady /\ UNCHANGED schedule
  \/ addFuelEvents(state, rpm)

\* Mutant: pulses of any length are scheduled.
handleShortPulseToo(i, t, d) ==
  /\ handler = None
  /\ rpm = "valid"
  /\ ~isScheduled[i]
  /\ refreshSchedule
  /\ isScheduled' = [isScheduled EXCEPT ![i] = TRUE]
  /\ scheduleByTimestampNt(Up(i), t, "turnInjectionPinHigh")
  /\ handler' = [event |-> i, turnOffTime |-> t + d, endAction |-> "turnInjectionPinLow"]
  /\ injections' = injections + 1
  /\ UNCHANGED <<injectors, engine, primed>>

\* The trigger handler reaches the tooth of event i: open at t, for d.
handleFuelInjectionEvent(i, t, d) ==
  /\ handler = None
  /\ rpm = "valid"
  /\ d >= MinPulse
  /\ ~isScheduled[i]
  /\ refreshSchedule
  /\ isScheduled' = [isScheduled EXCEPT ![i] = TRUE]
  /\ scheduleByTimestampNt(Up(i), t,
       IF isSimultanious'[i] THEN "startSimultaniousInjection" ELSE "turnInjectionPinHigh")
  /\ handler' = [event |-> i, turnOffTime |-> t + d,
                 endAction |-> IF isSimultanious'[i] THEN "endSimultaniousInjection"
                                                     ELSE "turnInjectionPinLow"]
  /\ injections' = injections + 1
  /\ UNCHANGED <<injectors, engine, primed>>

\* The trigger handler finds nothing to inject: no event at this tooth, a pulse
\* that is too short, an event still in use.
handleFuelSkips ==
  /\ handler = None
  /\ rpm = "valid"
  /\ refreshSchedule
  /\ UNCHANGED <<timers, isScheduled, injectors, engine, handler, primed, injections>>

\* Mutant: an end that is already in the past is not scheduled.
skipLateEndOfInjection ==
  /\ handler # None
  /\ IF handler.turnOffTime > now
     THEN scheduleByTimestampNt(Down(handler.event), handler.turnOffTime, handler.endAction)
     ELSE UNCHANGED timers
  /\ handler' = None
  /\ UNCHANGED <<schedule, isScheduled, injectors, engine, primed, injections>>

\* The second half of the handler; callbacks may have run in between.
scheduleEndOfInjection ==
  /\ handler # None
  /\ scheduleByTimestampNt(Down(handler.event), handler.turnOffTime, handler.endAction)
  /\ handler' = None
  /\ UNCHANGED <<schedule, isScheduled, injectors, engine, primed, injections>>

-----------------------------------------------------------------------------
(* Callbacks, run by the executor *)

Execute(s, a) ==
  /\ action[s] = a
  /\ Timers!Fire(s)
  /\ UNCHANGED <<action, engine, handler, primed, injections>>

startSimultaniousInjection(i) ==
  /\ Execute(Up(i), "startSimultaniousInjection")
  /\ pin' = [o \in Cylinder |-> TRUE]
  /\ UNCHANGED <<schedule, isScheduled, overlappingCounter>>

endSimultaniousInjection(i) ==
  /\ Execute(Down(i), "endSimultaniousInjection")
  /\ isScheduled' = [isScheduled EXCEPT ![i] = FALSE]
  /\ pin' = [o \in Cylinder |-> FALSE]
  /\ addFuelEventsForCylinders({i}, state, rpm)
  /\ UNCHANGED <<isReady, overlappingCounter>>

endPrimePulse ==
  /\ Execute(Down(0), "endSimultaniousInjectionOnlyTogglePins")
  /\ pin' = [o \in Cylinder |-> FALSE]
  /\ UNCHANGED <<schedule, isScheduled, overlappingCounter>>

turnInjectionPinHigh(i) ==
  LET count == [o \in Cylinder |->
                  overlappingCounter[o] + (IF o \in outputs[i] THEN 1 ELSE 0)]
  IN  /\ Execute(Up(i), "turnInjectionPinHigh")
      /\ overlappingCounter' = count
      /\ pin' = [o \in Cylinder |-> IF o \in outputs[i] /\ count[o] <= 1 THEN TRUE ELSE pin[o]]
      /\ UNCHANGED <<schedule, isScheduled>>

\* Mutant: nothing is counted down once the engine has stopped.
lowUnlessStopped(i) ==
  LET count == [o \in Cylinder |-> overlappingCounter[o] -
                  (IF o \in outputs[i] /\ state # "STOPPED" THEN 1 ELSE 0)]
  IN  /\ Execute(Down(i), "turnInjectionPinLow")
      /\ isScheduled' = [isScheduled EXCEPT ![i] = FALSE]
      /\ overlappingCounter' = count
      /\ pin' = [o \in Cylinder |-> IF o \in outputs[i] /\ count[o] <= 0 THEN FALSE ELSE pin[o]]
      /\ UNCHANGED schedule

\* Mutant: the injector is closed only if it was not counted as open.
lowIfNotCounted(i) ==
  LET count == [o \in Cylinder |->
                  overlappingCounter[o] - (IF o \in outputs[i] THEN 1 ELSE 0)]
  IN  /\ Execute(Down(i), "turnInjectionPinLow")
      /\ isScheduled' = [isScheduled EXCEPT ![i] = FALSE]
      /\ overlappingCounter' = count
      /\ pin' = [o \in Cylinder |-> IF o \in outputs[i] /\ count[o] < 0 THEN FALSE ELSE pin[o]]
      /\ UNCHANGED schedule

\* Mutant: the injector is closed whatever the counter says.
lowRegardless(i) ==
  /\ Execute(Down(i), "turnInjectionPinLow")
  /\ isScheduled' = [isScheduled EXCEPT ![i] = FALSE]
  /\ overlappingCounter' = [o \in Cylinder |->
        overlappingCounter[o] - (IF o \in outputs[i] THEN 1 ELSE 0)]
  /\ pin' = [o \in Cylinder |-> IF o \in outputs[i] THEN FALSE ELSE pin[o]]
  /\ UNCHANGED schedule

turnInjectionPinLow(i) ==
  LET count == [o \in Cylinder |->
                  overlappingCounter[o] - (IF o \in outputs[i] THEN 1 ELSE 0)]
  IN  /\ Execute(Down(i), "turnInjectionPinLow")
      /\ isScheduled' = [isScheduled EXCEPT ![i] = FALSE]
      /\ overlappingCounter' = count
      /\ pin' = [o \in Cylinder |-> IF o \in outputs[i] /\ count[o] <= 0 THEN FALSE ELSE pin[o]]
      /\ addFuelEventsForCylinders({i}, state, rpm)
      /\ UNCHANGED isReady

\* Watchdog or engine stop request: EnginePins::stopPins closes every open
\* injector and leaves the counters alone.
stopPins ==
  /\ handler = None
  /\ pin' = [o \in Cylinder |-> FALSE]
  /\ UNCHANGED <<timers, schedule, isScheduled, overlappingCounter, engine, handler,
                 primed, injections>>

handleFuel ==
  \E i \in Cylinder, t \in Timers!Time, d \in Durations :
    /\ injections < MaxInjections
    /\ now - MaxLag <= t /\ t <= now + MaxDelay /\ t + d <= TimeBound
    /\ handleFuelInjectionEvent(i, t, d)

Callback ==
  \/ \E i \in Cylinder : startSimultaniousInjection(i)
  \/ \E i \in Cylinder : endSimultaniousInjection(i)
  \/ \E i \in Cylinder : turnInjectionPinHigh(i)
  \/ \E i \in Cylinder : turnInjectionPinLow(i)
  \/ endPrimePulse

Next ==
  \/ Tick
  \/ \E d \in PrimePulses : startPrimeInjectionPulse(d)
  \/ setSpinningUp
  \/ assignInstantRpm
  \/ \E r \in {"noisy", "valid"}, reachedRunning \in BOOLEAN : setRpmValue(r, reachedRunning)
  \/ setStopped
  \/ handleFuel
  \/ handleFuelSkips
  \/ scheduleEndOfInjection
  \/ Callback
  \/ stopPins

Spec == Init /\ [][Next]_vars

\* Time passes, the trigger handler runs to its end, due callbacks are run
\* (Executor shows that the executor does so).
FairSpec ==
  /\ Spec
  /\ WF_vars(Tick)
  /\ WF_vars(scheduleEndOfInjection)
  /\ WF_vars(Callback)

-----------------------------------------------------------------------------
(* Properties *)

\* The fuel schedule, timers and injector outputs are well formed; an injector index
\* that addFuelEventsForCylinder computes is always one of an existing output.
TypeOK ==
  /\ Timers!TypeOK
  /\ action \in [Sched -> Actions \cup {None}]
  /\ outputs \in [Cylinder -> SUBSET Cylinder]
  /\ isSimultanious \in [Cylinder -> BOOLEAN]
  /\ isScheduled \in [Cylinder -> BOOLEAN]
  /\ overlappingCounter \in [Cylinder -> Int]
  /\ pin \in [Cylinder -> BOOLEAN]
  /\ isReady \in BOOLEAN
  /\ state \in {"STOPPED", "SPINNING_UP", "CRANKING", "RUNNING"}
  /\ rpm \in {"zero", "noisy", "valid"}
  /\ handler \in HandlerCall \cup {None}
  /\ primed \in BOOLEAN
  /\ injections \in Nat

\* The pulse of event i is under way: its start has been executed, not its end.
Started(i) == isScheduled[i] /\ pending[Up(i)] = None

\* overlappingCounter of an injector is the number of individual pulses under
\* way on it, whatever the overlap of pulses, mode changes and stops.
CounterCountsPulses ==
  \A o \in Cylinder :
    overlappingCounter[o] =
      Cardinality({i \in Cylinder : /\ Started(i)
                                    /\ action[Up(i)] = "turnInjectionPinHigh"
                                    /\ o \in outputs[i]})

\* event_registry.h: "no 'down' side callback would be ignored": while an event
\* is in use its own closing callback is pending.
DownNotIgnored ==
  \A i \in Cylinder :
    isScheduled[i] /\ (handler = None \/ handler.event # i) =>
      /\ pending[Down(i)] # None
      /\ action[Down(i)] \in {"turnInjectionPinLow", "endSimultaniousInjection"}

\* The end of a pulse is never executed before its start (the swap that the
\* 50 us threshold of handleFuelInjectionEvent is there to prevent).
StartBeforeEnd ==
  \A i \in Cylinder :
    pending[Up(i)] # None => isScheduled[i]

\* The end of one pulse does not cut short another one on the same injector.
\* (Not so when cranking injects simultaneously and a cranking pulse ends after
\* the first running pulse has started.)
ClosesLast ==
  [][\A o \in Cylinder :
       pin[o] /\ ~pin'[o] /\ isScheduled' # isScheduled => overlappingCounter'[o] = 0]_vars

\* Nothing leaks: after the last pulse every injector is closed for good and
\* counts no pulse.
AllCloseAtLast == <>[](\A o \in Cylinder : ~pin[o] /\ overlappingCounter[o] = 0)

\* No cylinder is lost: an event in use is eventually released.
EventReleased == \A i \in Cylinder : isScheduled[i] ~> ~isScheduled[i]
=============================================================================
