--------------------------- MODULE InjectionProofs ---------------------------
(***************************************************************************)
(* Proofs about Injection for every number of cylinders, every set of      *)
(* pulse lengths and every bound.                                          *)
(***************************************************************************)
EXTENDS Injection, FiniteSetTheorems, TLAPS

PrimeEnd == "endSimultaniousInjectionOnlyTogglePins"

\* The callbacks that open and close the injectors for one pulse.
Paired(open, close) ==
  \/ open = "turnInjectionPinHigh" /\ close = "turnInjectionPinLow"
  \/ open = "startSimultaniousInjection" /\ close = "endSimultaniousInjection"

\* The closing callback of a pulse of event i is pending.
EndPending(i) == pending[Down(i)] # None /\ action[Down(i)] # PrimeEnd

\* A closing callback belongs to an event in use, matches its opening callback and
\* comes later than it.
EndsMatch ==
  \A i \in Cylinder : EndPending(i) =>
    /\ isScheduled[i]
    /\ Paired(action[Up(i)], action[Down(i)])
    /\ pending[Up(i)] # None => pending[Up(i)] < pending[Down(i)]

\* The same for the closing callback that the trigger handler is about to schedule.
HandlerMatches ==
  handler # None =>
    /\ isScheduled[handler.event]
    /\ ~EndPending(handler.event)
    /\ Paired(action[Up(handler.event)], handler.endAction)
    /\ pending[Up(handler.event)] # None => pending[Up(handler.event)] < handler.turnOffTime

PulseInv == TypeOK /\ StartBeforeEnd /\ EndsMatch /\ HandlerMatches

-----------------------------------------------------------------------------
(* The priming pulse and the first event share a timer record. *)

NoPrimeEnd == pending[Down(0)] # None => action[Down(0)] # PrimeEnd

\* The priming pulse borrows no other event's record.
PrimeOnFirst ==
  \A i \in Cylinder \ {0} : pending[Down(i)] # None => action[Down(i)] # PrimeEnd

AtRest ==
  /\ state = "STOPPED" /\ rpm = "zero" /\ handler = None
  /\ \A i \in Cylinder : ~isScheduled[i]

\* The record is free for the first event once the engine has turned: there is no
\* priming pulse, or nobody cranks during it.
PrimeFirst == (EngineStartsAfterPrime /\ AtRest) \/ NoPrimeEnd

PrimeInv ==
  /\ PulseInv /\ PrimeOnFirst /\ PrimeFirst /\ DownNotIgnored
  /\ EngineStartsAfterPrime => AtRest \/ primed

-----------------------------------------------------------------------------
(* The outputs of an event under way stay the same. *)

\* The configurations whose schedules agree for individual pulses under way.
ModesAgree ==
  \/ crankingInjectionMode = injectionMode
  \/ crankingInjectionMode = "SIMULTANEOUS" /\ ~isFasterEngineSpinUpEnabled

\* Event i has been scheduled for a pulse on its own injectors.
Individual(i) == isScheduled[i] /\ action[Up(i)] = "turnInjectionPinHigh"

\* Event i has been prepared for an injection mode.
PreparedFor(i, mode) ==
  outputs[i] = outputsOf(mode, i) /\ (isSimultanious[i] <=> mode = "SIMULTANEOUS")

OutputsHeld == \A i \in Cylinder : Individual(i) => outputs[i] = outputsOf(injectionMode, i)

ScheduleKnown ==
  isReady => \A i \in Cylinder :
    PreparedFor(i, injectionMode) \/ PreparedFor(i, crankingInjectionMode)

StateKnown ==
  /\ state = "STOPPED" => rpm = "zero"
  /\ isFasterEngineSpinUpEnabled \/ state # "SPINNING_UP"

\* While cranking has its own schedule there are only simultaneous pulses.
CrankingApart ==
  crankingInjectionMode # injectionMode /\ state = "CRANKING" =>
    /\ isReady \/ rpm = "valid" => \A i \in Cylinder : ~Individual(i)
    /\ isReady => \A i \in Cylinder : isSimultanious[i]

\* With one mode for cranking and running the pulses are of one kind.
OneKind ==
  crankingInjectionMode = injectionMode => \A i \in Cylinder :
    isScheduled[i] => (Individual(i) <=> injectionMode # "SIMULTANEOUS")

OutputInv ==
  PulseInv /\ OutputsHeld /\ ScheduleKnown /\ StateKnown /\ CrankingApart /\ OneKind

-----------------------------------------------------------------------------
\* What the assumption says of each constant.
LEMMA Constants ==
  /\ cylindersCount \in Nat \ {0} /\ Durations \subseteq Nat /\ PrimePulses \subseteq Nat
  /\ {crankingInjectionMode, injectionMode} \subseteq
        {"SIMULTANEOUS", "SINGLE_POINT", "SEQUENTIAL", "BATCH"}
  /\ ("BATCH" \in {crankingInjectionMode, injectionMode} => cylindersCount % 2 = 0)
  /\ MinPulse \in Nat \ {0} /\ MaxDelay \in Nat /\ MaxLag \in Nat
  /\ MaxInjections \in Nat /\ TimeBound \in Nat /\ None \notin Nat
  BY InjectionAssumption, Zenon

\* The timer records of all events are different.
LEMMA Records ==
  /\ \A i \in Cylinder : Up(i) \in Sched /\ Down(i) \in Sched
  /\ \A i, j \in Cylinder : Up(i) # Down(j)
  /\ \A i, j \in Cylinder : Up(i) = Up(j) => i = j
  /\ \A i, j \in Cylinder : Down(i) = Down(j) => i = j
  /\ 0 \in Cylinder
  BY Constants DEF Up, Down, Sched, Cylinder

\* The injectors of an event exist.
LEMMA OutputsExist ==
  ASSUME NEW i \in Cylinder,
         NEW mode \in {"SIMULTANEOUS", "SINGLE_POINT", "SEQUENTIAL", "BATCH"},
         mode = "BATCH" => cylindersCount % 2 = 0
  PROVE  outputsOf(mode, i) \subseteq Cylinder
<1> DEFINE half == cylindersCount \div 2
<1>1. i \in Nat /\ i < cylindersCount /\ cylindersCount \in Nat
  BY Constants DEF Cylinder
<1>2. CASE mode # "BATCH"
  BY <1>1, <1>2 DEF outputsOf, Cylinder
<1>3. CASE mode = "BATCH"
  <2>1. half \in Nat /\ half > 0 /\ 2 * half = cylindersCount
    BY <1>1, <1>3
  <2>2. i % half \in 0 .. half - 1
    BY <1>1, <2>1
  <2>3. i % half \in Cylinder /\ (i % half) + half \in Cylinder
    BY <1>1, <2>1, <2>2 DEF Cylinder
  <2> QED
    BY <1>3, <2>3 DEF outputsOf
<1> QED
  BY <1>2, <1>3

\* The current injection mode is one of the two configured ones.
LEMMA CurrentMode ==
  ASSUME NEW st, NEW r
  PROVE  /\ getCurrentInjectionMode(st, r) \in {"SIMULTANEOUS", "SINGLE_POINT", "SEQUENTIAL", "BATCH"}
         /\ getCurrentInjectionMode(st, r) = "BATCH" => cylindersCount % 2 = 0
  BY Constants DEF getCurrentInjectionMode

\* Rebuilding the schedule of some events, or of all, keeps it well formed.
LEMMA ScheduleType ==
  ASSUME NEW es, NEW st, NEW r,
         outputs \in [Cylinder -> SUBSET Cylinder], isSimultanious \in [Cylinder -> BOOLEAN],
         addFuelEventsForCylinders(es, st, r)
  PROVE  outputs' \in [Cylinder -> SUBSET Cylinder] /\ isSimultanious' \in [Cylinder -> BOOLEAN]
<1> DEFINE mode == getCurrentInjectionMode(st, r)
<1>1. \A i \in Cylinder : outputsOf(mode, i) \subseteq Cylinder
  BY OutputsExist, CurrentMode
<1>2. r = "valid" =>
        /\ outputs' = [i \in Cylinder |-> IF i \in es THEN outputsOf(mode, i) ELSE outputs[i]]
        /\ isSimultanious' = [i \in Cylinder |->
             IF i \in es THEN mode = "SIMULTANEOUS" ELSE isSimultanious[i]]
  BY Zenon DEF addFuelEventsForCylinders
<1>3. r # "valid" => outputs' = outputs /\ isSimultanious' = isSimultanious
  BY DEF addFuelEventsForCylinders
<1> HIDE DEF mode
<1>4. outputs' \in [Cylinder -> SUBSET Cylinder]
  BY <1>1, <1>2, <1>3
<1>5. isSimultanious' \in [Cylinder -> BOOLEAN]
  BY <1>2, <1>3, Zenon
<1> QED
  BY <1>4, <1>5

\* Scheduling keeps the timers well formed.
LEMMA TimersType ==
  ASSUME Timers!TypeOK, action \in [Sched -> Actions \cup {None}],
         NEW s \in Sched, NEW t \in Timers!Time, NEW a \in Actions, scheduleByTimestampNt(s, t, a)
  PROVE  Timers!TypeOK' /\ action' \in [Sched -> Actions \cup {None}]
  BY DEF scheduleByTimestampNt, Timers!TypeOK, Timers!Schedule, timers

\* Every step keeps the state well formed.
LEMMA TypeNext == TypeOK /\ [Next]_vars => TypeOK'
<1> SUFFICES ASSUME TypeOK, [Next]_vars PROVE TypeOK'
  OBVIOUS
<1> USE Constants, Records DEF TypeOK
<1>1. CASE Tick
  BY <1>1 DEF Tick, Timers!Tick, Timers!TypeOK, Timers!Time, schedule, injectors, engine
<1>2. ASSUME NEW d \in PrimePulses, startPrimeInjectionPulse(d) PROVE TypeOK'
  <2>1. now + d \in Timers!Time
    BY <1>2 DEF startPrimeInjectionPulse, Timers!TypeOK, Timers!Time
  <2>2. Timers!TypeOK' /\ action' \in [Sched -> Actions \cup {None}]
    BY <1>2, <2>1, TimersType DEF startPrimeInjectionPulse, Actions
  <2>3. pin' \in [Cylinder -> BOOLEAN]
    BY <1>2 DEF startPrimeInjectionPulse
  <2> QED
    BY <1>2, <2>2, <2>3, Zenon DEF startPrimeInjectionPulse, schedule, engine
<1>3. CASE setSpinningUp
  BY <1>3 DEF setSpinningUp, timers, schedule, injectors, Timers!TypeOK
<1>4. CASE assignInstantRpm
  BY <1>4 DEF assignInstantRpm, timers, schedule, injectors, Timers!TypeOK
<1>5. ASSUME NEW r \in {"noisy", "valid"}, NEW reachedRunning \in BOOLEAN,
             setRpmValue(r, reachedRunning)
      PROVE  TypeOK'
  <2>1. outputs' \in [Cylinder -> SUBSET Cylinder] /\ isSimultanious' \in [Cylinder -> BOOLEAN]
    BY <1>5, ScheduleType DEF setRpmValue, addFuelEvents, schedule
  <2>2. isReady' \in BOOLEAN
    BY <1>5, Zenon DEF setRpmValue, addFuelEvents, schedule
  <2>3. state' \in {"STOPPED", "SPINNING_UP", "CRANKING", "RUNNING"} /\ rpm' \in {"zero", "noisy", "valid"}
    BY <1>5 DEF setRpmValue
  <2>4. Timers!TypeOK'
    BY <1>5 DEF setRpmValue, timers, Timers!TypeOK
  <2> QED
    BY <1>5, <2>1, <2>2, <2>3, <2>4, Zenon DEF setRpmValue, timers, injectors
<1>6. CASE setStopped
  BY <1>6 DEF setStopped, timers, schedule, injectors, Timers!TypeOK
<1>7. ASSUME refreshSchedule
      PROVE  /\ outputs' \in [Cylinder -> SUBSET Cylinder] /\ isSimultanious' \in [Cylinder -> BOOLEAN]
             /\ isReady' \in BOOLEAN
  <2>1. outputs' \in [Cylinder -> SUBSET Cylinder] /\ isSimultanious' \in [Cylinder -> BOOLEAN]
    BY <1>7, ScheduleType DEF refreshSchedule, addFuelEvents, schedule
  <2>2. isReady' \in BOOLEAN
    BY <1>7, Zenon DEF refreshSchedule, addFuelEvents, schedule
  <2> QED
    BY <2>1, <2>2
<1>8. ASSUME NEW i \in Cylinder, NEW t \in Timers!Time, NEW d \in Durations, t + d <= TimeBound,
             handleFuelInjectionEvent(i, t, d)
      PROVE  TypeOK'
  <2>1. /\ outputs' \in [Cylinder -> SUBSET Cylinder] /\ isSimultanious' \in [Cylinder -> BOOLEAN]
        /\ isReady' \in BOOLEAN
    BY <1>7, <1>8 DEF handleFuelInjectionEvent
  <2>2. Timers!TypeOK' /\ action' \in [Sched -> Actions \cup {None}]
    BY <1>8, TimersType DEF handleFuelInjectionEvent, Actions
  <2>3. handler' \in HandlerCall /\ injections' \in Nat /\ isScheduled' \in [Cylinder -> BOOLEAN]
    BY <1>8 DEF handleFuelInjectionEvent, HandlerCall, Actions, Timers!Time
  <2> QED
    BY <1>8, <2>1, <2>2, <2>3, Zenon DEF handleFuelInjectionEvent, injectors, engine
<1>9. CASE handleFuelSkips
  <2>1. /\ outputs' \in [Cylinder -> SUBSET Cylinder] /\ isSimultanious' \in [Cylinder -> BOOLEAN]
        /\ isReady' \in BOOLEAN
    BY <1>7, <1>9 DEF handleFuelSkips
  <2> QED
    BY <1>9, <2>1 DEF handleFuelSkips, timers, injectors, engine, Timers!TypeOK
<1>10. CASE scheduleEndOfInjection
  <2>1. handler \in HandlerCall
    BY <1>10 DEF scheduleEndOfInjection
  <2>2. /\ Down(handler.event) \in Sched /\ handler.turnOffTime \in Timers!Time
        /\ handler.endAction \in Actions
    BY <2>1 DEF HandlerCall, Timers!Time
  <2>3. Timers!TypeOK' /\ action' \in [Sched -> Actions \cup {None}]
    BY <1>10, <2>2, TimersType DEF scheduleEndOfInjection
  <2> QED
    BY <1>10, <2>3, Zenon DEF scheduleEndOfInjection, schedule, injectors, engine
<1>11. ASSUME NEW s \in Sched, NEW a, Execute(s, a)
       PROVE  /\ Timers!TypeOK' /\ action' = action /\ state' = state /\ rpm' = rpm
              /\ handler' = handler /\ primed' = primed /\ injections' = injections
  BY <1>11 DEF Execute, Timers!Fire, Timers!TypeOK, engine
<1>12. CASE Callback
  <2>1. ASSUME NEW i \in Cylinder, startSimultaniousInjection(i) PROVE TypeOK'
    <3>1. pin' \in [Cylinder -> BOOLEAN]
      BY <2>1 DEF startSimultaniousInjection
    <3> QED
      BY <2>1, <3>1, <1>11, Zenon DEF startSimultaniousInjection, schedule
  <2>2. ASSUME NEW i \in Cylinder, endSimultaniousInjection(i) PROVE TypeOK'
    <3>1. pin' \in [Cylinder -> BOOLEAN] /\ isScheduled' \in [Cylinder -> BOOLEAN]
      BY <2>2 DEF endSimultaniousInjection
    <3>2. outputs' \in [Cylinder -> SUBSET Cylinder] /\ isSimultanious' \in [Cylinder -> BOOLEAN]
      BY <2>2, ScheduleType DEF endSimultaniousInjection
    <3> QED
      BY <2>2, <3>1, <3>2, <1>11, Zenon DEF endSimultaniousInjection
  <2>3. ASSUME NEW i \in Cylinder, turnInjectionPinHigh(i) PROVE TypeOK'
    <3>1. overlappingCounter' \in [Cylinder -> Int]
      BY <2>3 DEF turnInjectionPinHigh
    <3>2. pin' \in [Cylinder -> BOOLEAN]
      BY <2>3, Zenon DEF turnInjectionPinHigh
    <3> QED
      BY <2>3, <3>1, <3>2, <1>11, Zenon DEF turnInjectionPinHigh, schedule
  <2>4. ASSUME NEW i \in Cylinder, turnInjectionPinLow(i) PROVE TypeOK'
    <3>1. overlappingCounter' \in [Cylinder -> Int] /\ isScheduled' \in [Cylinder -> BOOLEAN]
      BY <2>4 DEF turnInjectionPinLow
    <3>2. pin' \in [Cylinder -> BOOLEAN]
      BY <2>4, Zenon DEF turnInjectionPinLow
    <3>3. outputs' \in [Cylinder -> SUBSET Cylinder] /\ isSimultanious' \in [Cylinder -> BOOLEAN]
      BY <2>4, ScheduleType DEF turnInjectionPinLow
    <3> QED
      BY <2>4, <3>1, <3>2, <3>3, <1>11, Zenon DEF turnInjectionPinLow
  <2>5. CASE endPrimePulse
    <3>1. pin' \in [Cylinder -> BOOLEAN]
      BY <2>5 DEF endPrimePulse
    <3> QED
      BY <2>5, <3>1, <1>11, Zenon DEF endPrimePulse, schedule
  <2> QED
    BY <1>12, <2>1, <2>2, <2>3, <2>4, <2>5 DEF Callback
<1>13. CASE stopPins
  BY <1>13 DEF stopPins, timers, schedule, engine, Timers!TypeOK
<1>14. CASE UNCHANGED vars
  BY <1>14 DEF vars, timers, schedule, injectors, engine, Timers!TypeOK
<1> QED
  BY <1>1, <1>2, <1>3, <1>4, <1>5, <1>6, <1>8, <1>9, <1>10, <1>12, <1>13, <1>14, Zenon
  DEF Next, handleFuel

\* The state is well formed at power-up.
LEMMA TypeInit == Init => TypeOK
<1> SUFFICES ASSUME Init PROVE TypeOK
  OBVIOUS
<1>1. Timers!TypeOK /\ action \in [Sched -> Actions \cup {None}]
  BY Constants DEF Init, Timers!TypeOK, Timers!Time
<1>2. outputs \in [Cylinder -> SUBSET Cylinder] /\ overlappingCounter \in [Cylinder -> Int]
  BY DEF Init
<1>3. /\ isSimultanious \in [Cylinder -> BOOLEAN] /\ isScheduled \in [Cylinder -> BOOLEAN]
      /\ pin \in [Cylinder -> BOOLEAN]
  BY Zenon DEF Init
<1>4. injections \in Nat
  BY DEF Init
<1> QED
  BY <1>1, <1>2, <1>3, <1>4, Zenon DEF Init, TypeOK

\* The state of the engine, the schedule and the injectors is always well formed; in
\* particular addFuelEventsForCylinder never names an injector that does not exist.
THEOREM TypeCorrect == Spec => []TypeOK
  BY TypeInit, TypeNext, PTL DEF Spec

-----------------------------------------------------------------------------
(* What scheduling and executing do to the timer records. *)

\* Scheduling sets an idle record, ignores a pending one and leaves the others alone.
LEMMA Scheduled ==
  ASSUME TypeOK, NEW s \in Sched, NEW t, NEW a, scheduleByTimestampNt(s, t, a)
  PROVE  /\ \A r \in Sched : r # s => pending'[r] = pending[r] /\ action'[r] = action[r]
         /\ pending[s] = None => pending'[s] = t /\ action'[s] = a
         /\ pending[s] # None => pending'[s] = pending[s] /\ action'[s] = action[s]
  BY DEF scheduleByTimestampNt, Timers!Schedule, TypeOK, Timers!TypeOK, timers

\* Executing a callback makes its record idle; no earlier callback is pending.
LEMMA Executed ==
  ASSUME TypeOK, NEW s \in Sched, NEW a, Execute(s, a)
  PROVE  /\ \A r \in Sched : r # s => pending'[r] = pending[r]
         /\ pending[s] # None /\ pending'[s] = None /\ action[s] = a
         /\ \A r \in Sched : pending[r] # None => ~(pending[r] < pending[s])
         /\ action' = action /\ handler' = handler /\ primed' = primed
         /\ state' = state /\ rpm' = rpm
<1>1. \A r \in Sched : pending[r] \in Nat \cup {None}
  BY Constants DEF TypeOK, Timers!TypeOK, Timers!Time
<1>2. \A r \in Sched : pending[r] # None => ~(pending[r] < pending[s])
  BY <1>1 DEF Execute, Timers!Fire, Timers!Due
<1> QED
  BY <1>2 DEF Execute, Timers!Fire, Timers!Due, TypeOK, Timers!TypeOK, engine

\* The state the pulses of the events are in.
pulses == <<pending, action, isScheduled, handler>>

\* The steps that leave the pulses alone.
LEMMA PulsesUnchanged ==
  ASSUME \/ Tick \/ setSpinningUp \/ assignInstantRpm \/ setStopped \/ handleFuelSkips
         \/ \E r \in {"noisy", "valid"}, reachedRunning \in BOOLEAN : setRpmValue(r, reachedRunning)
         \/ stopPins \/ UNCHANGED vars
  PROVE  UNCHANGED pulses
  BY DEF Tick, Timers!Tick, setSpinningUp, assignInstantRpm, setStopped, handleFuelSkips,
         setRpmValue, stopPins, vars, timers, pulses

\* The pulse invariant speaks of the pulses only.
LEMMA PulseStutter ==
  ASSUME StartBeforeEnd, EndsMatch, HandlerMatches, UNCHANGED pulses
  PROVE  StartBeforeEnd' /\ EndsMatch' /\ HandlerMatches'
  BY DEF StartBeforeEnd, EndsMatch, EndPending, HandlerMatches, pulses

\* Scheduling the opening of an event that is not in use.
LEMMA PulseBegins ==
  ASSUME PulseInv, NEW i \in Cylinder, NEW t \in Timers!Time, NEW d \in Durations,
         handleFuelInjectionEvent(i, t, d)
  PROVE  StartBeforeEnd' /\ EndsMatch' /\ HandlerMatches'
<1> USE Records DEF PulseInv
<1>1. pending[Up(i)] = None /\ ~EndPending(i)
  BY DEF handleFuelInjectionEvent, StartBeforeEnd, EndsMatch
<1>2. /\ \A r \in Sched : r # Up(i) => pending'[r] = pending[r] /\ action'[r] = action[r]
      /\ pending'[Up(i)] = t
      /\ action'[Up(i)] =
           IF isSimultanious'[i] THEN "startSimultaniousInjection" ELSE "turnInjectionPinHigh"
  BY <1>1, Scheduled DEF handleFuelInjectionEvent
<1>3. /\ isScheduled'[i] /\ \A j \in Cylinder : j # i => isScheduled'[j] = isScheduled[j]
      /\ handler = None
      /\ handler' = [event |-> i, turnOffTime |-> t + d,
                     endAction |-> IF isSimultanious'[i] THEN "endSimultaniousInjection"
                                                         ELSE "turnInjectionPinLow"]
      /\ d >= MinPulse
  BY DEF handleFuelInjectionEvent, TypeOK
<1>4. t < t + d
  BY <1>3, Constants DEF Timers!Time
<1>5. \A j \in Cylinder : EndPending(j)' <=> EndPending(j)
  BY <1>2 DEF EndPending
<1>6. StartBeforeEnd'
  BY <1>2, <1>3 DEF StartBeforeEnd
<1>7. EndsMatch'
  BY <1>1, <1>2, <1>3, <1>5 DEF EndsMatch
<1>8. /\ handler'.event = i /\ handler'.turnOffTime = t + d
      /\ Paired(action'[Up(i)], handler'.endAction)
  BY <1>2, <1>3 DEF Paired
<1>9. HandlerMatches'
  BY <1>1, <1>2, <1>3, <1>4, <1>5, <1>8 DEF HandlerMatches
<1> QED
  BY <1>6, <1>7, <1>9

\* A callback that opens injectors.
LEMMA PulseOpens ==
  ASSUME PulseInv, NEW i \in Cylinder, NEW a, Execute(Up(i), a), UNCHANGED isScheduled
  PROVE  StartBeforeEnd' /\ EndsMatch' /\ HandlerMatches'
<1> USE Records DEF PulseInv
<1>1. /\ \A r \in Sched : r # Up(i) => pending'[r] = pending[r]
      /\ pending'[Up(i)] = None /\ action' = action /\ handler' = handler
  BY Executed
<1>2. \A j \in Cylinder : EndPending(j)' <=> EndPending(j)
  BY <1>1 DEF EndPending
<1>3. StartBeforeEnd' /\ EndsMatch'
  BY <1>1, <1>2 DEF StartBeforeEnd, EndsMatch
<1>4. handler # None => handler.event \in Cylinder
  BY DEF TypeOK, HandlerCall
<1>5. HandlerMatches'
  BY <1>1, <1>2, <1>4 DEF HandlerMatches
<1> QED
  BY <1>3, <1>5

\* A callback that closes injectors: its opening has been executed.
LEMMA PulseCloses ==
  ASSUME PulseInv, NEW i \in Cylinder, NEW a, a # PrimeEnd, Execute(Down(i), a),
         isScheduled' = [isScheduled EXCEPT ![i] = FALSE]
  PROVE  /\ StartBeforeEnd' /\ EndsMatch' /\ HandlerMatches'
         /\ Started(i) /\ Paired(action[Up(i)], a)
         /\ handler # None => handler.event # i
<1> USE Records DEF PulseInv
<1>1. /\ \A r \in Sched : r # Down(i) => pending'[r] = pending[r]
      /\ \A r \in Sched : pending[r] # None => ~(pending[r] < pending[Down(i)])
      /\ pending'[Down(i)] = None /\ action' = action /\ handler' = handler
      /\ action[Down(i)] = a /\ EndPending(i)
  BY Executed DEF EndPending
<1>2. pending[Up(i)] = None /\ isScheduled[i] /\ Paired(action[Up(i)], a)
  BY <1>1 DEF EndsMatch
<1>3. \A j \in Cylinder : /\ EndPending(j)' <=> j # i /\ EndPending(j)
                          /\ j # i => isScheduled'[j] = isScheduled[j]
  BY <1>1 DEF EndPending, TypeOK
<1>4. StartBeforeEnd' /\ EndsMatch'
  BY <1>1, <1>2, <1>3 DEF StartBeforeEnd, EndsMatch
<1>5. handler # None => handler.event \in Cylinder /\ handler.event # i
  BY <1>1 DEF TypeOK, HandlerCall, HandlerMatches
<1>6. HandlerMatches'
  BY <1>1, <1>3, <1>5 DEF HandlerMatches
<1> QED
  BY <1>2, <1>4, <1>5, <1>6 DEF Started

\* Every step keeps each pulse's closing after its opening.
LEMMA PulseNext == PulseInv /\ [Next]_vars => PulseInv'
<1> SUFFICES ASSUME PulseInv, [Next]_vars PROVE StartBeforeEnd' /\ EndsMatch' /\ HandlerMatches'
  BY TypeNext DEF PulseInv
<1> USE Records DEF PulseInv
<1>1. ASSUME NEW d \in PrimePulses, startPrimeInjectionPulse(d)
      PROVE  StartBeforeEnd' /\ EndsMatch' /\ HandlerMatches'
  <2>1. /\ \A r \in Sched : r # Down(0) => pending'[r] = pending[r] /\ action'[r] = action[r]
        /\ pending[Down(0)] = None => action'[Down(0)] = PrimeEnd
        /\ pending[Down(0)] # None => pending'[Down(0)] = pending[Down(0)]
                                      /\ action'[Down(0)] = action[Down(0)]
    BY <1>1, Scheduled DEF startPrimeInjectionPulse, PrimeEnd
  <2>2. isScheduled' = isScheduled /\ handler' = None
    BY <1>1 DEF startPrimeInjectionPulse
  <2>3. \A j \in Cylinder : EndPending(j)' <=> EndPending(j)
    BY <2>1 DEF EndPending
  <2>4. \A j \in Cylinder : EndPending(j) => /\ pending'[Down(j)] = pending[Down(j)]
                                             /\ action'[Down(j)] = action[Down(j)]
    BY <2>1 DEF EndPending
  <2> QED
    BY <2>1, <2>2, <2>3, <2>4 DEF StartBeforeEnd, EndsMatch, HandlerMatches
<1>2. CASE scheduleEndOfInjection
  <2>1. PICK e \in Cylinder : handler # None /\ e = handler.event
    BY <1>2 DEF scheduleEndOfInjection, TypeOK, HandlerCall
  <2>2. /\ \A r \in Sched : r # Down(e) => pending'[r] = pending[r] /\ action'[r] = action[r]
        /\ pending[Down(e)] = None => /\ pending'[Down(e)] = handler.turnOffTime
                                      /\ action'[Down(e)] = handler.endAction
        /\ pending[Down(e)] # None => /\ pending'[Down(e)] = pending[Down(e)]
                                      /\ action'[Down(e)] = action[Down(e)]
    BY <1>2, <2>1, Scheduled DEF scheduleEndOfInjection
  <2>3. isScheduled' = isScheduled /\ handler' = None
    BY <1>2 DEF scheduleEndOfInjection
  <2>4. /\ isScheduled[e] /\ ~EndPending(e) /\ Paired(action[Up(e)], handler.endAction)
        /\ pending[Up(e)] # None => pending[Up(e)] < handler.turnOffTime
    BY <2>1 DEF HandlerMatches
  <2>5. \A j \in Cylinder : j # e => (EndPending(j)' <=> EndPending(j))
    BY <2>1, <2>2 DEF EndPending
  <2>6. EndPending(e)' => /\ pending'[Down(e)] = handler.turnOffTime
                          /\ action'[Down(e)] = handler.endAction
    BY <2>1, <2>2, <2>4 DEF EndPending
  <2>7. EndsMatch'
    BY <2>1, <2>2, <2>3, <2>4, <2>5, <2>6 DEF EndsMatch
  <2>8. StartBeforeEnd' /\ HandlerMatches'
    BY <2>1, <2>2, <2>3 DEF StartBeforeEnd, HandlerMatches
  <2> QED
    BY <2>7, <2>8
<1>3. CASE Callback
  <2>1. ASSUME NEW i \in Cylinder, startSimultaniousInjection(i) \/ turnInjectionPinHigh(i)
        PROVE  StartBeforeEnd' /\ EndsMatch' /\ HandlerMatches'
    BY <2>1, PulseOpens DEF startSimultaniousInjection, turnInjectionPinHigh
  <2>2. ASSUME NEW i \in Cylinder, endSimultaniousInjection(i) \/ turnInjectionPinLow(i)
        PROVE  StartBeforeEnd' /\ EndsMatch' /\ HandlerMatches'
    BY <2>2, PulseCloses DEF endSimultaniousInjection, turnInjectionPinLow, PrimeEnd
  <2>3. CASE endPrimePulse
    <3>1. /\ \A r \in Sched : r # Down(0) => pending'[r] = pending[r]
          /\ action[Down(0)] = PrimeEnd /\ action' = action /\ handler' = handler
          /\ isScheduled' = isScheduled
      BY <2>3, Executed DEF endPrimePulse, PrimeEnd
    <3>2. \A j \in Cylinder : EndPending(j)' <=> EndPending(j)
      BY <3>1 DEF EndPending
    <3>3. handler # None => handler.event \in Cylinder
      BY DEF TypeOK, HandlerCall
    <3>4. \A j \in Cylinder : EndPending(j) => pending'[Down(j)] = pending[Down(j)]
      BY <3>1 DEF EndPending
    <3> QED
      BY <3>1, <3>2, <3>3, <3>4 DEF StartBeforeEnd, EndsMatch, HandlerMatches
  <2> QED
    BY <1>3, <2>1, <2>2, <2>3 DEF Callback
<1> QED
  BY <1>1, <1>2, <1>3, PulsesUnchanged, PulseStutter, PulseBegins, Zenon DEF Next, handleFuel

\* Initially there are no pulses.
LEMMA PulseInit == Init => PulseInv
<1> SUFFICES ASSUME Init PROVE PulseInv
  OBVIOUS
<1>1. TypeOK
  BY TypeInit
<1>2. \A s \in Sched : pending[s] = None
  BY DEF Init
<1> QED
  BY <1>1, <1>2, Records
  DEF Init, PulseInv, StartBeforeEnd, EndsMatch, EndPending, HandlerMatches

\* The swap that the 50 us threshold of handleFuelInjectionEvent is there to prevent:
\* for every engine, the end of a pulse is never executed before its start.
THEOREM EndAfterStart == Spec => []StartBeforeEnd
<1>1. Spec => []PulseInv
  BY PulseInit, PulseNext, PTL DEF Spec
<1>2. PulseInv => StartBeforeEnd
  BY DEF PulseInv
<1> QED
  BY <1>1, <1>2, PTL

-----------------------------------------------------------------------------
(* The priming pulse *)

\* Nobody cranks during the priming pulse, or there is none.
PrimeApart == EngineStartsAfterPrime \/ PrimePulses = {}

\* The engine turns only once the priming pulse is over.
LEMMA TurnsAfterPrime ==
  ASSUME PrimeInv, EngineMayTurn
  PROVE  NoPrimeEnd /\ (EngineStartsAfterPrime => primed)
  BY DEF PrimeInv, PrimeFirst, EngineMayTurn, PrimePulseOver, NoPrimeEnd, PrimeEnd

\* The trigger handler runs only when the engine has turned.
LEMMA TurningNow ==
  ASSUME PrimeInv, handler # None \/ rpm = "valid" \/ \E i \in Cylinder : isScheduled[i]
  PROVE  NoPrimeEnd /\ ~AtRest /\ (EngineStartsAfterPrime => primed)
  BY DEF PrimeInv, PrimeFirst, AtRest

\* The rest of PrimeInv speaks of the pulses, of the engine and of primed.
LEMMA PrimeStutter ==
  ASSUME PrimeInv, UNCHANGED pulses, primed' = primed,
         \/ state' = state /\ rpm' = rpm
         \/ state' = "STOPPED" /\ rpm' = "zero"
         \/ EngineMayTurn
  PROVE  /\ PrimeOnFirst' /\ PrimeFirst' /\ DownNotIgnored'
         /\ (EngineStartsAfterPrime => AtRest \/ primed)'
<1>1. PrimeOnFirst' /\ DownNotIgnored' /\ (NoPrimeEnd' <=> NoPrimeEnd)
  BY DEF PrimeInv, PrimeOnFirst, DownNotIgnored, NoPrimeEnd, pulses
<1>2. CASE EngineMayTurn
  BY <1>1, <1>2, TurnsAfterPrime DEF PrimeFirst
<1>3. CASE ~EngineMayTurn
  <2>1. AtRest => AtRest'
    BY <1>3 DEF AtRest, pulses
  <2> QED
    BY <1>1, <2>1 DEF PrimeInv, PrimeFirst
<1> QED
  BY <1>1, <1>2, <1>3

\* No step takes the closing of a pulse away from an event in use.
LEMMA PrimeNext ==
  ASSUME PrimeApart, PrimeInv, [Next]_vars
  PROVE  PrimeInv'
<1> DEFINE Goal == /\ PrimeOnFirst' /\ PrimeFirst' /\ DownNotIgnored'
                   /\ (EngineStartsAfterPrime => AtRest \/ primed)'
<1> SUFFICES Goal
  BY PulseNext DEF PrimeInv
<1> USE Records
<1>0. PulseInv /\ TypeOK
  BY DEF PrimeInv, PulseInv
<1>1. ASSUME NEW d \in PrimePulses, startPrimeInjectionPulse(d) PROVE Goal
  <2>1. EngineStartsAfterPrime /\ AtRest
    BY <1>1 DEF PrimeApart, PrimeInv, startPrimeInjectionPulse
  <2>2. \A r \in Sched : r # Down(0) => pending'[r] = pending[r] /\ action'[r] = action[r]
    BY <1>0, <1>1, Scheduled DEF startPrimeInjectionPulse
  <2>3. primed' /\ AtRest'
    BY <1>1, <2>1 DEF startPrimeInjectionPulse, AtRest, engine
  <2>4. PrimeOnFirst'
    BY <2>2 DEF PrimeInv, PrimeOnFirst
  <2> QED
    BY <2>1, <2>3, <2>4 DEF PrimeFirst, DownNotIgnored, AtRest
<1>2. CASE Tick \/ handleFuelSkips \/ stopPins \/ UNCHANGED vars
  <2>1. primed' = primed /\ state' = state /\ rpm' = rpm
    BY <1>2 DEF Tick, handleFuelSkips, stopPins, vars, engine
  <2> QED
    BY <1>2, <2>1, PulsesUnchanged, PrimeStutter
<1>3. CASE \/ setSpinningUp \/ assignInstantRpm
           \/ \E r \in {"noisy", "valid"}, reachedRunning \in BOOLEAN : setRpmValue(r, reachedRunning)
  <2>1. primed' = primed /\ EngineMayTurn
    BY <1>3 DEF setSpinningUp, assignInstantRpm, setRpmValue
  <2> QED
    BY <1>3, <2>1, PulsesUnchanged, PrimeStutter
<1>4. CASE setStopped
  <2>1. primed' = primed /\ state' = "STOPPED" /\ rpm' = "zero"
    BY <1>4 DEF setStopped
  <2> QED
    BY <1>4, <2>1, PulsesUnchanged, PrimeStutter
<1>5. ASSUME NEW i \in Cylinder, NEW t \in Timers!Time, NEW d \in Durations, t + d <= TimeBound,
             handleFuelInjectionEvent(i, t, d)
      PROVE  Goal
  <2>1. NoPrimeEnd /\ (EngineStartsAfterPrime => primed)
    BY <1>5, TurningNow DEF handleFuelInjectionEvent
  <2>2. \A r \in Sched : r # Up(i) => pending'[r] = pending[r] /\ action'[r] = action[r]
    BY <1>0, <1>5, Scheduled DEF handleFuelInjectionEvent
  <2>3. /\ \A j \in Cylinder : j # i => isScheduled'[j] = isScheduled[j]
        /\ handler = None /\ handler' # None /\ handler'.event = i /\ primed' = primed
    <3>1. handler' = [event |-> i, turnOffTime |-> t + d,
                      endAction |-> IF isSimultanious'[i] THEN "endSimultaniousInjection"
                                                          ELSE "turnInjectionPinLow"]
          /\ handler = None /\ primed' = primed
          /\ isScheduled' = [isScheduled EXCEPT ![i] = TRUE]
      BY <1>5 DEF handleFuelInjectionEvent
    <3>2. handler' \in HandlerCall
      BY <1>5, <3>1, Constants DEF HandlerCall, Actions, Timers!Time
    <3> QED
      BY <1>0, <3>1, <3>2, NoneAssumption DEF TypeOK
  <2>4. NoPrimeEnd' /\ PrimeOnFirst'
    BY <2>1, <2>2 DEF PrimeInv, NoPrimeEnd, PrimeOnFirst
  <2>5. DownNotIgnored'
    BY <2>2, <2>3 DEF PrimeInv, DownNotIgnored
  <2> QED
    BY <2>1, <2>3, <2>4, <2>5 DEF PrimeFirst
<1>6. CASE scheduleEndOfInjection
  <2>1. PICK e \in Cylinder : handler # None /\ e = handler.event
    BY <1>0, <1>6 DEF scheduleEndOfInjection, TypeOK, HandlerCall
  <2>2. /\ NoPrimeEnd /\ (EngineStartsAfterPrime => primed)
        /\ handler' = None /\ isScheduled' = isScheduled /\ primed' = primed
    BY <1>6, <2>1, TurningNow DEF scheduleEndOfInjection
  <2>3. pending[Down(e)] = None
    BY <1>0, <2>1, <2>2 DEF PulseInv, HandlerMatches, EndPending, NoPrimeEnd, PrimeInv, PrimeOnFirst
  <2>4. handler.endAction \in {"turnInjectionPinLow", "endSimultaniousInjection"}
    BY <1>0, <2>1 DEF PulseInv, HandlerMatches, Paired
  <2>5. handler.turnOffTime # None
    BY <1>0, <2>1, Constants DEF TypeOK, HandlerCall
  <2>6. /\ \A r \in Sched : r # Down(e) => pending'[r] = pending[r] /\ action'[r] = action[r]
        /\ pending'[Down(e)] # None
        /\ action'[Down(e)] \in {"turnInjectionPinLow", "endSimultaniousInjection"}
    BY <1>0, <1>6, <2>1, <2>3, <2>4, <2>5, Scheduled DEF scheduleEndOfInjection
  <2>7. NoPrimeEnd' /\ PrimeOnFirst'
    BY <2>1, <2>2, <2>6 DEF PrimeInv, NoPrimeEnd, PrimeOnFirst, PrimeEnd
  <2>8. DownNotIgnored'
    BY <2>1, <2>2, <2>6 DEF PrimeInv, DownNotIgnored
  <2> QED
    BY <2>2, <2>7, <2>8 DEF PrimeFirst
<1>7. CASE Callback
  <2>1. ASSUME NEW i \in Cylinder, startSimultaniousInjection(i) \/ turnInjectionPinHigh(i)
        PROVE  Goal
    <3>1. /\ \A r \in Sched : r # Up(i) => pending'[r] = pending[r]
          /\ action' = action /\ handler' = handler /\ primed' = primed
          /\ state' = state /\ rpm' = rpm /\ isScheduled' = isScheduled
      BY <1>0, <2>1, Executed DEF startSimultaniousInjection, turnInjectionPinHigh
    <3> QED
      BY <3>1 DEF PrimeInv, PrimeOnFirst, PrimeFirst, NoPrimeEnd, AtRest, DownNotIgnored
  <2>2. ASSUME NEW i \in Cylinder, endSimultaniousInjection(i) \/ turnInjectionPinLow(i)
        PROVE  Goal
    <3>1. /\ \A r \in Sched : r # Down(i) => pending'[r] = pending[r]
          /\ pending'[Down(i)] = None
          /\ action' = action /\ handler' = handler /\ primed' = primed
      BY <1>0, <2>2, Executed DEF endSimultaniousInjection, turnInjectionPinLow
    <3>2. isScheduled' = [isScheduled EXCEPT ![i] = FALSE]
      BY <2>2 DEF endSimultaniousInjection, turnInjectionPinLow
    <3>3. isScheduled[i] /\ (handler # None => handler.event # i)
      BY <1>0, <2>2, <3>2, PulseCloses
      DEF endSimultaniousInjection, turnInjectionPinLow, PrimeEnd, Started
    <3>4. NoPrimeEnd /\ (EngineStartsAfterPrime => primed)
      BY <3>3, TurningNow
    <3>5. NoPrimeEnd' /\ PrimeOnFirst'
      BY <3>1, <3>4 DEF PrimeInv, NoPrimeEnd, PrimeOnFirst
    <3>6. DownNotIgnored'
      BY <1>0, <3>1, <3>2 DEF PrimeInv, DownNotIgnored, TypeOK
    <3> QED
      BY <3>1, <3>4, <3>5, <3>6 DEF PrimeFirst
  <2>3. CASE endPrimePulse
    <3>1. /\ \A r \in Sched : r # Down(0) => pending'[r] = pending[r]
          /\ pending[Down(0)] # None /\ action[Down(0)] = PrimeEnd
          /\ action' = action /\ handler' = handler /\ primed' = primed
          /\ state' = state /\ rpm' = rpm /\ isScheduled' = isScheduled
      BY <1>0, <2>3, Executed DEF endPrimePulse, PrimeEnd
    <3>2. EngineStartsAfterPrime /\ AtRest
      BY <3>1 DEF PrimeInv, PrimeFirst, NoPrimeEnd
    <3>3. PrimeOnFirst'
      BY <3>1 DEF PrimeInv, PrimeOnFirst
    <3> QED
      BY <3>1, <3>2, <3>3 DEF PrimeFirst, AtRest, DownNotIgnored
  <2> QED
    BY <1>7, <2>1, <2>2, <2>3 DEF Callback
<1> QED
  BY <1>1, <1>2, <1>3, <1>4, <1>5, <1>6, <1>7, Zenon DEF Next, handleFuel

\* event_registry.h promises that no closing callback is ignored.  It holds of every
\* engine on which nobody cranks during the priming pulse; on one where somebody does,
\* the priming pulse may hold the record of the first event's closing.
THEOREM ClosingIsScheduled ==
  ASSUME PrimeApart
  PROVE  Spec => []DownNotIgnored
<1>1. Init => PrimeInv
  <2> SUFFICES ASSUME Init PROVE PrimeInv
    OBVIOUS
  <2>1. PulseInv
    BY PulseInit
  <2> QED
    BY <2>1, Records
    DEF Init, PrimeInv, PrimeOnFirst, PrimeFirst, NoPrimeEnd, AtRest, DownNotIgnored
<1>2. PrimeInv /\ [Next]_vars => PrimeInv'
  BY PrimeNext
<1>3. PrimeInv => DownNotIgnored
  BY DEF PrimeInv
<1> QED
  BY <1>1, <1>2, <1>3, PTL DEF Spec

-----------------------------------------------------------------------------
(* The outputs of an event under way *)

\* Rebuilding prepares the events of es for the current mode and leaves the others alone.
LEMMA Rebuilt ==
  ASSUME TypeOK, NEW es, NEW st, NEW r, addFuelEventsForCylinders(es, st, r)
  PROVE  /\ r = "valid" => \A i \in Cylinder : i \in es =>
              /\ outputs'[i] = outputsOf(getCurrentInjectionMode(st, r), i)
              /\ isSimultanious'[i] <=> getCurrentInjectionMode(st, r) = "SIMULTANEOUS"
         /\ \A i \in Cylinder : i \notin es \/ r # "valid" =>
              outputs'[i] = outputs[i] /\ (isSimultanious'[i] <=> isSimultanious[i])
<1> DEFINE mode == getCurrentInjectionMode(st, r)
<1>1. r = "valid" =>
        /\ outputs' = [i \in Cylinder |-> IF i \in es THEN outputsOf(mode, i) ELSE outputs[i]]
        /\ isSimultanious' = [i \in Cylinder |->
             IF i \in es THEN mode = "SIMULTANEOUS" ELSE isSimultanious[i]]
  BY Zenon DEF addFuelEventsForCylinders
<1>2. r # "valid" => outputs' = outputs /\ isSimultanious' = isSimultanious
  BY DEF addFuelEventsForCylinders
<1> HIDE DEF mode
<1>3. r = "valid" => \A i \in Cylinder : i \in es =>
        outputs'[i] = outputsOf(mode, i) /\ (isSimultanious'[i] <=> mode = "SIMULTANEOUS")
  BY <1>1, Zenon
<1>4. \A i \in Cylinder : i \notin es \/ r # "valid" =>
        outputs'[i] = outputs[i] /\ (isSimultanious'[i] <=> isSimultanious[i])
  BY <1>1, <1>2, Zenon
<1> QED
  BY <1>3, <1>4 DEF mode

\* Without spinning up or with one mode, cranking alone decides which mode is current.
LEMMA ModeNow ==
  ASSUME ModesAgree, NEW st, NEW r, isFasterEngineSpinUpEnabled \/ st # "SPINNING_UP"
  PROVE  getCurrentInjectionMode(st, r) =
           IF st = "CRANKING" THEN crankingInjectionMode ELSE injectionMode
  BY DEF ModesAgree, getCurrentInjectionMode, isCranking

\* What refreshSchedule leaves to the trigger handler: every event is prepared, and an
\* individual pulse under way keeps its injectors.
LEMMA Refreshed ==
  ASSUME ModesAgree, OutputInv, rpm = "valid", refreshSchedule
  PROVE  /\ \A i \in Cylinder : PreparedFor(i, injectionMode)' \/ PreparedFor(i, crankingInjectionMode)'
         /\ \A i \in Cylinder : Individual(i) => outputs'[i] = outputsOf(injectionMode, i)
         /\ crankingInjectionMode # injectionMode /\ state = "CRANKING" =>
              \A i \in Cylinder : isSimultanious'[i]
<1>1. CASE isReady /\ UNCHANGED schedule
  BY <1>1 DEF OutputInv, OutputsHeld, ScheduleKnown, CrankingApart, PreparedFor, schedule
<1>2. CASE addFuelEvents(state, rpm)
  <2> DEFINE mode == IF state = "CRANKING" THEN crankingInjectionMode ELSE injectionMode
  <2>1. mode = getCurrentInjectionMode(state, rpm)
    BY ModeNow DEF OutputInv, StateKnown
  <2>2. \A i \in Cylinder : /\ outputs'[i] = outputsOf(mode, i)
                            /\ isSimultanious'[i] <=> mode = "SIMULTANEOUS"
    BY <1>2, <2>1, Rebuilt DEF addFuelEvents, OutputInv, PulseInv
  <2>3. mode # injectionMode => mode = "SIMULTANEOUS" /\ \A i \in Cylinder : ~Individual(i)
    BY DEF ModesAgree, OutputInv, CrankingApart
  <2>4. mode \in {injectionMode, crankingInjectionMode}
    OBVIOUS
  <2>5. crankingInjectionMode # injectionMode /\ state = "CRANKING" => mode # injectionMode
    OBVIOUS
  <2> HIDE DEF mode
  <2> QED
    BY <2>2, <2>3, <2>4, <2>5 DEF PreparedFor
<1> QED
  BY <1>1, <1>2 DEF refreshSchedule

\* The parts of OutputInv that are not about pulses.
OutputGoal == OutputsHeld /\ ScheduleKnown /\ StateKnown /\ CrankingApart /\ OneKind

\* Steps that change neither the schedule, nor the engine, nor what is opened.
LEMMA OutputStutter ==
  ASSUME OutputInv, UNCHANGED <<schedule, engine, isScheduled>>,
         \A i \in Cylinder : action'[Up(i)] = action[Up(i)]
  PROVE  OutputGoal'
<1>1. \A i \in Cylinder : /\ Individual(i)' <=> Individual(i)
                          /\ isScheduled'[i] <=> isScheduled[i]
  BY DEF Individual
<1> QED
  BY <1>1 DEF OutputInv, OutputGoal, OutputsHeld, ScheduleKnown, PreparedFor, StateKnown,
              CrankingApart, OneKind, schedule, engine

\* The engine changes state: RpmCalculator::setRpmValue.
LEMMA OutputRpm ==
  ASSUME ModesAgree, OutputInv, NEW r \in {"noisy", "valid"}, NEW reachedRunning \in BOOLEAN,
         setRpmValue(r, reachedRunning)
  PROVE  OutputGoal'
<1>1. UNCHANGED <<pending, action, isScheduled, handler>>
  BY PulsesUnchanged DEF pulses
<1>2. \A i \in Cylinder : /\ Individual(i)' <=> Individual(i)
                          /\ isScheduled'[i] <=> isScheduled[i]
  BY <1>1 DEF Individual
<1>3. OneKind'
  BY <1>2 DEF OutputInv, OneKind
<1>4. rpm' = r /\ state' \in {"RUNNING", "CRANKING"} /\ StateKnown'
  BY DEF setRpmValue, StateKnown
<1>5. /\ state' = "CRANKING" => /\ state # "RUNNING"
                                /\ r = "noisy" \/ (state = "CRANKING" /\ isReady)
                                   \/ \A i \in Cylinder : ~Individual(i)
      /\ state' = "RUNNING" /\ state # "RUNNING" => r = "valid"
  BY DEF setRpmValue, CrankingAnew, Individual
<1>6. CASE state' = state
  <2>1. UNCHANGED schedule
    BY <1>6 DEF setRpmValue
  <2>2. OutputsHeld' /\ ScheduleKnown'
    BY <2>1, <1>2 DEF OutputInv, OutputsHeld, ScheduleKnown, PreparedFor, schedule
  <2>3. CrankingApart'
    BY <1>2, <1>4, <1>5, <1>6, <2>1 DEF OutputInv, CrankingApart, schedule
  <2> QED
    BY <2>2, <2>3, <1>3, <1>4 DEF OutputGoal
<1>7. CASE state' # state
  <2> DEFINE mode == IF state' = "CRANKING" THEN crankingInjectionMode ELSE injectionMode
  <2>1. addFuelEvents(state', r)
    BY <1>7 DEF setRpmValue
  <2>2. mode = getCurrentInjectionMode(state', r)
    BY ModeNow, <1>4
  <2>3. /\ r = "valid" => \A i \in Cylinder : /\ outputs'[i] = outputsOf(mode, i)
                                              /\ isSimultanious'[i] <=> mode = "SIMULTANEOUS"
        /\ r # "valid" => \A i \in Cylinder : outputs'[i] = outputs[i]
        /\ isReady' <=> r = "valid"
    <3>1. addFuelEventsForCylinders(Cylinder, state', r) /\ (isReady' <=> r = "valid")
      BY <2>1, Zenon DEF addFuelEvents
    <3> QED
      BY <2>2, <3>1, Rebuilt DEF OutputInv, PulseInv
  <2>4. mode # injectionMode => /\ mode = "SIMULTANEOUS"
                                /\ r = "valid" => \A i \in Cylinder : ~Individual(i)
    BY <1>5, <1>7 DEF ModesAgree
  <2>5. mode \in {injectionMode, crankingInjectionMode}
    OBVIOUS
  <2>6. crankingInjectionMode # injectionMode /\ state' = "CRANKING" => mode # injectionMode
    OBVIOUS
  <2> HIDE DEF mode
  <2>7. OutputsHeld'
    BY <2>3, <2>4, <1>2 DEF OutputInv, OutputsHeld
  <2>8. ScheduleKnown'
    BY <2>3, <2>5 DEF ScheduleKnown, PreparedFor
  <2>9. CrankingApart'
    BY <1>2, <1>4, <2>3, <2>4, <2>6 DEF CrankingApart
  <2> QED
    BY <2>7, <2>8, <2>9, <1>3, <1>4 DEF OutputGoal
<1> QED
  BY <1>6, <1>7

\* The trigger handler schedules a pulse.
LEMMA OutputBegins ==
  ASSUME ModesAgree, OutputInv, NEW i \in Cylinder, NEW t \in Timers!Time, NEW d \in Durations,
         handleFuelInjectionEvent(i, t, d)
  PROVE  OutputGoal'
<1> USE Records
<1>0. PulseInv /\ TypeOK
  BY DEF OutputInv, PulseInv
<1>1. /\ \A j \in Cylinder : PreparedFor(j, injectionMode)' \/ PreparedFor(j, crankingInjectionMode)'
      /\ \A j \in Cylinder : Individual(j) => outputs'[j] = outputsOf(injectionMode, j)
      /\ crankingInjectionMode # injectionMode /\ state = "CRANKING" =>
           \A j \in Cylinder : isSimultanious'[j]
  BY Refreshed DEF handleFuelInjectionEvent
<1>2. pending[Up(i)] = None /\ ~isScheduled[i]
  BY <1>0 DEF handleFuelInjectionEvent, PulseInv, StartBeforeEnd
<1>3. /\ \A j \in Cylinder : j # i => action'[Up(j)] = action[Up(j)]
      /\ action'[Up(i)] =
           IF isSimultanious'[i] THEN "startSimultaniousInjection" ELSE "turnInjectionPinHigh"
  BY <1>0, <1>2, Scheduled DEF handleFuelInjectionEvent
<1>4. /\ isScheduled'[i] /\ \A j \in Cylinder : j # i => isScheduled'[j] = isScheduled[j]
      /\ state' = state /\ rpm' = rpm /\ rpm = "valid"
  BY <1>0 DEF handleFuelInjectionEvent, TypeOK, engine
<1>5. /\ \A j \in Cylinder : j # i => (Individual(j)' <=> Individual(j))
      /\ Individual(i)' <=> ~isSimultanious'[i]
  BY <1>3, <1>4 DEF Individual
<1>6. OutputsHeld'
  BY <1>1, <1>5 DEF OutputsHeld, PreparedFor, ModesAgree
<1>7. ScheduleKnown' /\ StateKnown'
  BY <1>1, <1>4 DEF OutputInv, ScheduleKnown, StateKnown
<1>8. CrankingApart'
  BY <1>1, <1>4, <1>5 DEF OutputInv, CrankingApart
<1>9. OneKind'
  BY <1>1, <1>4, <1>5 DEF OutputInv, OneKind, PreparedFor
<1> QED
  BY <1>6, <1>7, <1>8, <1>9 DEF OutputGoal

\* The end of a pulse prepares its event for the next one.
LEMMA OutputEnds ==
  ASSUME ModesAgree, OutputInv, NEW i \in Cylinder,
         action' = action, isReady' = isReady, state' = state, rpm' = rpm,
         isScheduled' = [isScheduled EXCEPT ![i] = FALSE],
         addFuelEventsForCylinders({i}, state, rpm)
  PROVE  OutputGoal'
<1> DEFINE mode == IF state = "CRANKING" THEN crankingInjectionMode ELSE injectionMode
<1>0. TypeOK
  BY DEF OutputInv, PulseInv
<1>1. mode = getCurrentInjectionMode(state, rpm)
  BY ModeNow DEF OutputInv, StateKnown
<1>2. /\ rpm = "valid" => /\ outputs'[i] = outputsOf(mode, i)
                          /\ isSimultanious'[i] <=> mode = "SIMULTANEOUS"
      /\ rpm # "valid" => outputs'[i] = outputs[i] /\ (isSimultanious'[i] <=> isSimultanious[i])
      /\ \A j \in Cylinder : j # i =>
           outputs'[j] = outputs[j] /\ (isSimultanious'[j] <=> isSimultanious[j])
  BY <1>0, <1>1, Rebuilt
<1>3. ~isScheduled'[i] /\ \A j \in Cylinder : j # i => isScheduled'[j] = isScheduled[j]
  BY <1>0 DEF TypeOK
<1>4. /\ \A j \in Cylinder : j # i => (Individual(j)' <=> Individual(j))
      /\ ~Individual(i)'
  BY <1>3 DEF Individual
<1>5. mode \in {injectionMode, crankingInjectionMode}
  OBVIOUS
<1>6. crankingInjectionMode # injectionMode /\ state = "CRANKING" => mode = "SIMULTANEOUS"
  BY DEF ModesAgree
<1> HIDE DEF mode
<1>7. OutputsHeld' /\ StateKnown' /\ OneKind'
  BY <1>2, <1>3, <1>4 DEF OutputInv, OutputsHeld, StateKnown, OneKind
<1>8. ScheduleKnown'
  BY <1>2, <1>5 DEF OutputInv, ScheduleKnown, PreparedFor
<1>9. CrankingApart'
  BY <1>2, <1>4, <1>6 DEF OutputInv, CrankingApart
<1> QED
  BY <1>7, <1>8, <1>9 DEF OutputGoal

\* An individual pulse keeps its injectors whatever the engine does.
LEMMA OutputNext ==
  ASSUME ModesAgree, OutputInv, [Next]_vars
  PROVE  OutputInv'
<1> SUFFICES OutputGoal'
  BY PulseNext DEF OutputInv, OutputGoal
<1> USE Records
<1>0. PulseInv /\ TypeOK
  BY DEF OutputInv, PulseInv
<1>1. ASSUME \/ Tick \/ stopPins \/ UNCHANGED vars \/ scheduleEndOfInjection \/ endPrimePulse
             \/ \E d \in PrimePulses : startPrimeInjectionPulse(d)
             \/ \E i \in Cylinder : startSimultaniousInjection(i) \/ turnInjectionPinHigh(i)
      PROVE  OutputGoal'
  <2>1. UNCHANGED <<schedule, engine, isScheduled>>
    BY <1>1 DEF Tick, stopPins, vars, scheduleEndOfInjection, endPrimePulse,
       startPrimeInjectionPulse, startSimultaniousInjection, turnInjectionPinHigh, Execute
  <2>2. CASE scheduleEndOfInjection
    <3>1. PICK e \in Cylinder : handler # None /\ e = handler.event
      BY <1>0, <2>2 DEF scheduleEndOfInjection, TypeOK, HandlerCall
    <3>2. \A r \in Sched : r # Down(e) => action'[r] = action[r]
      BY <1>0, <2>2, <3>1, Scheduled DEF scheduleEndOfInjection
    <3> QED
      BY <2>1, <3>1, <3>2, OutputStutter
  <2>3. ASSUME NEW d \in PrimePulses, startPrimeInjectionPulse(d) PROVE OutputGoal'
    <3>1. \A r \in Sched : r # Down(0) => action'[r] = action[r]
      BY <1>0, <2>3, Scheduled DEF startPrimeInjectionPulse
    <3> QED
      BY <2>1, <3>1, OutputStutter
  <2>4. CASE \/ Tick \/ stopPins \/ UNCHANGED vars \/ endPrimePulse
             \/ \E i \in Cylinder : startSimultaniousInjection(i) \/ turnInjectionPinHigh(i)
    <3>1. action' = action
      BY <2>4 DEF Tick, stopPins, vars, timers, endPrimePulse, startSimultaniousInjection,
         turnInjectionPinHigh, Execute
    <3> QED
      BY <2>1, <3>1, OutputStutter
  <2> QED
    BY <1>1, <2>2, <2>3, <2>4
<1>2. CASE setSpinningUp \/ assignInstantRpm \/ setStopped
  <2>1. UNCHANGED <<schedule, action, isScheduled>>
    BY <1>2 DEF setSpinningUp, assignInstantRpm, setStopped, timers
  <2>2. \A i \in Cylinder : /\ Individual(i)' <=> Individual(i)
                            /\ isScheduled'[i] <=> isScheduled[i]
    BY <2>1 DEF Individual
  <2>3. OutputsHeld' /\ ScheduleKnown' /\ OneKind'
    BY <2>1, <2>2 DEF OutputInv, OutputsHeld, ScheduleKnown, PreparedFor, OneKind, schedule
  <2>4. StateKnown' /\ (state' = "CRANKING" => UNCHANGED engine)
    BY <1>2 DEF OutputInv, StateKnown, setSpinningUp, assignInstantRpm, setStopped
  <2>5. CrankingApart'
    BY <2>1, <2>2, <2>4 DEF OutputInv, CrankingApart, schedule, engine
  <2> QED
    BY <2>3, <2>4, <2>5 DEF OutputGoal
<1>3. CASE handleFuelSkips
  <2>1. /\ \A j \in Cylinder : PreparedFor(j, injectionMode)' \/ PreparedFor(j, crankingInjectionMode)'
        /\ \A j \in Cylinder : Individual(j) => outputs'[j] = outputsOf(injectionMode, j)
        /\ crankingInjectionMode # injectionMode /\ state = "CRANKING" =>
             \A j \in Cylinder : isSimultanious'[j]
    BY <1>3, Refreshed DEF handleFuelSkips
  <2>2. UNCHANGED <<action, isScheduled, state, rpm>> /\ rpm = "valid"
    BY <1>3 DEF handleFuelSkips, timers, engine
  <2>3. \A i \in Cylinder : /\ Individual(i)' <=> Individual(i)
                            /\ isScheduled'[i] <=> isScheduled[i]
    BY <2>2 DEF Individual
  <2>4. OutputsHeld' /\ ScheduleKnown' /\ StateKnown' /\ OneKind'
    BY <2>1, <2>2, <2>3 DEF OutputInv, OutputsHeld, ScheduleKnown, StateKnown, OneKind
  <2>5. CrankingApart'
    BY <2>1, <2>2, <2>3 DEF OutputInv, CrankingApart
  <2> QED
    BY <2>4, <2>5 DEF OutputGoal
<1>4. ASSUME NEW i \in Cylinder, endSimultaniousInjection(i) \/ turnInjectionPinLow(i)
      PROVE  OutputGoal'
  <2>1. action' = action /\ state' = state /\ rpm' = rpm /\ isReady' = isReady
    BY <1>4 DEF endSimultaniousInjection, turnInjectionPinLow, Execute, engine
  <2>2. /\ isScheduled' = [isScheduled EXCEPT ![i] = FALSE]
        /\ addFuelEventsForCylinders({i}, state, rpm)
    BY <1>4 DEF endSimultaniousInjection, turnInjectionPinLow
  <2> QED
    BY <2>1, <2>2, OutputEnds
<1> QED
  BY <1>1, <1>2, <1>3, <1>4, OutputRpm, OutputBegins, Zenon DEF Next, handleFuel, Callback

-----------------------------------------------------------------------------
(* Counting the pulses of an injector *)

\* An individual pulse of event i is under way; the events with one on injector o.
Counted(i) == Started(i) /\ action[Up(i)] = "turnInjectionPinHigh"
OnInjector(o) == {i \in Cylinder : Counted(i) /\ o \in outputs[i]}

CountInv == OutputInv /\ CounterCountsPulses

CountByCardinality ==
  /\ CounterCountsPulses <=> \A o \in Cylinder : overlappingCounter[o] = Cardinality(OnInjector(o))
  /\ \A o : IsFiniteSet(OnInjector(o)) /\ Cardinality(OnInjector(o)) \in Nat

\* The counters count the sets OnInjector, which are finite.
LEMMA CounterIsCardinality == CountByCardinality
<1>1. \A o : OnInjector(o) = {i \in Cylinder : /\ Started(i)
                                               /\ action[Up(i)] = "turnInjectionPinHigh"
                                               /\ o \in outputs[i]}
  BY DEF OnInjector, Counted
<1>2. IsFiniteSet(Cylinder)
  BY FS_Interval, Constants DEF Cylinder
<1>3. \A o : OnInjector(o) \in SUBSET Cylinder
  BY DEF OnInjector
<1>4. \A o : IsFiniteSet(OnInjector(o))
  BY <1>2, <1>3, FS_Subset
<1>5. \A o : Cardinality(OnInjector(o)) \in Nat
  BY <1>4, FS_CardinalityType
<1>6. CounterCountsPulses <=> \A o \in Cylinder : overlappingCounter[o] = Cardinality(OnInjector(o))
  BY <1>1 DEF CounterCountsPulses
<1> QED
  BY <1>4, <1>5, <1>6 DEF CountByCardinality

\* The same in the next state.
LEMMA CounterIsCardinalityNext == CountByCardinality'
  BY CounterIsCardinality, PTL

\* A counted event is individual, so its outputs stay the same.
LEMMA CountStutter ==
  ASSUME CountInv, OutputInv', overlappingCounter' = overlappingCounter,
         \A i \in Cylinder : Counted(i)' <=> Counted(i)
  PROVE  CounterCountsPulses'
<1>1. \A i \in Cylinder : Counted(i) => outputs'[i] = outputs[i]
  BY DEF CountInv, OutputInv, OutputsHeld, Individual, Counted, Started
<1>2. \A o : OnInjector(o)' = OnInjector(o)
  BY <1>1 DEF OnInjector
<1> QED
  BY <1>2, CounterIsCardinality, CounterIsCardinalityNext DEF CountByCardinality, CountInv

\* Opening the injectors of event i counts one pulse more on each of them.
LEMMA CountOpens ==
  ASSUME CountInv, NEW i \in Cylinder, turnInjectionPinHigh(i)
  PROVE  CounterCountsPulses'
<1> USE Records
<1>0. PulseInv /\ TypeOK
  BY DEF CountInv, OutputInv, PulseInv
<1>1. /\ \A r \in Sched : r # Up(i) => pending'[r] = pending[r]
      /\ pending[Up(i)] # None /\ pending'[Up(i)] = None
      /\ action' = action /\ action[Up(i)] = "turnInjectionPinHigh"
  BY <1>0, Executed DEF turnInjectionPinHigh
<1>2. isScheduled' = isScheduled /\ isScheduled[i] /\ outputs' = outputs
  BY <1>0, <1>1 DEF PulseInv, StartBeforeEnd, turnInjectionPinHigh, schedule
<1>3. ~Counted(i) /\ \A j \in Cylinder : Counted(j)' <=> Counted(j) \/ j = i
  BY <1>1, <1>2 DEF Counted, Started
<1>4. \A o \in Cylinder : overlappingCounter'[o] =
         overlappingCounter[o] + (IF o \in outputs[i] THEN 1 ELSE 0)
  BY DEF turnInjectionPinHigh
<1>5. ASSUME NEW o \in Cylinder
      PROVE  overlappingCounter'[o] = Cardinality(OnInjector(o)')
  <2>1. /\ overlappingCounter[o] = Cardinality(OnInjector(o))
        /\ IsFiniteSet(OnInjector(o)) /\ Cardinality(OnInjector(o)) \in Nat
    BY CounterIsCardinality DEF CountByCardinality, CountInv
  <2>2. i \notin OnInjector(o)
    BY <1>3 DEF OnInjector
  <2>3. CASE o \in outputs[i]
    <3>1. OnInjector(o)' = OnInjector(o) \cup {i}
      BY <1>2, <1>3, <2>3 DEF OnInjector
    <3>2. Cardinality(OnInjector(o) \cup {i}) = Cardinality(OnInjector(o)) + 1
      BY <2>1, <2>2, FS_AddElement
    <3> QED
      BY <1>4, <2>1, <2>3, <3>1, <3>2
  <2>4. CASE o \notin outputs[i]
    <3>1. OnInjector(o)' = OnInjector(o)
      BY <1>2, <1>3, <2>4 DEF OnInjector
    <3> QED
      BY <1>4, <2>1, <2>4, <3>1
  <2> QED
    BY <2>3, <2>4
<1> QED
  BY <1>5, CounterIsCardinalityNext DEF CountByCardinality

\* Closing the injectors of event i counts one pulse less on each of them.
LEMMA CountCloses ==
  ASSUME CountInv, OutputInv', NEW i \in Cylinder, turnInjectionPinLow(i)
  PROVE  CounterCountsPulses'
<1> USE Records
<1>0. PulseInv /\ TypeOK
  BY DEF CountInv, OutputInv, PulseInv
<1>1. /\ \A r \in Sched : r # Down(i) => pending'[r] = pending[r]
      /\ action' = action
  BY <1>0, Executed DEF turnInjectionPinLow
<1>2. Started(i) /\ Paired(action[Up(i)], "turnInjectionPinLow")
  BY <1>0, PulseCloses DEF turnInjectionPinLow, PrimeEnd
<1>3. Counted(i)
  BY <1>2 DEF Counted, Paired
<1>4. ~isScheduled'[i] /\ \A j \in Cylinder : j # i => isScheduled'[j] = isScheduled[j]
  BY <1>0 DEF turnInjectionPinLow, TypeOK
<1>5. \A j \in Cylinder : Counted(j)' <=> Counted(j) /\ j # i
  BY <1>1, <1>4 DEF Counted, Started
<1>6. \A j \in Cylinder : j # i /\ Counted(j) => outputs'[j] = outputs[j]
  BY <1>5 DEF CountInv, OutputInv, OutputsHeld, Individual, Counted, Started
<1>7. \A o \in Cylinder : overlappingCounter'[o] =
         overlappingCounter[o] - (IF o \in outputs[i] THEN 1 ELSE 0)
  BY DEF turnInjectionPinLow
<1>8. ASSUME NEW o \in Cylinder
      PROVE  overlappingCounter'[o] = Cardinality(OnInjector(o)')
  <2>1. /\ overlappingCounter[o] = Cardinality(OnInjector(o))
        /\ IsFiniteSet(OnInjector(o)) /\ Cardinality(OnInjector(o)) \in Nat
    BY CounterIsCardinality DEF CountByCardinality, CountInv
  <2>2. OnInjector(o)' = OnInjector(o) \ {i}
    BY <1>5, <1>6 DEF OnInjector
  <2>3. Cardinality(OnInjector(o) \ {i}) =
          IF i \in OnInjector(o) THEN Cardinality(OnInjector(o)) - 1 ELSE Cardinality(OnInjector(o))
    BY <2>1, FS_RemoveElement
  <2>4. i \in OnInjector(o) <=> o \in outputs[i]
    BY <1>3 DEF OnInjector
  <2> QED
    BY <1>7, <2>1, <2>2, <2>3, <2>4
<1> QED
  BY <1>8, CounterIsCardinalityNext DEF CountByCardinality

\* Every step keeps the counters right.
LEMMA CountNext ==
  ASSUME ModesAgree, CountInv, [Next]_vars
  PROVE  CountInv'
<1>0. OutputInv' /\ PulseInv /\ TypeOK
  BY OutputNext DEF CountInv, OutputInv, PulseInv
<1> SUFFICES CounterCountsPulses'
  BY <1>0 DEF CountInv
<1> USE Records
<1>1. CASE \/ Tick \/ setSpinningUp \/ assignInstantRpm \/ setStopped \/ handleFuelSkips
           \/ \E r \in {"noisy", "valid"}, reachedRunning \in BOOLEAN : setRpmValue(r, reachedRunning)
           \/ stopPins \/ UNCHANGED vars
  <2>1. overlappingCounter' = overlappingCounter
    BY <1>1 DEF Tick, setSpinningUp, assignInstantRpm, setStopped, handleFuelSkips, setRpmValue,
       stopPins, vars, injectors
  <2>2. UNCHANGED <<pending, action, isScheduled>>
    BY <1>1, PulsesUnchanged DEF pulses
  <2> QED
    BY <1>0, <2>1, <2>2, CountStutter DEF Counted, Started
<1>2. ASSUME NEW d \in PrimePulses, startPrimeInjectionPulse(d) PROVE CounterCountsPulses'
  <2>1. \A r \in Sched : r # Down(0) => pending'[r] = pending[r] /\ action'[r] = action[r]
    BY <1>0, <1>2, Scheduled DEF startPrimeInjectionPulse
  <2>2. overlappingCounter' = overlappingCounter /\ isScheduled' = isScheduled
    BY <1>2 DEF startPrimeInjectionPulse
  <2> QED
    BY <1>0, <2>1, <2>2, CountStutter DEF Counted, Started
<1>3. ASSUME NEW i \in Cylinder, NEW t \in Timers!Time, NEW d \in Durations,
             handleFuelInjectionEvent(i, t, d)
      PROVE  CounterCountsPulses'
  <2>1. pending[Up(i)] = None /\ ~isScheduled[i]
    BY <1>0, <1>3 DEF handleFuelInjectionEvent, PulseInv, StartBeforeEnd
  <2>2. /\ \A r \in Sched : r # Up(i) => pending'[r] = pending[r] /\ action'[r] = action[r]
        /\ pending'[Up(i)] = t
    BY <1>0, <1>3, <2>1, Scheduled DEF handleFuelInjectionEvent
  <2>3. /\ \A j \in Cylinder : j # i => isScheduled'[j] = isScheduled[j]
        /\ overlappingCounter' = overlappingCounter
    BY <1>0, <1>3 DEF handleFuelInjectionEvent, TypeOK, injectors
  <2>4. t # None
    BY Constants DEF Timers!Time
  <2>5. \A j \in Cylinder : Counted(j)' <=> Counted(j)
    BY <2>1, <2>2, <2>3, <2>4 DEF Counted, Started
  <2> QED
    BY <1>0, <2>3, <2>5, CountStutter
<1>4. CASE scheduleEndOfInjection
  <2>1. PICK e \in Cylinder : handler # None /\ e = handler.event
    BY <1>0, <1>4 DEF scheduleEndOfInjection, TypeOK, HandlerCall
  <2>2. \A r \in Sched : r # Down(e) => pending'[r] = pending[r] /\ action'[r] = action[r]
    BY <1>0, <1>4, <2>1, Scheduled DEF scheduleEndOfInjection
  <2>3. overlappingCounter' = overlappingCounter /\ isScheduled' = isScheduled
    BY <1>4 DEF scheduleEndOfInjection, injectors
  <2>4. \A j \in Cylinder : Counted(j)' <=> Counted(j)
    BY <2>1, <2>2, <2>3 DEF Counted, Started
  <2> QED
    BY <1>0, <2>3, <2>4, CountStutter
<1>5. ASSUME NEW i \in Cylinder, startSimultaniousInjection(i) PROVE CounterCountsPulses'
  <2>1. /\ \A r \in Sched : r # Up(i) => pending'[r] = pending[r]
        /\ action' = action /\ action[Up(i)] = "startSimultaniousInjection"
    BY <1>0, <1>5, Executed DEF startSimultaniousInjection
  <2>2. overlappingCounter' = overlappingCounter /\ isScheduled' = isScheduled
    BY <1>5 DEF startSimultaniousInjection
  <2>3. \A j \in Cylinder : Counted(j)' <=> Counted(j)
    BY <2>1, <2>2 DEF Counted, Started
  <2> QED
    BY <1>0, <2>2, <2>3, CountStutter
<1>6. ASSUME NEW i \in Cylinder, endSimultaniousInjection(i) PROVE CounterCountsPulses'
  <2>1. /\ \A r \in Sched : r # Down(i) => pending'[r] = pending[r]
        /\ action' = action
    BY <1>0, <1>6, Executed DEF endSimultaniousInjection
  <2>2. Paired(action[Up(i)], "endSimultaniousInjection")
    BY <1>0, <1>6, PulseCloses DEF endSimultaniousInjection, PrimeEnd
  <2>3. /\ overlappingCounter' = overlappingCounter
        /\ \A j \in Cylinder : j # i => isScheduled'[j] = isScheduled[j]
    BY <1>0, <1>6 DEF endSimultaniousInjection, TypeOK
  <2>4. \A j \in Cylinder : Counted(j)' <=> Counted(j)
    BY <2>1, <2>2, <2>3 DEF Counted, Started, Paired
  <2> QED
    BY <1>0, <2>3, <2>4, CountStutter
<1>7. CASE endPrimePulse
  <2>1. /\ \A r \in Sched : r # Down(0) => pending'[r] = pending[r]
        /\ action' = action
    BY <1>0, <1>7, Executed DEF endPrimePulse
  <2>2. overlappingCounter' = overlappingCounter /\ isScheduled' = isScheduled
    BY <1>7 DEF endPrimePulse
  <2> QED
    BY <1>0, <2>1, <2>2, CountStutter DEF Counted, Started
<1> QED
  BY <1>0, <1>1, <1>2, <1>3, <1>4, <1>5, <1>6, <1>7, CountOpens, CountCloses, Zenon
  DEF Next, handleFuel, Callback

\* Initially nothing is counted.
LEMMA CountInit == Init => CountInv
<1> SUFFICES ASSUME Init PROVE CountInv
  OBVIOUS
<1>1. PulseInv /\ \A i \in Cylinder : ~Individual(i) /\ ~isScheduled[i]
  BY PulseInit DEF Init, Individual
<1>2. OutputInv
  BY <1>1 DEF Init, OutputInv, OutputsHeld, ScheduleKnown, StateKnown, CrankingApart, OneKind
<1>3. \A o : OnInjector(o) = {}
  BY <1>1 DEF OnInjector, Counted, Started
<1>4. \A o \in Cylinder : overlappingCounter[o] = 0
  BY DEF Init
<1> QED
  BY <1>2, <1>3, <1>4, CounterIsCardinality, FS_EmptySet DEF CountByCardinality, CountInv

\* The counters of InjectorOutputPin::open and close are right for every number of
\* cylinders and pulses: each counts the individual pulses under way on its injector,
\* if the schedules of cranking and running agree on them.
THEOREM CountersCount ==
  ASSUME ModesAgree
  PROVE  Spec => []CounterCountsPulses
<1>1. CountInv /\ [Next]_vars => CountInv'
  BY CountNext
<1>2. CountInv => CounterCountsPulses
  BY DEF CountInv
<1> QED
  BY <1>1, <1>2, CountInit, PTL DEF Spec

\* With one injection mode the end of a pulse never cuts short another one: the
\* closing callback that closes an injector is that of its last pulse.
THEOREM LastPulseCloses ==
  ASSUME crankingInjectionMode = injectionMode
  PROVE  Spec => ClosesLast
<1> DEFINE Closes == \A o \in Cylinder :
             pin[o] /\ ~pin'[o] /\ isScheduled' # isScheduled => overlappingCounter'[o] = 0
<1>0. ModesAgree
  BY DEF ModesAgree
<1>1. ASSUME CountInv, [Next]_vars PROVE [Closes]_vars
  <2>0. CountInv' /\ PulseInv /\ TypeOK
    BY <1>0, <1>1, CountNext DEF CountInv, OutputInv, PulseInv
  <2>1. \A o \in Cylinder : overlappingCounter'[o] \in Nat
    BY <2>0, CounterIsCardinalityNext DEF CountByCardinality, CountInv
  <2>2. ASSUME NEW i \in Cylinder, turnInjectionPinLow(i), NEW o \in Cylinder,
               pin[o], ~pin'[o]
        PROVE  overlappingCounter'[o] = 0
    <3>1. overlappingCounter'[o] <= 0
      BY <2>2 DEF turnInjectionPinLow
    <3> QED
      BY <2>1, <3>1
  <2>3. ASSUME NEW i \in Cylinder, endSimultaniousInjection(i), NEW o \in Cylinder
        PROVE  overlappingCounter'[o] = 0
    <3>1. Started(i) /\ Paired(action[Up(i)], "endSimultaniousInjection")
      BY <2>0, <2>3, PulseCloses DEF endSimultaniousInjection, PrimeEnd
    <3>2. injectionMode = "SIMULTANEOUS"
      BY <1>1, <3>1 DEF Started, Paired, Individual, CountInv, OutputInv, OneKind
    <3>3. \A j \in Cylinder : ~Individual(j)'
      BY <2>0, <3>2 DEF CountInv, OutputInv, OneKind, Individual
    <3>4. OnInjector(o)' = {}
      BY <3>3 DEF OnInjector, Counted, Started, Individual
    <3> QED
      BY <2>0, <3>4, FS_EmptySet, CounterIsCardinalityNext DEF CountByCardinality, CountInv
  <2>4. \/ UNCHANGED isScheduled \/ UNCHANGED pin
        \/ \E i \in Cylinder : endSimultaniousInjection(i) \/ turnInjectionPinLow(i)
    BY <1>1 DEF Next, Tick, startPrimeInjectionPulse, setSpinningUp, assignInstantRpm, setRpmValue,
       setStopped, handleFuel, handleFuelInjectionEvent, handleFuelSkips, scheduleEndOfInjection,
       Callback, startSimultaniousInjection, turnInjectionPinHigh, endPrimePulse, stopPins, vars,
       injectors
  <2> QED
    BY <2>2, <2>3, <2>4, Zenon
<1>2. CountInv /\ [Next]_vars => CountInv'
  BY <1>0, CountNext
<1>3. Spec => []CountInv
  BY <1>2, CountInit, PTL DEF Spec
<1>4. ClosesLast <=> [][Closes]_vars
  BY DEF ClosesLast
<1> HIDE DEF Closes
<1> QED
  BY <1>1, <1>3, <1>4, PTL DEF Spec
=============================================================================
