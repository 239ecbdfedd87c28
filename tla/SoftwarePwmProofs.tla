-------------------------- MODULE SoftwarePwmProofs --------------------------
(***************************************************************************)
(* Proofs about SoftwarePwm for every set of periods and duty cycles and   *)
(* every limit.                                                            *)
(***************************************************************************)
EXTENDS SoftwarePwm, TLAPS

Preparing == {"init", "reset", "callback"}
Calling == {"cycle", "toggle", "schedule"}

\* How deep callbacks nest: a fatal error leaves at most one more level to come.
NestingInv ==
    /\ starter.pc \in Calling => dbgNestingLevel >= 1
    /\ ~fatal => dbgNestingLevel < NESTING_LIMIT
    /\ fatal /\ starter.pc \in Preparing \cup Calling =>
         dbgNestingLevel <= NESTING_LIMIT /\ (due # None => dbgNestingLevel < NESTING_LIMIT)
    /\ due # None => dbgNestingLevel <= NESTING_LIMIT

Running == safe.periodNt \in Periods

\* A period that was not read yet is read by the next callback.
PeriodInv ==
    /\ ~Running => safe.phaseIndex = 0 /\ safe.iteration <= 0
    /\ Running => safe.iteration >= 0
    /\ starter.pc # "idle" => periodNt \in Periods
    /\ safe.phaseIndex = 1 => safe.iteration < ITERATION_LIMIT

\* No time passes while startSimplePwm runs: the callbacks that come in between count one
\* iteration at most, and the thread another one.
StartInv ==
    /\ starter.pc \in {"toggle", "schedule"} => Running
    /\ starter.pc \in {"callback", "cycle", "toggle"} /\ Running =>
         /\ safe.elapsed = 0 /\ safe.periodNt = periodNt
         /\ \/ safe.iteration = 0
            \/ safe.iteration = 1 /\ safe.phaseIndex = 0 /\ due >= safe.periodNt
    /\ starter.pc = "schedule" =>
         /\ safe.elapsed = 0 /\ safe.periodNt = periodNt
         /\ \/ safe.iteration <= 1
            \/ safe.iteration = 2 /\ safe.phaseIndex = 0 /\ due >= safe.periodNt
         /\ starter.value \in 0..2 * safe.periodNt

\* The callback comes no earlier than a period before the iteration that it counts begins.
PaceInv ==
    Running => safe.iteration * safe.periodNt <=
                 safe.elapsed + safe.periodNt + (IF due > 0 THEN due ELSE 0)

\* The duty cycle that a thread is about to set.
ValueInv ==
    /\ setter.pc # "idle" => setter.value \in Duties
    /\ starter.pc = "init" => starter.value \in Duties

PwmInv == TypeOK /\ ValueInv /\ NestingInv /\ PeriodInv /\ StartInv /\ PaceInv /\ Alive /\ NextToggleSoon

-----------------------------------------------------------------------------
(* The operators of the callback *)

SafeType == [periodNt : Periods \cup {0, -1}, iteration : -1..ITERATION_LIMIT,
             phaseIndex : 0..phaseCount - 1, elapsed : Nat]

\* A switch time lies within its period.
LEMMA SwitchInPeriod ==
    ASSUME NEW a \in 0..RESOLUTION, NEW p \in Nat
    PROVE  (a * p) \div RESOLUTION \in 0..p
<1> DEFINE q == (a * p) \div RESOLUTION
<1>1. RESOLUTION \in Nat /\ RESOLUTION > 0 /\ a \in Nat /\ a <= RESOLUTION
  BY PwmAssumption
<1>2. a * p \in Nat /\ a * p <= RESOLUTION * p
  BY <1>1
<1>3. q \in Int /\ RESOLUTION * q <= a * p /\ a * p < RESOLUTION * q + RESOLUTION
  BY <1>1, <1>2
<1> HIDE DEF q
<1>4. q <= p
  <2>1. SUFFICES ASSUME q >= p + 1 PROVE FALSE
    BY <1>3
  <2>2. RESOLUTION * q >= RESOLUTION * (p + 1)
    BY <1>1, <1>3, <2>1
  <2>3. RESOLUTION * (p + 1) = RESOLUTION * p + RESOLUTION
    BY <1>1
  <2> QED BY <1>1, <1>2, <1>3, <2>2, <2>3
<1>5. q >= 0
  <2>1. SUFFICES ASSUME q <= -1 PROVE FALSE
    BY <1>3
  <2>2. RESOLUTION * q <= RESOLUTION * (-1)
    BY <1>1, <1>3, <2>1
  <2> QED BY <1>1, <1>2, <1>3, <2>2
<1> QED
  BY <1>3, <1>4, <1>5 DEF q

\* What the callback schedules and counts: the next toggle lies in the iteration it counts,
\* and the count goes up with a toggle at the end of the period.
LEMMA NextPhase ==
    ASSUME TypeOK, NEW sf \in SafeType, sf.periodNt \in Periods, sf.iteration < ITERATION_LIMIT
    PROVE  /\ nextPhase(sf) \in SafeType
           /\ nextPhase(sf).periodNt = sf.periodNt /\ nextPhase(sf).elapsed = sf.elapsed
           /\ \E x \in 0..sf.periodNt :
                /\ getNextSwitchTimeNt(sf) = sf.iteration * sf.periodNt - sf.elapsed + x
                /\ \/ nextPhase(sf).iteration = sf.iteration /\ nextPhase(sf).phaseIndex = 1
                   \/ /\ nextPhase(sf).iteration = sf.iteration + 1 /\ nextPhase(sf).phaseIndex = 0
                      /\ x = sf.periodNt
<1> DEFINE x == IF mode = "PM_NORMAL" /\ sf.phaseIndex = 0
                THEN (switchTime * sf.periodNt) \div RESOLUTION ELSE sf.periodNt
<1>1. sf.periodNt \in Nat /\ switchTime \in 0..RESOLUTION /\ ITERATION_LIMIT \in Nat
  BY PwmAssumption DEF TypeOK
<1>2. x \in 0..sf.periodNt
  BY <1>1, SwitchInPeriod
<1>3. getNextSwitchTimeNt(sf) = sf.iteration * sf.periodNt - sf.elapsed + x
  BY DEF getNextSwitchTimeNt
<1>4. CASE mode = "PM_NORMAL" /\ sf.phaseIndex = 0
  <2>1. nextPhase(sf) = [sf EXCEPT !.phaseIndex = @ + 1]
    BY <1>4 DEF nextPhase, phaseCount
  <2>2. /\ nextPhase(sf) \in SafeType /\ nextPhase(sf).periodNt = sf.periodNt
        /\ nextPhase(sf).elapsed = sf.elapsed
        /\ nextPhase(sf).iteration = sf.iteration /\ nextPhase(sf).phaseIndex = 1
    BY <1>4, <2>1 DEF SafeType, phaseCount
  <2> QED BY <1>2, <1>3, <2>2
<1>5. CASE ~(mode = "PM_NORMAL" /\ sf.phaseIndex = 0)
  <2>0. sf.phaseIndex + 1 = phaseCount \/ mode # "PM_NORMAL"
    BY <1>5 DEF phaseCount, SafeType
  <2>1. nextPhase(sf) = [sf EXCEPT !.phaseIndex = 0, !.iteration = @ + 1]
    BY <2>0 DEF nextPhase
  <2>2. sf.iteration + 1 \in -1..ITERATION_LIMIT
    BY <1>1 DEF SafeType
  <2>3. 0 \in 0..phaseCount - 1
    BY DEF phaseCount
  <2>4. nextPhase(sf) \in SafeType
    BY <2>1, <2>2, <2>3 DEF SafeType
  <2>5. /\ nextPhase(sf).periodNt = sf.periodNt /\ nextPhase(sf).elapsed = sf.elapsed
        /\ nextPhase(sf).iteration = sf.iteration + 1 /\ nextPhase(sf).phaseIndex = 0
    BY <2>1 DEF SafeType
  <2>6. x = sf.periodNt
    BY <1>5
  <2> QED BY <1>2, <1>3, <2>4, <2>5, <2>6
<1> QED
  BY <1>4, <1>5

\* handleCycleStart either starts over, with the period set last, or goes on.
LEMMA CycleStart ==
    ASSUME TypeOK, periodNt \in Periods, NEW sf \in SafeType
    PROVE  /\ cycleStart(sf) \in SafeType /\ cycleStart(sf).phaseIndex = sf.phaseIndex
           /\ cycleStart(sf).periodNt = periodNt
           /\ \/ cycleStart(sf).elapsed = 0 /\ cycleStart(sf).iteration = 0
              \/ sf.periodNt = periodNt /\ sf.iteration # ITERATION_LIMIT /\ cycleStart(sf) = sf
<1>1. CASE sf.periodNt # periodNt \/ sf.iteration = ITERATION_LIMIT
  <2>1. cycleStart(sf) = [sf EXCEPT !.elapsed = 0, !.iteration = 0, !.periodNt = periodNt]
    BY <1>1 DEF cycleStart
  <2>2. 0 \in -1..ITERATION_LIMIT
    BY PwmAssumption
  <2>3. periodNt \in Periods \cup {0, -1} /\ 0 \in Nat
    OBVIOUS
  <2>4. cycleStart(sf) \in SafeType
    BY <2>1, <2>2, <2>3 DEF SafeType
  <2>5. /\ cycleStart(sf).phaseIndex = sf.phaseIndex /\ cycleStart(sf).periodNt = periodNt
        /\ cycleStart(sf).elapsed = 0 /\ cycleStart(sf).iteration = 0
    BY <2>1 DEF SafeType
  <2> QED BY <2>4, <2>5
<1>2. CASE ~(sf.periodNt # periodNt \/ sf.iteration = ITERATION_LIMIT)
  BY <1>2 DEF cycleStart
<1> QED
  BY <1>1, <1>2

\* The state that the callback toggles from.
Ready == IF startingIndex(safe).phaseIndex = 0 THEN cycleStart(startingIndex(safe)) ELSE startingIndex(safe)

\* Where the next toggle starts from: a new period, or the running one.
LEMMA ReadyToToggle ==
    ASSUME TypeOK, PeriodInv, periodNt \in Periods
    PROVE  /\ Ready \in SafeType /\ Ready.periodNt \in Periods
           /\ Ready.iteration \in 0..ITERATION_LIMIT - 1
           /\ \/ Ready.elapsed = 0 /\ Ready.iteration = 0 /\ Ready.periodNt = periodNt
              \/ /\ Running /\ Ready.periodNt = safe.periodNt
                 /\ Ready.iteration = safe.iteration /\ Ready.elapsed = safe.elapsed
<1> DEFINE at == startingIndex(safe)
<1>1. /\ at \in SafeType /\ at.iteration = safe.iteration /\ at.elapsed = safe.elapsed
      /\ at.periodNt = safe.periodNt /\ at.phaseIndex \in {0, safe.phaseIndex}
  BY DEF TypeOK, SafeType, startingIndex, phaseCount
<1>2. ITERATION_LIMIT \in Nat /\ ITERATION_LIMIT > 1
  BY PwmAssumption
<1>3. CASE at.phaseIndex = 0
  <2>1. Ready = cycleStart(at)
    BY <1>3 DEF Ready
  <2> HIDE DEF at
  <2>2. /\ cycleStart(at) \in SafeType /\ cycleStart(at).periodNt = periodNt
        /\ \/ cycleStart(at).elapsed = 0 /\ cycleStart(at).iteration = 0
           \/ at.periodNt = periodNt /\ at.iteration # ITERATION_LIMIT /\ cycleStart(at) = at
    BY <1>1, CycleStart
  <2>3. CASE cycleStart(at).elapsed = 0 /\ cycleStart(at).iteration = 0
    BY <1>2, <2>1, <2>2, <2>3
  <2>4. CASE at.periodNt = periodNt /\ at.iteration # ITERATION_LIMIT /\ cycleStart(at) = at
    BY <1>1, <1>2, <2>1, <2>2, <2>4 DEF PeriodInv, Running, SafeType
  <2> QED BY <2>2, <2>3, <2>4
<1>4. CASE at.phaseIndex # 0
  <2>1. Ready = at
    BY <1>4 DEF Ready
  <2> HIDE DEF at
  <2>2. safe.phaseIndex = 1
    BY <1>1, <1>4 DEF TypeOK, phaseCount
  <2>3. Running /\ safe.iteration >= 0 /\ safe.iteration < ITERATION_LIMIT
    BY <2>2 DEF PeriodInv
  <2> QED BY <1>1, <1>2, <2>1, <2>3 DEF SafeType, Running
<1> QED
  BY <1>3, <1>4

\* The longest period is one, and none is longer.
LEMMA Longest ==
    LongestPeriod \in Nat /\ \A p \in Periods : p <= LongestPeriod
<1>1. LongestPeriod \in Periods /\ \A p \in Periods : p <= LongestPeriod
  BY PwmAssumption DEF LongestPeriod
<1> QED
  BY <1>1, PwmAssumption

-----------------------------------------------------------------------------
(* The steps of the interrupt and of the clock *)

\* Time passes: the next toggle comes nearer.
LEMMA TickStep ==
    ASSUME PwmInv, Tick PROVE PwmInv'
<1> USE DEF PwmInv
<1>1. /\ UNCHANGED <<periodNt, mode, switchTime, requested, isStopRequested, dbgNestingLevel, pin, fatal, starter, setter,
                     started, stops>>
      /\ starter.pc = "idle"
      /\ due = None \/ due > -MaxLag
      /\ due' = IF due = None THEN None ELSE due - 1
      /\ safe' = [safe EXCEPT !.elapsed = IF @ < ElapsedCap THEN @ + 1 ELSE @]
  BY DEF Tick, settings
<1>2. MaxLag \in 0..99 /\ None = -100
  BY PwmAssumption DEF None
<1>3. safe \in SafeType /\ safe.elapsed \in Nat
  BY DEF TypeOK, SafeType
<1>4. (due' = None <=> due = None) /\ (due # None => due' \in Int /\ due' = due - 1 /\ due' >= -MaxLag)
  BY <1>1, <1>2 DEF TypeOK
<1>5. ElapsedCap \in Nat /\ (Running => ElapsedCap >= safe.iteration * safe.periodNt)
  <2>1. CASE Running
    <3>1. safe.periodNt \in Nat /\ safe.iteration \in Int /\ ITERATION_LIMIT \in Nat
          /\ safe.iteration <= ITERATION_LIMIT + 1
      BY <2>1, <1>3, PwmAssumption DEF SafeType, Running
    <3>2. ElapsedCap = (ITERATION_LIMIT + 1) * safe.periodNt
      BY <2>1 DEF Running, ElapsedCap
    <3> QED BY <3>1, <3>2
  <2>2. CASE ~Running
    BY <2>2 DEF Running, ElapsedCap
  <2> QED BY <2>1, <2>2
<1>6. /\ safe' \in SafeType /\ safe'.periodNt = safe.periodNt /\ safe'.iteration = safe.iteration
      /\ safe'.phaseIndex = safe.phaseIndex
      /\ safe'.elapsed = IF safe.elapsed < ElapsedCap THEN safe.elapsed + 1 ELSE safe.elapsed
  <2>1. (IF safe.elapsed < ElapsedCap THEN safe.elapsed + 1 ELSE safe.elapsed) \in Nat
    BY <1>3
  <2> QED BY <1>1, <1>3, <2>1 DEF SafeType
<1>7. TypeOK' /\ ValueInv'
  <2>1. due' = None \/ (due' \in Int /\ due' >= -MaxLag)
    BY <1>4
  <2> QED BY <1>1, <1>6, <2>1, Zenon DEF TypeOK, ValueInv, SafeType
<1>8. NestingInv'
  BY <1>1, <1>4 DEF NestingInv
<1>9. PeriodInv' /\ StartInv'
  BY <1>1, <1>6 DEF PeriodInv, StartInv, Running
<1>10. PaceInv'
  <2> SUFFICES ASSUME Running
               PROVE  safe.iteration * safe.periodNt <=
                        safe'.elapsed + safe.periodNt + (IF due' > 0 THEN due' ELSE 0)
    BY <1>6 DEF PaceInv, Running
  <2>1. safe.periodNt \in Nat /\ safe.iteration \in Int
    BY <1>3, PwmAssumption DEF SafeType, Running
  <2>2. safe.iteration * safe.periodNt \in Int
    BY <2>1
  <2>3. safe.iteration * safe.periodNt <= safe.elapsed + safe.periodNt + (IF due > 0 THEN due ELSE 0)
    BY DEF PaceInv
  <2>4. safe.iteration * safe.periodNt <= ElapsedCap
    BY <1>5
  <2>5. CASE due = None
    BY <1>2, <1>3, <1>4, <1>5, <1>6, <2>1, <2>2, <2>3, <2>5
  <2>6. CASE due # None
    <3>1. due \in Int /\ due' = due - 1
      BY <1>4, <2>6 DEF TypeOK
    <3> QED BY <1>3, <1>5, <1>6, <2>1, <2>2, <2>3, <2>4, <3>1
  <2> QED BY <2>5, <2>6
<1>11. Alive'
  BY <1>1, <1>4 DEF Alive
<1>12. NextToggleSoon'
  BY <1>1, <1>2, <1>4, Longest, PwmAssumption DEF NextToggleSoon, TypeOK
<1> QED
  BY <1>7, <1>8, <1>9, <1>10, <1>11, <1>12

\* The callback goes on: it toggles the pin and schedules itself again.
LEMMA ToggleStep ==
    ASSUME PwmInv, due # None, due <= 0, dbgNestingLevel + 1 < NESTING_LIMIT, periodNt \in Periods,
           pin' = stateChange(Ready), safe' = nextPhase(Ready),
           due' = (IF getNextSwitchTimeNt(Ready) < 0 THEN 0 ELSE getNextSwitchTimeNt(Ready)),
           UNCHANGED <<periodNt, mode, switchTime, requested, isStopRequested, dbgNestingLevel, fatal, starter, setter,
                       started, stops>>
    PROVE  PwmInv'
<1> USE DEF PwmInv
<1>1. /\ Ready \in SafeType /\ Ready.periodNt \in Periods
      /\ Ready.iteration \in 0..ITERATION_LIMIT - 1
      /\ \/ Ready.elapsed = 0 /\ Ready.iteration = 0 /\ Ready.periodNt = periodNt
         \/ /\ Running /\ Ready.periodNt = safe.periodNt
            /\ Ready.iteration = safe.iteration /\ Ready.elapsed = safe.elapsed
  BY ReadyToToggle
<1>2. /\ Ready.periodNt \in Nat /\ Ready.periodNt > 0 /\ Ready.elapsed \in Nat /\ Ready.iteration \in Nat
      /\ ITERATION_LIMIT \in Nat /\ ITERATION_LIMIT > 1 /\ Ready.iteration < ITERATION_LIMIT
      /\ due \in Int
  BY <1>1, PwmAssumption DEF SafeType, TypeOK
<1>3. /\ safe' \in SafeType /\ safe'.periodNt = Ready.periodNt /\ safe'.elapsed = Ready.elapsed
      /\ \E x \in 0..Ready.periodNt :
           /\ getNextSwitchTimeNt(Ready) = Ready.iteration * Ready.periodNt - Ready.elapsed + x
           /\ \/ safe'.iteration = Ready.iteration /\ safe'.phaseIndex = 1
              \/ safe'.iteration = Ready.iteration + 1 /\ safe'.phaseIndex = 0 /\ x = Ready.periodNt
  BY <1>1, <1>2, NextPhase
<1>4. PICK x \in 0..Ready.periodNt :
           /\ getNextSwitchTimeNt(Ready) = Ready.iteration * Ready.periodNt - Ready.elapsed + x
           /\ \/ safe'.iteration = Ready.iteration /\ safe'.phaseIndex = 1
              \/ safe'.iteration = Ready.iteration + 1 /\ safe'.phaseIndex = 0 /\ x = Ready.periodNt
  BY <1>3
<1>5. PICK base \in Int : base = Ready.iteration * Ready.periodNt
  BY <1>2
<1>6. base <= Ready.elapsed + Ready.periodNt
  <2>1. CASE Ready.elapsed = 0 /\ Ready.iteration = 0
    BY <1>2, <1>5, <2>1
  <2>2. CASE Running /\ Ready.periodNt = safe.periodNt
             /\ Ready.iteration = safe.iteration /\ Ready.elapsed = safe.elapsed
    BY <1>2, <1>5, <2>2 DEF PaceInv
  <2> QED BY <1>1, <2>1, <2>2
<1>7. /\ due' \in Int /\ due' >= 0 /\ due' >= base - Ready.elapsed + x /\ due' <= 2 * Ready.periodNt
  BY <1>2, <1>4, <1>5, <1>6
<1>8. due' # None /\ 0 >= -MaxLag /\ MaxLag \in Nat
  BY <1>7, PwmAssumption DEF None
<1>9. Running'
  BY <1>1, <1>3 DEF Running
<1>10. TypeOK' /\ ValueInv'
  <2>1. due' = None \/ (due' \in Int /\ due' >= -MaxLag)
    BY <1>7, <1>8
  <2>2. pin' \in BOOLEAN
    BY DEF stateChange
  <2> QED BY <1>3, <2>1, <2>2, Zenon DEF TypeOK, ValueInv, SafeType
<1>11. NestingInv' /\ Alive'
  BY <1>8 DEF NestingInv, Alive
<1>12. PeriodInv'
  BY <1>2, <1>4, <1>9 DEF PeriodInv
<1>13. PaceInv'
  <2>1. safe'.iteration * safe'.periodNt <= Ready.elapsed + Ready.periodNt + due'
    <3>1. CASE safe'.iteration = Ready.iteration
      BY <1>2, <1>3, <1>5, <1>6, <1>7, <3>1
    <3>2. CASE safe'.iteration = Ready.iteration + 1 /\ x = Ready.periodNt
      <4>1. (Ready.iteration + 1) * Ready.periodNt = base + Ready.periodNt
        BY <1>2, <1>5
      <4> QED BY <1>2, <1>3, <1>7, <3>2, <4>1
    <3> QED BY <1>4, <3>1, <3>2
  <2>2. (IF due' > 0 THEN due' ELSE 0) = due'
    BY <1>7
  <2> QED BY <1>3, <2>1, <2>2 DEF PaceInv
<1>14. ASSUME starter.pc \in {"callback", "cycle", "toggle"}
       PROVE  /\ safe'.elapsed = 0 /\ safe'.periodNt = periodNt
              /\ \/ safe'.iteration = 0
                 \/ safe'.iteration = 1 /\ safe'.phaseIndex = 0 /\ due' >= safe'.periodNt
  <2>1. Running => /\ safe.elapsed = 0 /\ safe.periodNt = periodNt
                   /\ safe.iteration = 0 \/ due >= safe.periodNt
    BY <1>14 DEF StartInv
  <2>2. Ready.elapsed = 0 /\ Ready.periodNt = periodNt /\ Ready.iteration = 0
    BY <1>1, <1>2, <2>1
  <2>3. base = 0
    BY <1>2, <1>5, <2>2
  <2> QED BY <1>2, <1>3, <1>4, <1>7, <2>2, <2>3
<1>15. ASSUME starter.pc = "schedule"
       PROVE  /\ safe'.elapsed = 0 /\ safe'.periodNt = periodNt
              /\ \/ safe'.iteration <= 1
                 \/ safe'.iteration = 2 /\ safe'.phaseIndex = 0 /\ due' >= safe'.periodNt
              /\ starter.value \in 0..2 * safe'.periodNt
  <2>1. /\ Running /\ safe.elapsed = 0 /\ safe.periodNt = periodNt
        /\ safe.iteration <= 1 \/ due >= safe.periodNt
        /\ starter.value \in 0..2 * safe.periodNt
    BY <1>15 DEF StartInv
  <2>2. Ready.elapsed = 0 /\ Ready.periodNt = periodNt /\ Ready.iteration <= 1
    BY <1>1, <1>2, <2>1
  <2>3. base >= 0
    BY <1>2, <1>5
  <2> QED BY <1>2, <1>3, <1>4, <1>7, <2>1, <2>2, <2>3
<1>16. StartInv'
  BY <1>9, <1>14, <1>15 DEF StartInv
<1>17. NextToggleSoon'
  BY <1>1, <1>2, <1>7, Longest DEF NextToggleSoon
<1> QED
  BY <1>10, <1>11, <1>12, <1>13, <1>16, <1>17

\* The timer callback toggles the pin and schedules the next toggle.
LEMMA CallbackStep ==
    ASSUME PwmInv, timerCallback PROVE PwmInv'
<1> USE DEF PwmInv
<1>1. /\ due # None /\ due <= 0
      /\ UNCHANGED <<periodNt, mode, switchTime, requested, isStopRequested, starter, setter, started, stops>>
  BY DEF timerCallback, settings
<1>n. /\ MaxLag \in 0..99 /\ NESTING_LIMIT \in Nat /\ NAN_FREQUENCY_SLEEP_PERIOD \in Nat /\ None = -100
      /\ due \in Int /\ dbgNestingLevel \in Nat
  BY <1>1, PwmAssumption DEF None, TypeOK
<1>2. CASE /\ due' = None /\ dbgNestingLevel' = dbgNestingLevel + 1 /\ UNCHANGED <<safe, pin>>
           /\ \/ dbgNestingLevel + 1 >= NESTING_LIMIT /\ fatal' = TRUE
              \/ dbgNestingLevel + 1 < NESTING_LIMIT /\ isStopRequested /\ fatal' = fatal
  <2>1. dbgNestingLevel' \in 0..NESTING_LIMIT + 1
    BY <1>1, <1>2, <1>n DEF NestingInv
  <2>2. fatal' \in BOOLEAN
    BY <1>2 DEF TypeOK
  <2>3. TypeOK' /\ ValueInv'
    BY <1>1, <1>2, <2>1, <2>2, ZenonT(60) DEF TypeOK, ValueInv
  <2>4. NestingInv'
    BY <1>1, <1>2, <1>n DEF NestingInv, Preparing, Calling
  <2>5. PeriodInv'
    BY <1>1, <1>2 DEF PeriodInv, Running
  <2>6. StartInv'
    <3>1. Running => safe.periodNt \in Nat /\ safe.periodNt > 0
      BY PwmAssumption DEF Running
    <3> QED BY <1>1, <1>2, <1>n, <3>1 DEF StartInv, Running
  <2>7. PaceInv' /\ NextToggleSoon'
    BY <1>1, <1>2, <1>n DEF PaceInv, NextToggleSoon, Running
  <2>8. Alive'
    BY <1>1, <1>2 DEF Alive
  <2> QED BY <2>3, <2>4, <2>5, <2>6, <2>7, <2>8
<1>3. CASE dbgNestingLevel + 1 < NESTING_LIMIT /\ ~isStopRequested /\ periodNt = NaN /\ pause
  <2>1. /\ due' = NAN_FREQUENCY_SLEEP_PERIOD /\ due' # None /\ due' \in Nat /\ pin' = FALSE
        /\ UNCHANGED <<dbgNestingLevel, safe, fatal>>
    BY <1>3, <1>n DEF pause
  <2>2. due' = None \/ (due' \in Int /\ due' >= -MaxLag)
    BY <1>n, <2>1
  <2>3. TypeOK' /\ ValueInv'
    BY <1>1, <2>1, <2>2, Zenon DEF TypeOK, ValueInv
  <2>4. NestingInv' /\ Alive'
    BY <1>1, <1>3, <1>n, <2>1 DEF NestingInv, Alive
  <2>5. PeriodInv'
    BY <1>1, <2>1 DEF PeriodInv, Running
  <2>6. starter.pc = "idle"
    BY <1>3, PwmAssumption DEF PeriodInv, NaN
  <2>7. StartInv'
    BY <1>1, <2>6 DEF StartInv
  <2>8. PaceInv'
    <3> SUFFICES ASSUME Running
                 PROVE safe.iteration * safe.periodNt <=
                         safe.elapsed + safe.periodNt + (IF due' > 0 THEN due' ELSE 0)
      BY <2>1 DEF PaceInv, Running
    <3>1. safe.iteration \in Int /\ safe.periodNt \in Nat /\ safe.elapsed \in Nat
      BY PwmAssumption DEF TypeOK, Running
    <3>2. safe.iteration * safe.periodNt \in Int
      BY <3>1
    <3>3. safe.iteration * safe.periodNt <= safe.elapsed + safe.periodNt + 0
      <4>1. (IF due > 0 THEN due ELSE 0) = 0
        BY <1>1, <1>n
      <4> QED BY <4>1 DEF PaceInv
    <3> QED BY <2>1, <3>1, <3>2, <3>3
  <2>9. NextToggleSoon'
    BY <1>n, <2>1 DEF NextToggleSoon
  <2> QED BY <2>3, <2>4, <2>5, <2>7, <2>8, <2>9
<1>4. CASE /\ dbgNestingLevel + 1 < NESTING_LIMIT /\ ~isStopRequested /\ periodNt # NaN
           /\ pin' = stateChange(Ready) /\ safe' = nextPhase(Ready)
           /\ due' = (IF getNextSwitchTimeNt(Ready) < 0 THEN 0 ELSE getNextSwitchTimeNt(Ready))
           /\ UNCHANGED <<dbgNestingLevel, fatal>>
  <2>1. periodNt \in Periods
    BY <1>4 DEF TypeOK
  <2> QED BY <1>1, <1>4, <2>1, ToggleStep
<1> QED
  BY <1>2, <1>3, <1>4 DEF timerCallback, Ready

-----------------------------------------------------------------------------
(* The steps of the threads *)

\* The setters and stop, from other threads.
LEMMA SetterStep ==
    ASSUME PwmInv,
           \/ \E duty \in Duties : setSimplePwmDutyCycle(duty)
           \/ setMode \/ setSwitchTime
           \/ \E period \in Periods \cup {NaN} : setFrequency(period)
           \/ stop
    PROVE  PwmInv'
<1> USE DEF PwmInv
<1>i. Idle \in [pc : {"idle", "mode", "time"}, value : Duties \cup {None}] /\ Idle.pc = "idle"
  BY DEF Idle
<1>1. UNCHANGED <<dbgNestingLevel, safe, due, fatal, starter, started>>
  BY DEF setSimplePwmDutyCycle, setMode, setSwitchTime, setFrequency, stop, state
<1>2. periodNt' = periodNt \/ (starter.pc = "idle" /\ periodNt' \in Periods \cup {NaN})
  BY DEF setSimplePwmDutyCycle, setMode, setSwitchTime, setFrequency, stop, settings
<1>3. isStopRequested' = isStopRequested \/ isStopRequested'
  BY DEF setSimplePwmDutyCycle, setMode, setSwitchTime, setFrequency, stop, state
<1>4. NestingInv' /\ PaceInv' /\ NextToggleSoon'
  BY <1>1 DEF NestingInv, PaceInv, NextToggleSoon, Running
<1>5. PeriodInv' /\ StartInv'
  BY <1>1, <1>2 DEF PeriodInv, StartInv, Running
<1>6. Alive'
  BY <1>1, <1>3 DEF Alive
<1>7. ValueInv' /\ setter' \in [pc : {"idle", "mode", "time"}, value : Duties \cup {None}]
  <2>1. ASSUME NEW duty \in Duties, setSimplePwmDutyCycle(duty)
        PROVE  ValueInv' /\ setter' \in [pc : {"idle", "mode", "time"}, value : Duties \cup {None}]
    BY <1>1, <2>1 DEF setSimplePwmDutyCycle, ValueInv
  <2>2. CASE setMode
    <3>1. setter' = Idle \/ setter' = [setter EXCEPT !.pc = "time"]
      BY <2>2 DEF setMode
    <3>2. setter.value \in Duties
      BY <2>2 DEF setMode, ValueInv
    <3> QED BY <1>1, <1>i, <3>1, <3>2 DEF ValueInv, TypeOK
  <2>3. CASE setSwitchTime
    BY <1>1, <1>i, <2>3 DEF setSwitchTime, ValueInv
  <2>4. CASE setter' = setter
    BY <1>1, <2>4 DEF ValueInv, TypeOK
  <2> QED BY <2>1, <2>2, <2>3, <2>4 DEF setFrequency, stop
<1>8. /\ mode' \in {"PM_ZERO", "PM_NORMAL", "PM_FULL"} /\ switchTime' \in Duties \cup {0}
      /\ requested' \in Duties \cup {None}
  <2>1. CASE setMode
    BY <2>1 DEF setMode, modeOf, ValueInv, TypeOK
  <2>2. CASE setSwitchTime
    BY <2>2 DEF setSwitchTime, ValueInv, TypeOK
  <2>3. CASE UNCHANGED <<mode, switchTime, requested>>
    BY <2>3 DEF TypeOK
  <2> QED BY <2>1, <2>2, <2>3 DEF setSimplePwmDutyCycle, setFrequency, stop, settings
<1>9. periodNt' \in Periods \cup {NaN}
  BY <1>2 DEF TypeOK
<1>10. pin' \in BOOLEAN /\ isStopRequested' \in BOOLEAN
  BY Zenon DEF setSimplePwmDutyCycle, setMode, setSwitchTime, setFrequency, stop, state, TypeOK
<1>11. TypeOK'
  BY <1>1, <1>7, <1>8, <1>9, <1>10, Zenon DEF TypeOK
<1> QED
  BY <1>4, <1>5, <1>6, <1>7, <1>11

StarterType == [pc : {"idle", "init", "reset", "callback", "cycle", "toggle", "schedule"}, value : Int]

\* startSimplePwm up to its first callback.
LEMMA PrepareStep ==
    ASSUME PwmInv,
           \/ \E period \in Periods, duty \in Duties : startSimplePwm(period, duty)
           \/ weComplexInit \/ resetSafe
    PROVE  PwmInv'
<1> USE DEF PwmInv
<1>d. Duties \subseteq Int /\ None \in Int /\ -1 \notin Periods
  BY PwmAssumption DEF None
<1>1. ASSUME NEW period \in Periods, NEW duty \in Duties, startSimplePwm(period, duty) PROVE PwmInv'
  <2>1. /\ UNCHANGED <<isStopRequested, dbgNestingLevel, safe, due, fatal, setter, started>>
        /\ starter' = [pc |-> "init", value |-> duty] /\ ~fatal /\ periodNt' = period
    BY <1>1 DEF startSimplePwm
  <2>2. /\ mode' \in {"PM_ZERO", "PM_NORMAL", "PM_FULL"} /\ switchTime' \in Duties \cup {0}
        /\ requested' \in Duties \cup {None}
    BY <1>1 DEF startSimplePwm, modeOf, TypeOK
  <2>3. pin' \in BOOLEAN
    BY <1>1, Zenon DEF startSimplePwm, TypeOK
  <2>4. starter' \in StarterType
    BY <1>d, <2>1 DEF StarterType
  <2>5. periodNt' \in Periods \cup {NaN}
    BY <2>1
  <2>6. TypeOK'
    BY <2>1, <2>2, <2>3, <2>4, <2>5, Zenon DEF TypeOK, StarterType
  <2>7. ValueInv' /\ NestingInv' /\ PeriodInv' /\ Alive'
    BY <2>1 DEF ValueInv, NestingInv, Preparing, Calling, PeriodInv, Running, Alive
  <2>8. StartInv' /\ PaceInv' /\ NextToggleSoon'
    BY <2>1 DEF StartInv, PaceInv, Running, NextToggleSoon
  <2> QED BY <2>6, <2>7, <2>8
<1>2. CASE weComplexInit
  <2>1. /\ UNCHANGED <<periodNt, mode, requested, dbgNestingLevel, safe, due, pin, setter>>
        /\ starter' = [pc |-> "reset", value |-> None] /\ starter.pc = "init"
        /\ isStopRequested' = FALSE /\ switchTime' = starter.value /\ started' = TRUE
        /\ fatal => fatal'
    BY <1>2 DEF weComplexInit
  <2>2. starter' \in StarterType /\ switchTime' \in Duties \cup {0}
    BY <1>d, <2>1 DEF StarterType, ValueInv
  <2>f. fatal' \in BOOLEAN
    BY <1>2 DEF weComplexInit
  <2>3. TypeOK'
    BY <2>1, <2>2, <2>f, Zenon DEF TypeOK, StarterType
  <2>n. NestingInv'
    <3>1. NESTING_LIMIT \in Nat /\ dbgNestingLevel \in Nat
      BY PwmAssumption DEF TypeOK
    <3>2. dbgNestingLevel <= NESTING_LIMIT /\ (due # None => dbgNestingLevel < NESTING_LIMIT)
      BY <2>1, <3>1 DEF NestingInv, Preparing
    <3> QED BY <2>1, <3>1, <3>2 DEF NestingInv, Calling
  <2>4. ValueInv' /\ PeriodInv' /\ Alive'
    BY <2>1 DEF ValueInv, PeriodInv, Running, Alive
  <2>5. StartInv' /\ PaceInv' /\ NextToggleSoon'
    BY <2>1 DEF StartInv, PaceInv, Running, NextToggleSoon
  <2> QED BY <2>3, <2>n, <2>4, <2>5
<1>3. CASE resetSafe
  <2>1. /\ UNCHANGED <<periodNt, mode, switchTime, requested, isStopRequested, dbgNestingLevel, due, pin, fatal, setter,
                       started>>
        /\ starter' = [starter EXCEPT !.pc = "callback"] /\ starter.pc = "reset"
        /\ safe' = [safe EXCEPT !.phaseIndex = 0, !.periodNt = -1, !.iteration = -1]
    BY <1>3 DEF resetSafe, settings
  <2>2. starter' \in StarterType /\ starter'.pc = "callback"
    BY <2>1 DEF StarterType, TypeOK
  <2>3. -1 \in Periods \cup {0, -1} /\ 0 \in 0..phaseCount - 1 /\ -1 \in -1..ITERATION_LIMIT
    BY PwmAssumption DEF phaseCount
  <2>4. safe \in SafeType
    BY DEF TypeOK, SafeType
  <2>5. safe' \in SafeType
    BY <2>1, <2>3, <2>4 DEF SafeType
  <2>6. safe'.periodNt = -1 /\ safe'.phaseIndex = 0 /\ safe'.iteration = -1
    BY <2>1, <2>4 DEF SafeType
  <2>7. TypeOK'
    BY <2>1, <2>2, <2>5, Zenon DEF TypeOK, StarterType, SafeType
  <2>8. ValueInv' /\ NestingInv' /\ Alive'
    BY <2>1, <2>2 DEF ValueInv, NestingInv, Preparing, Calling, Alive
  <2>9. ~Running' /\ periodNt \in Periods
    BY <1>d, <2>1, <2>6 DEF Running, PeriodInv
  <2>10. ITERATION_LIMIT \in Nat
    BY PwmAssumption
  <2>11. PeriodInv' /\ StartInv' /\ PaceInv' /\ NextToggleSoon'
    BY <2>1, <2>2, <2>6, <2>9, <2>10 DEF PeriodInv, StartInv, PaceInv, NextToggleSoon
  <2> QED BY <2>7, <2>8, <2>11
<1> QED
  BY <1>1, <1>2, <1>3

\* The first callback, as far as the test of the index.
LEMMA FirstCallbackStep ==
    ASSUME PwmInv, firstCallback PROVE PwmInv'
<1> USE DEF PwmInv
<1>1. /\ UNCHANGED <<periodNt, mode, switchTime, requested, isStopRequested, due, pin, setter, started>>
      /\ starter.pc = "callback" /\ dbgNestingLevel' = dbgNestingLevel + 1
      /\ fatal' = (fatal \/ dbgNestingLevel' >= NESTING_LIMIT)
      /\ safe' = IF dbgNestingLevel' >= NESTING_LIMIT THEN safe ELSE startingIndex(safe)
      /\ starter' = IF dbgNestingLevel' >= NESTING_LIMIT THEN Idle
                    ELSE [starter EXCEPT !.pc = IF startingIndex(safe).phaseIndex = 0 THEN "cycle" ELSE "toggle"]
  BY DEF firstCallback, settings
<1>2. dbgNestingLevel \in Nat /\ NESTING_LIMIT \in Nat /\ NESTING_LIMIT > 0 /\ None \in Int
  BY PwmAssumption DEF TypeOK, None
<1>3. fatal' \in BOOLEAN
  BY <1>1
<1>4. dbgNestingLevel' \in 0..NESTING_LIMIT + 1
  BY <1>1, <1>2 DEF NestingInv, Preparing
<1>5. CASE dbgNestingLevel' >= NESTING_LIMIT
  <2>1. safe' = safe /\ starter' = Idle /\ fatal'
    BY <1>1, <1>5
  <2>2. Idle \in StarterType /\ Idle.pc = "idle"
    BY <1>2 DEF Idle, StarterType
  <2>3. TypeOK'
    BY <1>1, <1>3, <1>4, <2>1, <2>2, Zenon DEF TypeOK, StarterType
  <2>4. NestingInv'
    BY <1>1, <1>2, <2>1, <2>2 DEF NestingInv, Preparing, Calling
  <2>5. ValueInv' /\ PeriodInv' /\ StartInv' /\ Alive'
    BY <1>1, <2>1, <2>2 DEF ValueInv, PeriodInv, StartInv, Alive, Running
  <2>6. PaceInv' /\ NextToggleSoon'
    BY <1>1, <2>1 DEF PaceInv, NextToggleSoon, Running
  <2> QED BY <2>3, <2>4, <2>5, <2>6
<1>6. CASE ~(dbgNestingLevel' >= NESTING_LIMIT)
  <2>1. /\ safe' = startingIndex(safe) /\ fatal' = fatal
        /\ starter' = [starter EXCEPT !.pc = IF safe'.phaseIndex = 0 THEN "cycle" ELSE "toggle"]
    BY <1>1, <1>6 DEF TypeOK
  <2>2. safe' \in SafeType /\ safe'.iteration = safe.iteration /\ safe'.elapsed = safe.elapsed
        /\ safe'.periodNt = safe.periodNt /\ safe'.phaseIndex \in {0, safe.phaseIndex}
    BY <2>1 DEF TypeOK, SafeType, startingIndex, phaseCount
  <2>3. /\ starter' \in StarterType /\ starter'.pc \in {"cycle", "toggle"}
        /\ starter'.pc = "toggle" => safe'.phaseIndex # 0
    BY <2>1 DEF TypeOK, StarterType
  <2>4. TypeOK'
    BY <1>1, <1>3, <1>4, <2>2, <2>3, Zenon DEF TypeOK, StarterType, SafeType
  <2>5. NestingInv'
    BY <1>1, <1>2, <1>6, <2>1, <2>3 DEF NestingInv, Preparing, Calling
  <2>6. ValueInv' /\ PeriodInv' /\ Alive'
    BY <1>1, <2>2, <2>3 DEF ValueInv, PeriodInv, Alive, Running
  <2>7. starter'.pc = "toggle" => Running'
    BY <2>2, <2>3 DEF PeriodInv, Running
  <2>8. StartInv'
    BY <1>1, <2>2, <2>3, <2>7 DEF StartInv, Running
  <2>9. PaceInv' /\ NextToggleSoon'
    BY <1>1, <2>2 DEF PaceInv, NextToggleSoon, Running
  <2> QED BY <2>4, <2>5, <2>6, <2>8, <2>9
<1> QED
  BY <1>5, <1>6

\* handleCycleStart in the thread.
LEMMA FirstCycleStep ==
    ASSUME PwmInv, firstCycleStart PROVE PwmInv'
<1> USE DEF PwmInv
<1>1. /\ UNCHANGED <<periodNt, mode, switchTime, requested, isStopRequested, dbgNestingLevel, due, pin, setter, started>>
      /\ starter.pc = "cycle" /\ starter' = [pc |-> "toggle", value |-> None]
      /\ fatal' = (fatal \/ safe.phaseIndex # 0)
      /\ safe' = IF safe.phaseIndex = 0 THEN cycleStart(safe) ELSE safe
  BY DEF firstCycleStart, settings
<1>2. periodNt \in Periods /\ safe \in SafeType
  BY <1>1 DEF PeriodInv, TypeOK, SafeType
<1>3. /\ safe' \in SafeType /\ safe'.periodNt \in Periods
      /\ \/ safe'.elapsed = 0 /\ safe'.iteration = 0 /\ safe'.periodNt = periodNt /\ safe'.phaseIndex = 0
         \/ safe' = safe
  BY <1>1, <1>2, CycleStart DEF PeriodInv, Running
<1>4. Running'
  BY <1>3 DEF Running
<1>5. starter' \in StarterType /\ fatal' \in BOOLEAN
  BY <1>1 DEF StarterType, None
<1>6. TypeOK'
  BY <1>1, <1>3, <1>5, Zenon DEF TypeOK, StarterType, SafeType
<1>7. NestingInv'
  <2>1. NESTING_LIMIT \in Nat /\ dbgNestingLevel \in Nat
    BY PwmAssumption DEF TypeOK
  <2>2. dbgNestingLevel <= NESTING_LIMIT /\ (due # None => dbgNestingLevel < NESTING_LIMIT)
        /\ dbgNestingLevel >= 1 /\ (~fatal => dbgNestingLevel < NESTING_LIMIT)
    BY <1>1, <2>1 DEF NestingInv, Calling
  <2>3. ~fatal' => ~fatal
    BY <1>1
  <2> QED BY <1>1, <2>1, <2>2, <2>3 DEF NestingInv, Preparing
<1>8. ValueInv' /\ Alive' /\ NextToggleSoon'
  BY <1>1 DEF ValueInv, Alive, NextToggleSoon
<1>9. ITERATION_LIMIT \in Nat /\ ITERATION_LIMIT > 1 /\ periodNt \in Nat
  BY <1>2, PwmAssumption
<1>10. PeriodInv' /\ StartInv'
  BY <1>1, <1>2, <1>3, <1>4, <1>9 DEF PeriodInv, StartInv, Running
<1>11. PaceInv'
  <2>1. CASE safe' = safe
    BY <1>1, <2>1 DEF PaceInv, Running
  <2>2. CASE safe'.elapsed = 0 /\ safe'.iteration = 0 /\ safe'.periodNt = periodNt
    <3>1. due \in Int
      BY DEF TypeOK, None
    <3>2. 0 * periodNt = 0 /\ (IF due > 0 THEN due ELSE 0) \in Nat
      BY <1>9, <3>1
    <3> QED BY <1>1, <1>9, <2>2, <3>1, <3>2 DEF PaceInv
  <2> QED BY <1>3, <2>1, <2>2
<1> QED
  BY <1>6, <1>7, <1>8, <1>10, <1>11

\* The first toggle: the thread counts once more than the callbacks in between.
LEMMA FirstToggleStep ==
    ASSUME PwmInv, firstToggle PROVE PwmInv'
<1> USE DEF PwmInv
<1>1. /\ UNCHANGED <<periodNt, mode, switchTime, requested, isStopRequested, dbgNestingLevel, due, fatal, setter, started>>
      /\ starter.pc = "toggle" /\ pin' = stateChange(safe) /\ safe' = nextPhase(safe)
      /\ starter' = [pc |-> "schedule", value |-> getNextSwitchTimeNt(safe) + safe.elapsed]
  BY DEF firstToggle, settings
<1>2. /\ safe \in SafeType /\ Running /\ safe.elapsed = 0 /\ safe.periodNt = periodNt
      /\ \/ safe.iteration = 0
         \/ safe.iteration = 1 /\ safe.phaseIndex = 0 /\ due >= safe.periodNt
  BY <1>1 DEF StartInv, TypeOK, SafeType
<1>d. due \in Int
  BY DEF TypeOK, None
<1>3. /\ ITERATION_LIMIT \in Nat /\ ITERATION_LIMIT > 1 /\ periodNt \in Nat /\ periodNt \in Periods
      /\ due \in Int /\ periodNt > 0
  BY <1>2, <1>d, PwmAssumption DEF Running
<1>4. safe.iteration < ITERATION_LIMIT
  BY <1>2, <1>3
<1>5. /\ safe' \in SafeType /\ safe'.periodNt = safe.periodNt /\ safe'.elapsed = safe.elapsed
      /\ \E x \in 0..safe.periodNt :
           /\ getNextSwitchTimeNt(safe) = safe.iteration * safe.periodNt - safe.elapsed + x
           /\ \/ safe'.iteration = safe.iteration /\ safe'.phaseIndex = 1
              \/ safe'.iteration = safe.iteration + 1 /\ safe'.phaseIndex = 0 /\ x = safe.periodNt
  BY <1>1, <1>2, <1>4, NextPhase DEF Running
<1>6. PICK x \in 0..safe.periodNt :
           /\ getNextSwitchTimeNt(safe) = safe.iteration * safe.periodNt - safe.elapsed + x
           /\ \/ safe'.iteration = safe.iteration /\ safe'.phaseIndex = 1
              \/ safe'.iteration = safe.iteration + 1 /\ safe'.phaseIndex = 0 /\ x = safe.periodNt
  BY <1>5
<1>7. starter'.value \in 0..2 * periodNt
  BY <1>1, <1>2, <1>3, <1>6
<1>8. starter' \in StarterType /\ starter'.pc = "schedule" /\ pin' \in BOOLEAN
  BY <1>1, <1>3, <1>7 DEF StarterType, stateChange
<1>9. TypeOK'
  BY <1>1, <1>5, <1>8, Zenon DEF TypeOK, StarterType, SafeType
<1>10. ValueInv' /\ NestingInv' /\ Alive' /\ NextToggleSoon'
  BY <1>1, <1>8 DEF ValueInv, NestingInv, Preparing, Calling, Alive, NextToggleSoon
<1>11. Running'
  BY <1>2, <1>5 DEF Running
<1>12. PeriodInv'
  BY <1>1, <1>2, <1>3, <1>6, <1>11 DEF PeriodInv
<1>13. StartInv'
  BY <1>1, <1>2, <1>3, <1>5, <1>6, <1>7, <1>8, <1>11 DEF StartInv
<1>14. PaceInv'
  <2>1. \/ safe'.iteration \in {0, 1}
        \/ safe'.iteration = 2 /\ due >= periodNt
    BY <1>2, <1>6
  <2>2. safe'.iteration * periodNt <= 0 + periodNt + (IF due > 0 THEN due ELSE 0)
    BY <1>3, <2>1
  <2> QED BY <1>1, <1>2, <1>5, <2>2 DEF PaceInv
<1> QED
  BY <1>9, <1>10, <1>12, <1>13, <1>14

\* The thread schedules the callback, unless it waits on the timer already.
LEMMA FirstScheduleStep ==
    ASSUME PwmInv, firstSchedule PROVE PwmInv'
<1> USE DEF PwmInv
<1>1. /\ UNCHANGED <<periodNt, mode, switchTime, requested, isStopRequested, safe, pin, fatal, setter, started>>
      /\ starter.pc = "schedule" /\ starter' = Idle /\ dbgNestingLevel' = dbgNestingLevel - 1
      /\ due' = scheduled(starter.value - safe.elapsed)
  BY DEF firstSchedule, settings
<1>2. /\ Running /\ safe.elapsed = 0 /\ safe.periodNt = periodNt /\ starter.value \in 0..2 * periodNt
      /\ \/ safe.iteration <= 1
         \/ safe.iteration = 2 /\ due >= safe.periodNt
  BY <1>1 DEF StartInv
<1>d. due \in Int /\ dbgNestingLevel \in Int /\ dbgNestingLevel >= 0 /\ safe.iteration \in Int
  BY DEF TypeOK, None
<1>3. /\ periodNt \in Nat /\ periodNt \in Periods /\ MaxLag \in 0..99 /\ None = -100
      /\ due \in Int /\ dbgNestingLevel \in Nat /\ NESTING_LIMIT \in Nat /\ safe.iteration \in Int
  BY <1>2, <1>d, PwmAssumption DEF Running, None
<1>4. \/ due # None /\ due' = due
      \/ due = None /\ due' = starter.value
  BY <1>1, <1>2, <1>3 DEF scheduled
<1>5. due' # None /\ due' \in Int /\ due' >= -MaxLag
  BY <1>2, <1>3, <1>4 DEF TypeOK
<1>6. dbgNestingLevel >= 1 /\ dbgNestingLevel <= NESTING_LIMIT /\ (~fatal => dbgNestingLevel < NESTING_LIMIT)
  BY <1>1, <1>3 DEF NestingInv, Calling
<1>7. Idle \in StarterType /\ Idle.pc = "idle" /\ dbgNestingLevel' \in 0..NESTING_LIMIT + 1
  BY <1>1, <1>3, <1>6 DEF Idle, StarterType
<1>8. TypeOK'
  <2>1. due' = None \/ (due' \in Int /\ due' >= -MaxLag)
    BY <1>5
  <2> QED BY <1>1, <1>7, <2>1, Zenon DEF TypeOK, StarterType
<1>9. NestingInv' /\ Alive'
  BY <1>1, <1>3, <1>5, <1>6, <1>7 DEF NestingInv, Preparing, Calling, Alive
<1>10. ValueInv' /\ PeriodInv' /\ StartInv'
  BY <1>1, <1>7 DEF ValueInv, PeriodInv, StartInv, Running
<1>11. PaceInv'
  <2>1. CASE due' = due
    BY <1>1, <2>1 DEF PaceInv, Running
  <2>2. CASE due = None
    <3>1. safe.iteration <= 1
      BY <1>2, <1>3, <2>2
    <3>2. safe.iteration * periodNt <= periodNt
      BY <1>3, <3>1
    <3>3. (IF due' > 0 THEN due' ELSE 0) \in Nat /\ safe.iteration * periodNt \in Int
      BY <1>3, <1>5
    <3> QED BY <1>1, <1>2, <1>3, <3>2, <3>3 DEF PaceInv
  <2> QED BY <1>4, <2>1, <2>2
<1>12. NextToggleSoon'
  BY <1>2, <1>3, <1>4, Longest DEF NextToggleSoon
<1> QED
  BY <1>8, <1>9, <1>10, <1>11, <1>12

-----------------------------------------------------------------------------
\* Every step keeps the invariant.
LEMMA PwmStep ==
    ASSUME PwmInv, [Next]_vars PROVE PwmInv'
<1>1. CASE UNCHANGED vars
  BY <1>1 DEF vars, settings, state, PwmInv, TypeOK, ValueInv, NestingInv, PeriodInv, StartInv, PaceInv, Running,
    Alive, NextToggleSoon
<1> QED
  BY <1>1, TickStep, CallbackStep, SetterStep, PrepareStep, FirstCallbackStep, FirstCycleStep, FirstToggleStep,
    FirstScheduleStep DEF Next, StarterStep

\* The invariant holds before the first start.
LEMMA PwmInit == Init => PwmInv
<1> SUFFICES ASSUME Init PROVE PwmInv
  OBVIOUS
<1> USE DEF Init
<1>1. /\ NESTING_LIMIT \in Nat /\ NESTING_LIMIT > 0 /\ ITERATION_LIMIT \in Nat /\ None \in Int
      /\ 0 \notin Periods /\ ITERATION_LIMIT > 1
  BY PwmAssumption DEF None
<1>2. /\ safe \in SafeType /\ safe.periodNt = 0 /\ safe.phaseIndex = 0 /\ safe.iteration = 0
      /\ dbgNestingLevel \in 0..NESTING_LIMIT + 1
  BY <1>1 DEF SafeType, phaseCount
<1>3. /\ Idle \in StarterType /\ Idle \in [pc : {"idle", "mode", "time"}, value : Duties \cup {None}]
      /\ Idle.pc = "idle"
  BY <1>1 DEF Idle, StarterType
<1>4. TypeOK
  BY <1>2, <1>3, Zenon DEF TypeOK, SafeType, StarterType
<1>5. ValueInv /\ NestingInv /\ Alive
  BY <1>1, <1>3 DEF ValueInv, NestingInv, Preparing, Calling, Alive
<1>6. PeriodInv /\ StartInv /\ PaceInv
  BY <1>1, <1>2, <1>3 DEF PeriodInv, StartInv, PaceInv, Running
<1>7. NextToggleSoon
  BY Longest DEF NextToggleSoon, None
<1> QED
  BY <1>4, <1>5, <1>6, <1>7 DEF PwmInv

\* The PWM's state is well typed: the phase, the iteration and the nesting level stay in
\* their ranges, however callbacks and threads overlap.
THEOREM TypeCorrect == Spec => []TypeOK
<1>1. PwmInv /\ [Next]_vars => PwmInv'
  BY PwmStep
<1>2. PwmInv => TypeOK
  BY DEF PwmInv
<1> QED
  BY <1>1, <1>2, PwmInit, PTL DEF Spec

\* A PWM that was started and not stopped always has its next callback on the timer.
THEOREM PwmStaysAlive == Spec => []Alive
<1>1. PwmInv /\ [Next]_vars => PwmInv'
  BY PwmStep
<1>2. PwmInv => Alive
  BY DEF PwmInv
<1> QED
  BY <1>1, <1>2, PwmInit, PTL DEF Spec

\* The next toggle is never further away than two of the longest periods or a pause,
\* whichever starts, stops and changes of the period have come before.
THEOREM ToggleComesSoon == Spec => []NextToggleSoon
<1>1. PwmInv /\ [Next]_vars => PwmInv'
  BY PwmStep
<1>2. PwmInv => NextToggleSoon
  BY DEF PwmInv
<1> QED
  BY <1>1, <1>2, PwmInit, PTL DEF Spec
=============================================================================
