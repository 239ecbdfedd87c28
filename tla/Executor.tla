------------------------------- MODULE Executor -------------------------------
(***************************************************************************)
(* The event scheduler of the firmware: EventQueue (a linked list of       *)
(* scheduling_s records sorted by timestamp), SingleTimerExecutor (one     *)
(* lock, re-entrant scheduling from callbacks) and the one-shot hardware   *)
(* microsecond timer that wakes the executor.                              *)
(*                                                                         *)
(* The kernel lock disables interrupts, so the steps taken while `holder'  *)
(* is not "none" are never interleaved with another schedule call or with  *)
(* the timer interrupt; the clock, however, advances between any two       *)
(* steps.  Callbacks run under the lock and are arbitrary clients: while   *)
(* one runs it may schedule any records, its own included.                 *)
(***************************************************************************)
EXTENDS Integers, Sequences

CONSTANTS Sched,            \* the scheduling_s records of all clients
          None,             \* null pointer / alarm not set
          TicksPerUs,       \* US_TO_NT_MULTIPLIER
          LateDelay,        \* EventQueue::lateDelay, in ticks
          TooFarUs,         \* TOO_FAR_INTO_FUTURE_US
          WordSpan,         \* 2^32: number of values of an int32_t
          TimeBound,        \* model bound: the clock stops here
          MaxCalls          \* model bound: scheduleByTimestampNt calls

\* setHardwareUsTimer: "for some reason '1' does not really work"
MinAlarmUs == 2

ASSUME ExecutorAssumption ==
  /\ None \notin Sched \cup Nat
  /\ TicksPerUs \in Nat \ {0}
  /\ LateDelay \in Nat \ {0}
  /\ TooFarUs \in Nat
  /\ MinAlarmUs < TooFarUs
  /\ LateDelay \div TicksPerUs < TooFarUs
  /\ WordSpan \in Nat \ {0}
  /\ TimeBound \in Nat
  /\ MaxCalls \in Nat

VARIABLES
  now,              \* getTimeNowNt()
  queue,            \* the list that starts at EventQueue::head
  momentX,          \* scheduling_s::momentX
  isScheduled,      \* scheduling_s::isScheduled
  holder,           \* who holds the kernel lock: "none", "schedule", "timer"
  reentrantFlag,    \* SingleTimerExecutor::reentrantFlag
  needToResetTimer, \* local of the scheduleByTimestampNt call under way
  nowNt,            \* argument of the executeAll call under way
  executed,         \* has the executeAll call under way executed anything
  current,          \* the record whose callback is running, or None
  alarm,            \* when the armed one-shot timer expires, or None
  lastSetTimerTimeNt,
  firmwareError,    \* hasFirmwareError()
  calls             \* scheduleByTimestampNt calls so far

clientVars == <<queue, momentX, isScheduled>>
execVars   == <<holder, reentrantFlag, needToResetTimer, nowNt, executed, current>>
timerVars  == <<alarm, lastSetTimerTimeNt>>
vars == <<now, clientVars, execVars, timerVars, firmwareError, calls>>

Time == 0 .. TimeBound

\* The modelled clock stops at TimeBound, which stands for everything later.
UpToBound(t) == IF t > TimeBound THEN TimeBound ELSE t

NT2US(nt) == nt \div TicksPerUs
US2NT(us) == us * TicksPerUs

-----------------------------------------------------------------------------
(* EventQueue *)

\* insertTask's linear search for the place of a record due at t: in front of
\* the head only if strictly earlier than it, otherwise in front of the first
\* of the other elements that is not strictly earlier.
GoesToHead(q, t) == q = <<>> \/ t < momentX[q[1]]

IsInsertPosition(q, t, p) ==
  IF GoesToHead(q, t)
  THEN p = 1
  ELSE /\ p >= 2
       /\ \A i \in 2 .. p - 1 : momentX[q[i]] < t
       /\ p <= Len(q) => momentX[q[p]] >= t

InsertAtPosition(q, p, s) ==
  [i \in 1 .. Len(q) + 1 |-> IF i < p THEN q[i] ELSE IF i = p THEN s ELSE q[i - 1]]

\* Mutant: the isScheduled test of insertTask is missing.
insertTaskTwice(s, t) ==
  \E p \in 1 .. Len(queue) + 1 :
    /\ IsInsertPosition(queue, t, p)
    /\ queue' = InsertAtPosition(queue, p, s)
    /\ momentX' = [momentX EXCEPT ![s] = t]
    /\ isScheduled' = [isScheduled EXCEPT ![s] = TRUE]

insertTask(s, t) ==
  IF isScheduled[s]
  THEN UNCHANGED clientVars
  ELSE \E p \in 1 .. Len(queue) + 1 :
         /\ IsInsertPosition(queue, t, p)
         /\ queue' = InsertAtPosition(queue, p, s)
         /\ momentX' = [momentX EXCEPT ![s] = t]
         /\ isScheduled' = [isScheduled EXCEPT ![s] = TRUE]

\* Mutant: only an insertion into an empty list is reported.
insertedIntoEmpty(s, t) == ~isScheduled[s] /\ queue = <<>>

\* the value insertTask returns: was it inserted at the head of the list
insertedAtHead(s, t) == ~isScheduled[s] /\ GoesToHead(queue, t)

\* Mutant: events of the near future are executed too.
HeadIsNear == queue # <<>> /\ momentX[queue[1]] <= nowNt + LateDelay

HeadIsDue == queue # <<>> /\ momentX[queue[1]] <= nowNt

\* getNextEventTime for a non-empty queue
getNextEventTime(t) ==
  IF momentX[queue[1]] <= t THEN t + LateDelay ELSE momentX[queue[1]]

-----------------------------------------------------------------------------
(* SingleTimerExecutor and the microsecond timer *)

\* (int32_t)a - (int32_t)b for timestamps at most one WordSpan apart
Int32Difference(a, b) ==
  LET d == a - b IN IF 2 * d >= WordSpan THEN d - WordSpan ELSE d

\* the delay given to gptStartOneShotI: never shorter than MinAlarmUs
alarmDelayUs ==
  LET us == NT2US(Int32Difference(getNextEventTime(now), now))
  IN  IF us < MinAlarmUs THEN MinAlarmUs ELSE us

\* scheduleTimerCallback with setHardwareUsTimer.  With a firmware error
\* pending the timer is stopped and not started again.
scheduleTimerCallback ==
  IF queue = <<>> THEN UNCHANGED <<timerVars, firmwareError>>
  ELSE IF alarmDelayUs >= TooFarUs
  THEN /\ firmwareError' = TRUE
       /\ UNCHANGED timerVars
  ELSE IF firmwareError
  THEN /\ alarm' = None
       /\ UNCHANGED <<lastSetTimerTimeNt, firmwareError>>
  ELSE /\ alarm' = UpToBound(now + US2NT(alarmDelayUs))
       /\ lastSetTimerTimeNt' = now
       /\ UNCHANGED firmwareError

\* entry of doExecute: the first executeAll pass starts with a fresh clock
doExecute(who) ==
  /\ holder' = who
  /\ reentrantFlag' = TRUE
  /\ nowNt' = now
  /\ executed' = FALSE
  /\ current' = None

\* The check of scheduleByTimestampNt, for distances below 2^31 us.  EFI_ENABLE_ASSERTS
\* compiles it in: the default, which the build scripts of nucleo_f767 switch off.
TooFar(t) == t > now /\ NT2US(t - now) >= TooFarUs

Init ==
  /\ now = 0
  /\ queue = <<>>
  /\ momentX = [s \in Sched |-> 0]
  /\ isScheduled = [s \in Sched |-> FALSE]
  /\ holder = "none"
  /\ reentrantFlag = FALSE
  /\ needToResetTimer = FALSE
  /\ nowNt = 0
  /\ executed = FALSE
  /\ current = None
  /\ alarm = None
  /\ lastSetTimerTimeNt = 0
  /\ firmwareError = FALSE
  /\ calls = 0

Tick ==
  /\ now < TimeBound
  /\ now' = now + 1
  /\ UNCHANGED <<clientVars, execVars, timerVars, firmwareError, calls>>

\* A client asks for a timestamp too far ahead: a critical error, nothing else.
scheduleTooFar(t) ==
  /\ holder = "none" \/ current # None
  /\ calls < MaxCalls
  /\ TooFar(t)
  /\ firmwareError' = TRUE
  /\ calls' = calls + 1
  /\ UNCHANGED <<now, clientVars, execVars, timerVars>>

\* Mutant: the distance into the future is not checked.
scheduleUnchecked(s, t) ==
  /\ holder = "none"
  /\ ~reentrantFlag
  /\ calls < MaxCalls
  /\ insertTask(s, t)
  /\ needToResetTimer' = insertedAtHead(s, t)
  /\ doExecute("schedule")
  /\ calls' = calls + 1
  /\ UNCHANGED <<now, timerVars, firmwareError>>

\* A thread or an interrupt handler calls scheduleByTimestampNt while nobody
\* holds the lock: insert, then run doExecute under the lock.
scheduleByTimestampNt(s, t) ==
  /\ holder = "none"
  /\ ~reentrantFlag
  /\ calls < MaxCalls
  /\ ~TooFar(t)
  /\ insertTask(s, t)
  /\ needToResetTimer' = insertedAtHead(s, t)
  /\ doExecute("schedule")
  /\ calls' = calls + 1
  /\ UNCHANGED <<now, timerVars, firmwareError>>

\* The running callback calls scheduleByTimestampNt: reentrantFlag is set,
\* so the record is only inserted.
scheduleFromCallback(s, t) ==
  /\ current # None
  /\ reentrantFlag
  /\ calls < MaxCalls
  /\ ~TooFar(t)
  /\ insertTask(s, t)
  /\ calls' = calls + 1
  /\ UNCHANGED <<now, execVars, timerVars, firmwareError>>

\* One turn of the loop of executeAll: unlink the head, start its callback.
executeHead ==
  /\ holder # "none" /\ current = None
  /\ HeadIsDue
  /\ current' = queue[1]
  /\ isScheduled' = [isScheduled EXCEPT ![queue[1]] = FALSE]
  /\ queue' = Tail(queue)
  /\ executed' = TRUE
  /\ UNCHANGED <<now, momentX, holder, reentrantFlag, needToResetTimer, nowNt,
                 timerVars, firmwareError, calls>>

callbackReturns ==
  /\ current # None
  /\ current' = None
  /\ UNCHANGED <<now, clientVars, holder, reentrantFlag, needToResetTimer, nowNt,
                 executed, timerVars, firmwareError, calls>>

\* executeAll executed something: doExecute calls it again with a new time.
nextPass ==
  /\ holder # "none" /\ current = None
  /\ ~HeadIsDue
  /\ executed
  /\ nowNt' = now
  /\ executed' = FALSE
  /\ UNCHANGED <<now, clientVars, holder, reentrantFlag, needToResetTimer, current,
                 timerVars, firmwareError, calls>>

\* Mutant: the timer interrupt does not re-arm the timer.
finishWithoutRearm ==
  /\ holder # "none" /\ current = None
  /\ ~HeadIsDue
  /\ ~executed
  /\ reentrantFlag' = FALSE
  /\ holder' = "none"
  /\ needToResetTimer' = FALSE
  /\ IF needToResetTimer
     THEN scheduleTimerCallback
     ELSE UNCHANGED <<timerVars, firmwareError>>
  /\ UNCHANGED <<now, clientVars, nowNt, executed, current, calls>>

\* executeAll executed nothing: leave doExecute, re-arm the timer if this is
\* the timer interrupt or the new record went to the head, and unlock.
finishExecute ==
  /\ holder # "none" /\ current = None
  /\ ~HeadIsDue
  /\ ~executed
  /\ reentrantFlag' = FALSE
  /\ holder' = "none"
  /\ needToResetTimer' = FALSE
  /\ IF holder = "timer" \/ needToResetTimer
     THEN scheduleTimerCallback
     ELSE UNCHANGED <<timerVars, firmwareError>>
  /\ UNCHANGED <<now, clientVars, nowNt, executed, current, calls>>

\* Mutant: onTimerCallback re-arms the timer and does not call doExecute.
hwTimerOnlyRearms ==
  /\ holder = "none"
  /\ alarm # None
  /\ alarm <= now
  /\ IF queue = <<>>
     THEN alarm' = None /\ UNCHANGED <<lastSetTimerTimeNt, firmwareError>>
     ELSE scheduleTimerCallback
  /\ UNCHANGED <<now, clientVars, execVars, calls>>

\* The one-shot timer expires: hwTimerCallback -> onTimerCallback.
hwTimerCallback ==
  /\ holder = "none"
  /\ alarm # None
  /\ alarm <= now
  /\ alarm' = None
  /\ doExecute("timer")
  /\ UNCHANGED <<now, clientVars, needToResetTimer, lastSetTimerTimeNt,
                 firmwareError, calls>>

Next ==
  \/ Tick
  \/ \E t \in Time : scheduleTooFar(t)
  \/ \E s \in Sched, t \in Time : scheduleByTimestampNt(s, t)
  \/ \E s \in Sched, t \in Time : scheduleFromCallback(s, t)
  \/ executeHead
  \/ callbackReturns
  \/ nextPass
  \/ finishExecute
  \/ hwTimerCallback

Spec == Init /\ [][Next]_vars

\* Time passes, the timer interrupt is served, and code under the lock runs on.
Fairness ==
  /\ WF_vars(Tick)
  /\ WF_vars(hwTimerCallback)
  /\ WF_vars(executeHead)
  /\ WF_vars(callbackReturns)
  /\ WF_vars(nextPass)
  /\ WF_vars(finishExecute)

FairSpec == Spec /\ Fairness

-----------------------------------------------------------------------------
(* Properties *)

\* The scheduler's state is well formed: links, timestamps, the alarm of the timer.
TypeOK ==
  /\ now \in Time
  /\ queue \in Seq(Sched)
  /\ momentX \in [Sched -> Time]
  /\ isScheduled \in [Sched -> BOOLEAN]
  /\ holder \in {"none", "schedule", "timer"}
  /\ reentrantFlag \in BOOLEAN
  /\ needToResetTimer \in BOOLEAN
  /\ nowNt \in Time
  /\ executed \in BOOLEAN
  /\ current \in Sched \cup {None}
  /\ alarm \in Time \cup {None}
  /\ lastSetTimerTimeNt \in Time
  /\ firmwareError \in BOOLEAN
  /\ calls \in Nat

\* The records of a list, and that none of them is linked twice.
Linked(q) == {q[i] : i \in 1 .. Len(q)}

Distinct(q) == \A i, j \in 1 .. Len(q) : q[i] = q[j] => i = j

\* The isScheduled flag of a record says exactly whether it is linked into the
\* list, and it is linked at most once: insertTask never makes the list loop
\* (the "Looped queue?" error of event_queue.h), whatever callbacks re-schedule.
FlagsMatchQueue ==
  /\ \A s \in Sched : isScheduled[s] <=> s \in Linked(queue)
  /\ Distinct(queue)

\* assertListIsSorted: the list is in timestamp order after every operation.
QueueSorted ==
  \A i, j \in 1 .. Len(queue) : i <= j => momentX[queue[i]] <= momentX[queue[j]]

\* Whenever the lock is free and a record is pending, the hardware timer is
\* armed: no schedule call or interrupt leaves the executor without a wake-up.
WakeUpArmed ==
  holder = "none" /\ queue # <<>> /\ ~firmwareError => alarm # None

\* The wake-up is armed for the right record: at most MinAlarmUs after the
\* earliest timestamp, or LateDelay (at least MinAlarmUs) after the moment of
\* arming if that record was already late then.
AlarmNotLate ==
  holder = "none" /\ queue # <<>> /\ ~firmwareError =>
    \/ alarm <= momentX[queue[1]] + US2NT(MinAlarmUs)
    \/ alarm <= lastSetTimerTimeNt + LateDelay
    \/ alarm <= lastSetTimerTimeNt + US2NT(MinAlarmUs)

\* The timer takes every delay it is given: scheduleTimerCallback, the last thing
\* a schedule call or the timer interrupt does under the lock, never runs into the
\* "too far" error of setHardwareUsTimer, whichever record callbacks have left at
\* the head, however late it is, and wherever the 32-bit difference wraps.  A
\* delay refused there, after the record was accepted, would be a lost wake-up.
NoTimerOverflow ==
  [][holder # "none" /\ holder' = "none" => (firmwareError' => firmwareError)]_vars

\* ExecutorInterface as its clients see it: never early, earliest first, once.
Pending == INSTANCE PendingEvents WITH
             Idle <- None,
             pending <- [s \in Sched |-> IF isScheduled[s] THEN momentX[s] ELSE None]

ImplementsPending == Pending!Spec

\* Every scheduled record is executed (unless a critical error stops the
\* timer): the wake-up is neither lost nor armed for a moment in the past.
EveryEventExecutes ==
  \A s \in Sched : isScheduled[s] ~> (~isScheduled[s] \/ firmwareError)
=============================================================================
