--------------------------- MODULE ExecutorProofs ---------------------------
(***************************************************************************)
(* Proofs about Executor for every set of records, every clock resolution  *)
(* and every bound.  The inductive invariant adds to the list invariants   *)
(* that the time stamp executeAll works with is never in the future.       *)
(***************************************************************************)
EXTENDS Executor, TLAPS

\* executeAll compares timestamps with a clock reading that is not ahead of
\* the clock, so a record found due is really due.
ReadingNotAhead == nowNt <= now

\* A schedule call that does not re-arm the timer found it armed: its record
\* was pending already, or went in behind another one.
ArmedDuringCall ==
  holder = "schedule" /\ ~needToResetTimer /\ ~firmwareError => alarm # None

\* Callbacks run under the lock, inside executeAll.
LockedCallback == current # None => holder # "none"

IInv ==
  /\ TypeOK
  /\ FlagsMatchQueue
  /\ QueueSorted
  /\ ReadingNotAhead
  /\ WakeUpArmed
  /\ ArmedDuringCall
  /\ LockedCallback

\* What insertTask does to the list: the result is a list of records.
LEMMA InsertType ==
  ASSUME NEW q \in Seq(Sched), NEW p \in 1 .. Len(q) + 1, NEW s \in Sched
  PROVE  /\ InsertAtPosition(q, p, s) \in Seq(Sched)
         /\ Len(InsertAtPosition(q, p, s)) = Len(q) + 1
<1>1. \A i \in 1 .. Len(q) + 1 :
        (IF i < p THEN q[i] ELSE IF i = p THEN s ELSE q[i - 1]) \in Sched
  OBVIOUS
<1>2. InsertAtPosition(q, p, s) \in [1 .. Len(q) + 1 -> Sched]
  BY <1>1 DEF InsertAtPosition
<1> QED
  BY <1>2

\* Inserting at the place insertTask finds keeps the list in timestamp order.
LEMMA InsertSorted ==
  ASSUME NEW q \in Seq(Sched), NEW s \in Sched, NEW t \in Time,
         NEW p \in 1 .. Len(q) + 1,
         momentX \in [Sched -> Time],
         NEW m, m = [momentX EXCEPT ![s] = t],
         s \notin Linked(q),
         \A i, j \in 1 .. Len(q) : i <= j => momentX[q[i]] <= momentX[q[j]],
         IsInsertPosition(q, t, p),
         NEW r, r = InsertAtPosition(q, p, s)
  PROVE  \A i, j \in 1 .. Len(r) : i <= j => m[r[i]] <= m[r[j]]
<1> DEFINE old(i) == IF i < p THEN i ELSE i - 1
<1>1. /\ Len(r) = Len(q) + 1
      /\ \A i \in 1 .. Len(r) : i # p => /\ old(i) \in 1 .. Len(q)
                                         /\ r[i] = q[old(i)]
      /\ r[p] = s
  BY InsertType DEF InsertAtPosition
<1>2. /\ \A i \in 1 .. Len(q) : momentX[q[i]] \in Nat /\ m[q[i]] = momentX[q[i]]
      /\ m[s] = t
      /\ t \in Nat
  BY DEF Time, Linked
<1>3. /\ \A i \in 1 .. p - 1 : momentX[q[i]] <= t
      /\ \A i \in p .. Len(q) : t <= momentX[q[i]]
  <2>1. CASE GoesToHead(q, t)
    <3>1. p = 1
      BY <2>1 DEF IsInsertPosition
    <3>2. ASSUME NEW i \in 1 .. Len(q) PROVE t <= momentX[q[i]]
      <4>1. q # <<>> /\ 1 \in 1 .. Len(q)
        OBVIOUS
      <4>2. t < momentX[q[1]]
        BY <2>1, <4>1 DEF GoesToHead
      <4>3. momentX[q[1]] <= momentX[q[i]]
        BY <4>1
      <4> QED
        BY <4>1, <4>2, <4>3, <1>2
    <3> QED
      BY <3>1, <3>2
  <2>2. CASE ~GoesToHead(q, t)
    <3>1. /\ p >= 2
          /\ \A i \in 2 .. p - 1 : momentX[q[i]] < t
          /\ p <= Len(q) => momentX[q[p]] >= t
      BY <2>2 DEF IsInsertPosition
    <3>2. momentX[q[1]] <= t
      BY <2>2, <3>1, <1>2 DEF GoesToHead
    <3>3. ASSUME NEW i \in 1 .. p - 1 PROVE momentX[q[i]] <= t
      BY <3>1, <3>2, <1>2
    <3>4. ASSUME NEW i \in p .. Len(q) PROVE t <= momentX[q[i]]
      <4>1. p \in 1 .. Len(q) /\ momentX[q[p]] <= momentX[q[i]]
        OBVIOUS
      <4> QED
        BY <3>1, <4>1, <1>2
    <3> QED
      BY <3>3, <3>4
  <2> QED
    BY <2>1, <2>2
<1> SUFFICES ASSUME NEW i \in 1 .. Len(r), NEW j \in 1 .. Len(r), i <= j
             PROVE  m[r[i]] <= m[r[j]]
  OBVIOUS
<1>4. CASE i = p /\ j = p
  BY <1>1, <1>2, <1>4
<1>5. CASE i = p /\ j # p
  BY <1>1, <1>2, <1>3, <1>5
<1>6. CASE i # p /\ j = p
  BY <1>1, <1>2, <1>3, <1>6
<1>7. CASE i # p /\ j # p
  <2>1. old(i) <= old(j)
    BY <1>1
  <2> HIDE DEF old
  <2> QED
    BY <1>1, <1>2, <1>7, <2>1
<1> QED
  BY <1>4, <1>5, <1>6, <1>7

\* Inserting a record that is not linked yet links it once and keeps the others.
LEMMA InsertMembers ==
  ASSUME NEW q \in Seq(Sched), NEW p \in 1 .. Len(q) + 1, NEW s \in Sched,
         s \notin Linked(q), Distinct(q)
  PROVE  /\ Linked(InsertAtPosition(q, p, s)) = Linked(q) \cup {s}
         /\ Distinct(InsertAtPosition(q, p, s))
<1> DEFINE r == InsertAtPosition(q, p, s)
<1> DEFINE old(i) == IF i < p THEN i ELSE i - 1
           new(i) == IF i < p THEN i ELSE i + 1
<1>1. /\ Len(r) = Len(q) + 1
      /\ \A i \in 1 .. Len(r) : i # p => /\ old(i) \in 1 .. Len(q)
                                         /\ r[i] = q[old(i)]
      /\ \A i \in 1 .. Len(q) : /\ new(i) \in 1 .. Len(r)
                                /\ r[new(i)] = q[i]
      /\ p \in 1 .. Len(r)
      /\ r[p] = s
  BY InsertType DEF InsertAtPosition
<1>2. \A i, j \in 1 .. Len(r) : i # p /\ j # p /\ old(i) = old(j) => i = j
  BY <1>1
<1> HIDE DEF old, new, r
<1>3. Linked(r) = Linked(q) \cup {s}
  BY <1>1 DEF Linked
<1>4. ASSUME NEW i \in 1 .. Len(r), NEW j \in 1 .. Len(r), r[i] = r[j]
      PROVE  i = j
  <2>1. CASE i = p \/ j = p
    BY <1>1, <1>4, <2>1 DEF Linked
  <2>2. CASE i # p /\ j # p
    <3>0. /\ old(i) \in 1 .. Len(q) /\ old(j) \in 1 .. Len(q)
          /\ q[old(i)] = q[old(j)]
      BY <1>1, <1>4, <2>2
    <3>1. old(i) = old(j)
      BY <3>0 DEF Distinct
    <3> QED
      BY <1>2, <2>2, <3>1
  <2> QED
    BY <2>1, <2>2
<1> QED
  BY <1>3, <1>4 DEF Distinct, r

\* The list part of the invariant survives any call of insertTask.
LEMMA InsertTaskKeepsList ==
  ASSUME TypeOK, FlagsMatchQueue, QueueSorted,
         NEW s \in Sched, NEW t \in Time, insertTask(s, t)
  PROVE  /\ queue' \in Seq(Sched)
         /\ momentX' \in [Sched -> Time]
         /\ isScheduled' \in [Sched -> BOOLEAN]
         /\ FlagsMatchQueue'
         /\ QueueSorted'
<1>1. CASE isScheduled[s]
  BY <1>1 DEF insertTask, clientVars, TypeOK, FlagsMatchQueue, QueueSorted
<1>2. CASE ~isScheduled[s]
  <2>1. PICK p \in 1 .. Len(queue) + 1 :
               /\ IsInsertPosition(queue, t, p)
               /\ queue' = InsertAtPosition(queue, p, s)
               /\ momentX' = [momentX EXCEPT ![s] = t]
               /\ isScheduled' = [isScheduled EXCEPT ![s] = TRUE]
    BY <1>2 DEF insertTask
  <2>2. /\ queue \in Seq(Sched)
        /\ momentX \in [Sched -> Time]
        /\ isScheduled \in [Sched -> BOOLEAN]
    BY DEF TypeOK
  <2>3. s \notin Linked(queue) /\ Distinct(queue)
    BY <1>2 DEF FlagsMatchQueue
  <2>4. /\ queue' \in Seq(Sched)
        /\ momentX' \in [Sched -> Time]
        /\ isScheduled' \in [Sched -> BOOLEAN]
    BY <2>1, <2>2, InsertType
  <2>5. FlagsMatchQueue'
    <3>1. Linked(queue') = Linked(queue) \cup {s} /\ Distinct(queue')
      BY <2>1, <2>2, <2>3, InsertMembers
    <3>2. \A x \in Sched : isScheduled'[x] <=> x = s \/ isScheduled[x]
      BY <2>1, <2>2
    <3> QED
      BY <3>1, <3>2 DEF FlagsMatchQueue
  <2>6. QueueSorted'
    <3>1. \A i, j \in 1 .. Len(queue) :
            i <= j => momentX[queue[i]] <= momentX[queue[j]]
      BY DEF QueueSorted
    <3>2. \A i, j \in 1 .. Len(queue') :
            i <= j => momentX'[queue'[i]] <= momentX'[queue'[j]]
      BY <2>1, <2>2, <2>3, <3>1, InsertSorted
    <3> QED
      BY <3>2 DEF QueueSorted
  <2> QED
    BY <2>4, <2>5, <2>6
<1> QED
  BY <1>1, <1>2

\* Unlinking the head keeps the list sorted and the flags in step with it.
LEMMA ExecuteHeadKeepsList ==
  ASSUME TypeOK, FlagsMatchQueue, QueueSorted, executeHead
  PROVE  /\ queue' \in Seq(Sched)
         /\ queue[1] \in Sched
         /\ isScheduled[queue[1]]
         /\ FlagsMatchQueue'
         /\ QueueSorted'
<1>1. /\ queue \in Seq(Sched) /\ queue # <<>>
      /\ queue' = Tail(queue)
      /\ isScheduled \in [Sched -> BOOLEAN]
      /\ isScheduled' = [isScheduled EXCEPT ![queue[1]] = FALSE]
      /\ momentX' = momentX
  BY DEF executeHead, HeadIsDue, TypeOK
<1>2. /\ Len(queue) \in Nat \ {0}
      /\ Len(queue') = Len(queue) - 1
      /\ \A i \in 1 .. Len(queue') : i + 1 \in 1 .. Len(queue) /\ queue'[i] = queue[i + 1]
      /\ 1 \in 1 .. Len(queue)
  BY <1>1
<1>3. queue' \in Seq(Sched) /\ queue[1] \in Sched /\ isScheduled[queue[1]]
  BY <1>1, <1>2 DEF FlagsMatchQueue, Linked
<1>4. Distinct(queue)
  BY DEF FlagsMatchQueue
<1>5. Distinct(queue')
  <2> SUFFICES ASSUME NEW i \in 1 .. Len(queue'), NEW j \in 1 .. Len(queue'),
                      queue'[i] = queue'[j]
               PROVE  i = j
    BY DEF Distinct
  <2>1. i + 1 = j + 1
    BY <1>2, <1>4 DEF Distinct
  <2> QED
    BY <2>1, <1>2
<1>6. Linked(queue') = Linked(queue) \ {queue[1]}
  <2>1. ASSUME NEW x \in Linked(queue') PROVE x \in Linked(queue) /\ x # queue[1]
    <3>1. PICK i \in 1 .. Len(queue') : queue'[i] = x
      BY <2>1 DEF Linked
    <3> QED
      BY <1>2, <1>4, <3>1 DEF Linked, Distinct
  <2>2. ASSUME NEW x \in Linked(queue), x # queue[1] PROVE x \in Linked(queue')
    <3>1. PICK i \in 1 .. Len(queue) : queue[i] = x
      BY <2>2 DEF Linked
    <3>2. i - 1 \in 1 .. Len(queue') /\ queue'[i - 1] = x
      BY <1>2, <2>2, <3>1
    <3> QED
      BY <3>2 DEF Linked
  <2> QED
    BY <2>1, <2>2
<1>7. QueueSorted'
  BY <1>1, <1>2 DEF QueueSorted
<1>8. FlagsMatchQueue'
  BY <1>1, <1>3, <1>5, <1>6 DEF FlagsMatchQueue
<1> QED
  BY <1>3, <1>7, <1>8

\* The delay given to the timer is a number of microseconds.
LEMMA ArmDelayType ==
  ASSUME TypeOK, queue # <<>>
  PROVE  alarmDelayUs \in Nat
<1>1. queue[1] \in Sched
  BY DEF TypeOK
<1>2. now \in Nat /\ momentX[queue[1]] \in Nat
  BY <1>1, ExecutorAssumption DEF TypeOK, Time
<1>3. getNextEventTime(now) \in Nat
  BY <1>2, ExecutorAssumption DEF getNextEventTime
<1>4. Int32Difference(getNextEventTime(now), now) \in Int
  BY <1>2, <1>3, ExecutorAssumption DEF Int32Difference
<1>5. NT2US(Int32Difference(getNextEventTime(now), now)) \in Int
  BY <1>4, ExecutorAssumption DEF NT2US
<1> QED
  BY <1>5 DEF alarmDelayUs, MinAlarmUs

\* scheduleTimerCallback keeps the types of what it writes and leaves the
\* timer armed or the firmware in its error state.
LEMMA TimerCallbackArms ==
  ASSUME TypeOK, scheduleTimerCallback
  PROVE  /\ alarm' \in Time \cup {None}
         /\ lastSetTimerTimeNt' \in Time
         /\ firmwareError' \in BOOLEAN
         /\ firmwareError => firmwareError'
         /\ queue # <<>> /\ ~firmwareError' => alarm' # None
<1>1. CASE queue = <<>>
  BY <1>1 DEF scheduleTimerCallback, TypeOK, timerVars
<1>2. CASE queue # <<>> /\ alarmDelayUs >= TooFarUs
  BY <1>2 DEF scheduleTimerCallback, TypeOK, timerVars
<1>3. CASE queue # <<>> /\ ~(alarmDelayUs >= TooFarUs) /\ firmwareError
  BY <1>3 DEF scheduleTimerCallback, TypeOK
<1>4. CASE queue # <<>> /\ ~(alarmDelayUs >= TooFarUs) /\ ~firmwareError
  <2>1. /\ alarm' = UpToBound(now + US2NT(alarmDelayUs))
        /\ lastSetTimerTimeNt' = now
        /\ firmwareError' = firmwareError
    BY <1>4 DEF scheduleTimerCallback
  <2>2. alarmDelayUs \in Nat
    BY <1>4, ArmDelayType
  <2>3. US2NT(alarmDelayUs) \in Nat
    BY <2>2, ExecutorAssumption DEF US2NT
  <2>4. UpToBound(now + US2NT(alarmDelayUs)) \in Time
    BY <2>3, ExecutorAssumption DEF UpToBound, Time, TypeOK
  <2> QED
    BY <1>4, <2>1, <2>4, ExecutorAssumption DEF TypeOK, Time
<1> QED
  BY <1>1, <1>2, <1>3, <1>4

\* Every step keeps the inductive invariant: one case per action.
LEMMA StepKeepsIInv ==
  ASSUME IInv, [Next]_vars
  PROVE  IInv'
<1> USE ExecutorAssumption DEF IInv
<1>1. CASE UNCHANGED vars
  BY <1>1 DEF vars, clientVars, execVars, timerVars, TypeOK, FlagsMatchQueue,
              QueueSorted, ReadingNotAhead, WakeUpArmed, ArmedDuringCall, LockedCallback
<1>2. CASE Tick
  BY <1>2 DEF Tick, Time, clientVars, execVars, timerVars, TypeOK,
              FlagsMatchQueue, QueueSorted, ReadingNotAhead, WakeUpArmed,
              ArmedDuringCall, LockedCallback
<1>3. ASSUME NEW t \in Time, scheduleTooFar(t) PROVE IInv'
  BY <1>3 DEF scheduleTooFar, clientVars, execVars, timerVars, TypeOK,
              FlagsMatchQueue, QueueSorted, ReadingNotAhead, WakeUpArmed,
              ArmedDuringCall, LockedCallback
<1>4. ASSUME NEW s \in Sched, NEW t \in Time, scheduleByTimestampNt(s, t)
      PROVE  IInv'
  <2>1. /\ queue' \in Seq(Sched)
        /\ momentX' \in [Sched -> Time]
        /\ isScheduled' \in [Sched -> BOOLEAN]
        /\ FlagsMatchQueue'
        /\ QueueSorted'
    BY <1>4, InsertTaskKeepsList DEF scheduleByTimestampNt
  <2>2. TypeOK'
    <3>1. needToResetTimer' \in BOOLEAN
      BY <1>4 DEF scheduleByTimestampNt, insertedAtHead, GoesToHead
    <3>2. /\ holder' = "schedule" /\ reentrantFlag' = TRUE /\ nowNt' = now
          /\ executed' = FALSE /\ current' = None /\ calls' = calls + 1
          /\ UNCHANGED <<now, alarm, lastSetTimerTimeNt, firmwareError>>
      BY <1>4 DEF scheduleByTimestampNt, doExecute, timerVars
    <3>3. calls' \in Nat /\ holder' \in {"none", "schedule", "timer"}
      BY <3>2 DEF TypeOK
    <3> QED
      BY <2>1, <3>1, <3>2, <3>3, Zenon DEF TypeOK
  <2>3. ReadingNotAhead'
    BY <1>4 DEF scheduleByTimestampNt, doExecute, ReadingNotAhead, TypeOK, Time
  <2>4. WakeUpArmed' /\ LockedCallback'
    BY <1>4 DEF scheduleByTimestampNt, doExecute, WakeUpArmed, LockedCallback
  <2>5. ArmedDuringCall'
    <3>1. ~needToResetTimer' => queue # <<>>
      <4>1. isScheduled[s] => queue # <<>>
        BY DEF FlagsMatchQueue, Linked
      <4> QED
        BY <1>4, <4>1 DEF scheduleByTimestampNt, insertedAtHead, GoesToHead
    <3> QED
      BY <1>4, <3>1 DEF scheduleByTimestampNt, timerVars, WakeUpArmed,
                        ArmedDuringCall
  <2> QED
    BY <2>1, <2>2, <2>3, <2>4, <2>5
<1>5. ASSUME NEW s \in Sched, NEW t \in Time, scheduleFromCallback(s, t)
      PROVE  IInv'
  <2>1. /\ queue' \in Seq(Sched)
        /\ momentX' \in [Sched -> Time]
        /\ isScheduled' \in [Sched -> BOOLEAN]
        /\ FlagsMatchQueue'
        /\ QueueSorted'
    BY <1>5, InsertTaskKeepsList DEF scheduleFromCallback
  <2>2. TypeOK' /\ ReadingNotAhead' /\ ArmedDuringCall' /\ LockedCallback'
    BY <1>5, <2>1 DEF scheduleFromCallback, execVars, timerVars, TypeOK,
                      ReadingNotAhead, ArmedDuringCall, LockedCallback
  <2>3. WakeUpArmed'
    BY <1>5 DEF scheduleFromCallback, execVars, WakeUpArmed, LockedCallback
  <2> QED
    BY <2>1, <2>2, <2>3
<1>6. CASE executeHead
  <2>1. /\ queue' \in Seq(Sched)
        /\ queue[1] \in Sched
        /\ FlagsMatchQueue'
        /\ QueueSorted'
    BY <1>6, ExecuteHeadKeepsList
  <2>2. TypeOK'
    BY <1>6, <2>1 DEF executeHead, timerVars, TypeOK
  <2>3. ReadingNotAhead' /\ WakeUpArmed' /\ ArmedDuringCall' /\ LockedCallback'
    BY <1>6 DEF executeHead, timerVars, ReadingNotAhead, WakeUpArmed,
                ArmedDuringCall, LockedCallback
  <2> QED
    BY <2>1, <2>2, <2>3
<1>7. CASE callbackReturns
  BY <1>7 DEF callbackReturns, clientVars, timerVars, TypeOK, FlagsMatchQueue,
              QueueSorted, ReadingNotAhead, WakeUpArmed, ArmedDuringCall,
              LockedCallback
<1>8. CASE nextPass
  <2>1. TypeOK'
    BY <1>8 DEF nextPass, clientVars, timerVars, TypeOK
  <2>2. ReadingNotAhead'
    BY <1>8, <2>1 DEF nextPass, ReadingNotAhead, TypeOK, Time
  <2> QED
    BY <1>8, <2>1, <2>2 DEF nextPass, clientVars, timerVars, FlagsMatchQueue,
         QueueSorted, WakeUpArmed, ArmedDuringCall, LockedCallback
<1>9. CASE finishExecute
  <2>1. /\ FlagsMatchQueue' /\ QueueSorted'
        /\ ReadingNotAhead' /\ ArmedDuringCall' /\ LockedCallback'
    BY <1>9 DEF finishExecute, clientVars, FlagsMatchQueue, QueueSorted,
                ReadingNotAhead, ArmedDuringCall, LockedCallback
  <2>2. CASE holder = "timer" \/ needToResetTimer
    <3>1. scheduleTimerCallback
      BY <1>9, <2>2 DEF finishExecute
    <3> QED
      BY <1>9, <2>1, <3>1, TimerCallbackArms
         DEF finishExecute, clientVars, TypeOK, WakeUpArmed
  <2>3. CASE ~(holder = "timer" \/ needToResetTimer)
    BY <1>9, <2>1, <2>3 DEF finishExecute, clientVars, timerVars, TypeOK,
                            WakeUpArmed, ArmedDuringCall
  <2> QED
    BY <2>2, <2>3
<1>10. CASE hwTimerCallback
  <2>1. TypeOK'
    BY <1>10 DEF hwTimerCallback, doExecute, clientVars, TypeOK
  <2>2. ReadingNotAhead'
    BY <1>10, <2>1 DEF hwTimerCallback, doExecute, ReadingNotAhead, TypeOK, Time
  <2> QED
    BY <1>10, <2>1, <2>2 DEF hwTimerCallback, doExecute, clientVars,
         FlagsMatchQueue, QueueSorted, WakeUpArmed, ArmedDuringCall, LockedCallback
<1> QED
  BY <1>1, <1>2, <1>3, <1>4, <1>5, <1>6, <1>7, <1>8, <1>9, <1>10 DEF Next

\* The invariant holds when the firmware starts: nothing scheduled, no alarm.
LEMMA InitIInv == Init => IInv
<1> SUFFICES ASSUME Init PROVE IInv
  OBVIOUS
<1>1. 0 \in Time
  BY ExecutorAssumption DEF Time
<1>2. /\ queue \in Seq(Sched) /\ Len(queue) = 0
      /\ holder \in {"none", "schedule", "timer"}
      /\ calls \in Nat
      /\ momentX \in [Sched -> Time] /\ isScheduled \in [Sched -> BOOLEAN]
  BY <1>1 DEF Init
<1>3. TypeOK
  BY <1>1, <1>2, Zenon DEF Init, TypeOK
<1>4. FlagsMatchQueue /\ QueueSorted
  BY <1>2 DEF Init, FlagsMatchQueue, Linked, Distinct, QueueSorted
<1> QED
  BY <1>3, <1>4 DEF Init, IInv, ReadingNotAhead, WakeUpArmed, ArmedDuringCall,
                    LockedCallback

\* The inductive invariant holds in every reachable state.
THEOREM ExecutorInvariant == Spec => []IInv
<1>1. IInv /\ [Next]_vars => IInv'
  BY StepKeepsIInv
<1> QED
  BY InitIInv, <1>1, PTL DEF Spec

\* Type correctness of the scheduler, for any number of records and any clock.
THEOREM TypeCorrect == Spec => []TypeOK
<1>1. IInv => TypeOK
  BY DEF IInv
<1> QED
  BY ExecutorInvariant, <1>1, PTL

\* The pending list is always sorted and holds exactly the flagged records,
\* each once, whatever threads, interrupts and callbacks schedule.
THEOREM ListConsistent == Spec => [](FlagsMatchQueue /\ QueueSorted)
<1>1. IInv => FlagsMatchQueue /\ QueueSorted
  BY DEF IInv
<1> QED
  BY ExecutorInvariant, <1>1, PTL

\* No record is ever left pending without a hardware wake-up.
THEOREM AlwaysArmed == Spec => []WakeUpArmed
<1>1. IInv => WakeUpArmed
  BY DEF IInv
<1> QED
  BY ExecutorInvariant, <1>1, PTL

\* A delay in whole microseconds is not longer than the time it was rounded from.
LEMMA RoundsDown ==
  ASSUME NEW x \in Int
  PROVE  NT2US(x) \in Int /\ US2NT(NT2US(x)) <= x
<1>1. PICK n \in Nat \ {0} : n = TicksPerUs
  BY ExecutorAssumption
<1>2. x \div n \in Int /\ n * (x \div n) <= x
  BY <1>1
<1> QED
  BY <1>1, <1>2 DEF NT2US, US2NT

\* The bound of the wake-up for a record due at t, armed at lastSetTimerTimeNt.
InTimeFor(t) ==
  \/ alarm <= t + US2NT(MinAlarmUs)
  \/ alarm <= lastSetTimerTimeNt + LateDelay
  \/ alarm <= lastSetTimerTimeNt + US2NT(MinAlarmUs)

\* During a schedule call that will not re-arm the timer, the armed wake-up is in time for
\* the head of the list as the call found it, or, once records have been executed and
\* callbacks have changed the head, for a record due at the time stamp executeAll works
\* with: what is left in the list at the end is later than that.
ArmedInTime ==
  holder = "schedule" /\ ~needToResetTimer /\ ~firmwareError =>
    \/ InTimeFor(nowNt)
    \/ queue # <<>> /\ current = None /\ InTimeFor(momentX[queue[1]])

\* scheduleTimerCallback arms the timer in time for the head of the list.
LEMMA TimerCallbackInTime ==
  ASSUME TypeOK, scheduleTimerCallback, queue # <<>>, ~firmwareError'
  PROVE  \/ alarm' <= momentX[queue[1]] + US2NT(MinAlarmUs)
         \/ alarm' <= lastSetTimerTimeNt' + LateDelay
         \/ alarm' <= lastSetTimerTimeNt' + US2NT(MinAlarmUs)
<1>1. /\ alarm' = UpToBound(now + US2NT(alarmDelayUs)) /\ lastSetTimerTimeNt' = now
  BY DEF scheduleTimerCallback
<1>2. PICK m \in Nat : m = momentX[queue[1]]
  <2>1. queue[1] \in Sched
    BY DEF TypeOK
  <2> QED
    BY <2>1 DEF TypeOK, Time
<1>3. now \in Nat /\ TimeBound \in Nat /\ LateDelay \in Nat /\ WordSpan \in Nat \ {0}
  BY ExecutorAssumption DEF TypeOK, Time
<1>4. PICK next \in Nat : /\ next = getNextEventTime(now)
                          /\ next = m \/ next = now + LateDelay
  <2>1. getNextEventTime(now) = IF m <= now THEN now + LateDelay ELSE m
    BY <1>2 DEF getNextEventTime
  <2>2. now + LateDelay \in Nat
    BY <1>3
  <2> QED
    BY <1>2, <2>1, <2>2
<1>5. PICK d \in Int : d = Int32Difference(next, now) /\ d <= next - now
  <2>1. next - now \in Int /\ WordSpan \in Nat
    BY <1>3
  <2>2. \/ Int32Difference(next, now) = next - now
        \/ Int32Difference(next, now) = next - now - WordSpan
    BY DEF Int32Difference
  <2>3. Int32Difference(next, now) \in Int /\ Int32Difference(next, now) <= next - now
    BY <1>3, <2>1, <2>2
  <2> QED
    BY <2>3
<1>6. NT2US(d) \in Int /\ US2NT(NT2US(d)) <= d
  BY RoundsDown
<1>7. /\ US2NT(MinAlarmUs) \in Nat /\ US2NT(NT2US(d)) \in Int
  BY <1>6, ExecutorAssumption DEF US2NT, MinAlarmUs
<1>8. alarmDelayUs = MinAlarmUs \/ alarmDelayUs = NT2US(d)
  BY <1>4, <1>5 DEF alarmDelayUs
<1>9. \A t \in Int : UpToBound(t) \in Int /\ UpToBound(t) <= t
  BY <1>3 DEF UpToBound
<1>10. CASE alarmDelayUs = MinAlarmUs
  BY <1>1, <1>3, <1>7, <1>9, <1>10
<1>11. CASE alarmDelayUs = NT2US(d)
  <2>1. now + US2NT(NT2US(d)) \in Int /\ now + US2NT(NT2US(d)) <= next
    BY <1>3, <1>5, <1>6, <1>7
  <2>2. alarm' \in Int /\ alarm' <= next
    BY <1>1, <1>9, <1>11, <2>1
  <2> QED
    BY <1>1, <1>2, <1>3, <1>4, <1>7, <2>2
<1> QED
  BY <1>8, <1>10, <1>11

\* A schedule call that does not go to the head of the list leaves the head alone.
LEMMA HeadStays ==
  ASSUME TypeOK, FlagsMatchQueue, NEW s \in Sched, NEW t \in Time,
         insertTask(s, t), ~insertedAtHead(s, t)
  PROVE  /\ queue # <<>> /\ queue' # <<>>
         /\ queue'[1] = queue[1] /\ momentX'[queue'[1]] = momentX[queue[1]]
<1>1. CASE isScheduled[s]
  <2>1. queue # <<>>
    BY <1>1 DEF FlagsMatchQueue, Linked
  <2> QED
    BY <1>1, <2>1 DEF insertTask, clientVars
<1>2. CASE ~isScheduled[s]
  <2>1. ~GoesToHead(queue, t) /\ queue # <<>>
    BY <1>2 DEF insertedAtHead, GoesToHead
  <2>2. PICK p \in 1 .. Len(queue) + 1 :
          /\ p >= 2 /\ queue' = InsertAtPosition(queue, p, s)
          /\ momentX' = [momentX EXCEPT ![s] = t]
    BY <1>2, <2>1 DEF insertTask, IsInsertPosition
  <2>3. queue \in Seq(Sched) /\ momentX \in [Sched -> Time] /\ 1 \in 1 .. Len(queue)
    BY <2>1 DEF TypeOK
  <2>4. queue'[1] = queue[1] /\ queue' # <<>>
    BY <2>2, <2>3 DEF InsertAtPosition
  <2>5. queue[1] # s /\ queue[1] \in Sched
    BY <1>2, <2>3 DEF FlagsMatchQueue, Linked
  <2> QED
    BY <2>1, <2>2, <2>3, <2>4, <2>5
<1> QED
  BY <1>1, <1>2

\* The wake-up that is armed comes in time for the record at the head of the list, although
\* callbacks change the list and most schedule calls leave the timer alone.
THEOREM WakeUpInTime == Spec => []AlarmNotLate
<1>1. Init => AlarmNotLate /\ ArmedInTime
  BY DEF Init, AlarmNotLate, ArmedInTime
<1>2. IInv /\ AlarmNotLate /\ ArmedInTime /\ [Next]_vars => AlarmNotLate' /\ ArmedInTime'
  <2> SUFFICES ASSUME IInv, AlarmNotLate, ArmedInTime, [Next]_vars
               PROVE  AlarmNotLate' /\ ArmedInTime'
    OBVIOUS
  <2>1. /\ TypeOK /\ FlagsMatchQueue /\ ReadingNotAhead /\ ArmedDuringCall /\ WakeUpArmed
        /\ LockedCallback
    BY DEF IInv
  <2>2. /\ now \in Nat /\ nowNt \in Nat /\ lastSetTimerTimeNt \in Nat /\ LateDelay \in Nat
        /\ US2NT(MinAlarmUs) \in Nat /\ (alarm # None => alarm \in Nat)
        /\ (queue # <<>> => momentX[queue[1]] \in Nat)
    <3>1. US2NT(MinAlarmUs) \in Nat
      BY ExecutorAssumption DEF US2NT, MinAlarmUs
    <3>2. queue # <<>> => queue[1] \in Sched
      BY <2>1 DEF TypeOK
    <3> QED
      BY <2>1, <3>1, <3>2, ExecutorAssumption DEF TypeOK, Time
  <2>3. CASE Tick \/ UNCHANGED vars
    BY <2>3 DEF Tick, vars, clientVars, execVars, timerVars, AlarmNotLate, ArmedInTime, InTimeFor
  <2>4. ASSUME NEW t \in Time, scheduleTooFar(t) PROVE AlarmNotLate' /\ ArmedInTime'
    BY <2>4 DEF scheduleTooFar, AlarmNotLate, ArmedInTime
  <2>5. ASSUME NEW s \in Sched, NEW t \in Time, scheduleByTimestampNt(s, t)
        PROVE  AlarmNotLate' /\ ArmedInTime'
    <3>1. /\ holder = "none" /\ holder' = "schedule" /\ current' = None
          /\ needToResetTimer' = insertedAtHead(s, t) /\ insertTask(s, t)
          /\ UNCHANGED <<alarm, lastSetTimerTimeNt, firmwareError>>
      BY <2>5 DEF scheduleByTimestampNt, doExecute, timerVars
    <3>2. ASSUME ~insertedAtHead(s, t), ~firmwareError
          PROVE  queue' # <<>> /\ InTimeFor(momentX[queue[1]])'
      <4>1. /\ queue # <<>> /\ queue' # <<>>
            /\ momentX'[queue'[1]] = momentX[queue[1]]
        BY <2>1, <3>1, <3>2, HeadStays
      <4> QED
        BY <3>1, <3>2, <4>1 DEF AlarmNotLate, InTimeFor
    <3> QED
      BY <3>1, <3>2 DEF AlarmNotLate, ArmedInTime
  <2>6. ASSUME NEW s \in Sched, NEW t \in Time, scheduleFromCallback(s, t)
        PROVE  AlarmNotLate' /\ ArmedInTime'
    BY <2>1, <2>6 DEF scheduleFromCallback, execVars, timerVars, AlarmNotLate, ArmedInTime,
       InTimeFor, LockedCallback
  <2>7. CASE executeHead
    <3>1. /\ holder # "none" /\ HeadIsDue /\ holder' = holder /\ nowNt' = nowNt
          /\ UNCHANGED <<needToResetTimer, firmwareError, alarm, lastSetTimerTimeNt>>
      BY <2>7 DEF executeHead, timerVars
    <3>2. ASSUME holder = "schedule", ~needToResetTimer, ~firmwareError PROVE InTimeFor(nowNt)
      <4>1. InTimeFor(nowNt) \/ (queue # <<>> /\ InTimeFor(momentX[queue[1]]))
        BY <3>2 DEF ArmedInTime
      <4>2. alarm \in Nat
        BY <2>1, <2>2, <3>2 DEF ArmedDuringCall
      <4>3. queue # <<>> /\ momentX[queue[1]] <= nowNt
        BY <3>1 DEF HeadIsDue
      <4> QED
        BY <2>2, <4>1, <4>2, <4>3 DEF InTimeFor
    <3> QED
      BY <3>1, <3>2 DEF AlarmNotLate, ArmedInTime, InTimeFor
  <2>8. CASE callbackReturns
    BY <2>1, <2>8 DEF callbackReturns, clientVars, timerVars, AlarmNotLate, ArmedInTime, InTimeFor,
       LockedCallback
  <2>9. CASE nextPass
    <3>1. /\ holder # "none" /\ nowNt' = now /\ nowNt <= now
          /\ UNCHANGED <<holder, needToResetTimer, firmwareError, alarm, lastSetTimerTimeNt,
                         queue, momentX, current>>
      BY <2>1, <2>9 DEF nextPass, clientVars, timerVars, ReadingNotAhead
    <3>2. ASSUME alarm \in Nat, InTimeFor(nowNt) PROVE InTimeFor(nowNt)'
      BY <2>2, <3>1, <3>2 DEF InTimeFor
    <3>3. holder = "schedule" /\ ~needToResetTimer /\ ~firmwareError => alarm \in Nat
      BY <2>1, <2>2 DEF ArmedDuringCall
    <3>4. ArmedInTime'
      BY <3>1, <3>2, <3>3 DEF ArmedInTime, InTimeFor
    <3> QED
      BY <3>1, <3>4 DEF AlarmNotLate
  <2>10. CASE finishExecute
    <3>1. /\ holder # "none" /\ holder' = "none" /\ current = None /\ ~HeadIsDue
          /\ UNCHANGED <<queue, momentX>>
      BY <2>10 DEF finishExecute, clientVars
    <3>2. CASE holder = "timer" \/ needToResetTimer
      <4>1. scheduleTimerCallback
        BY <2>10, <3>2 DEF finishExecute
      <4> QED
        BY <2>1, <3>1, <4>1, TimerCallbackInTime DEF AlarmNotLate, ArmedInTime
    <3>3. CASE ~(holder = "timer" \/ needToResetTimer)
      <4>1. /\ holder = "schedule" /\ UNCHANGED <<alarm, lastSetTimerTimeNt, firmwareError>>
        BY <2>1, <2>10, <3>1, <3>3 DEF finishExecute, timerVars, TypeOK
      <4>2. ASSUME ~firmwareError, queue # <<>> PROVE InTimeFor(momentX[queue[1]])
        <5>1. InTimeFor(nowNt) \/ InTimeFor(momentX[queue[1]])
          BY <3>3, <4>1, <4>2 DEF ArmedInTime
        <5>2. alarm \in Nat
          BY <2>1, <2>2, <3>3, <4>1, <4>2 DEF ArmedDuringCall
        <5>3. nowNt < momentX[queue[1]]
          BY <2>2, <3>1, <4>2 DEF HeadIsDue
        <5> QED
          BY <2>2, <4>2, <5>1, <5>2, <5>3 DEF InTimeFor
      <4> QED
        BY <3>1, <4>1, <4>2 DEF AlarmNotLate, ArmedInTime, InTimeFor
    <3> QED
      BY <3>2, <3>3
  <2>11. CASE hwTimerCallback
    BY <2>11 DEF hwTimerCallback, doExecute, AlarmNotLate, ArmedInTime
  <2> QED
    BY <2>3, <2>4, <2>5, <2>6, <2>7, <2>8, <2>9, <2>10, <2>11 DEF Next
<1> QED
  BY <1>1, <1>2, ExecutorInvariant, PTL DEF Spec

\* A timestamp that is not too far ahead does not become so as time passes.
LEMMA TooFarMonotone ==
  ASSUME NEW t \in Nat, NEW a \in Nat, NEW b \in Nat, a <= b,
         t > b, NT2US(t - b) >= TooFarUs
  PROVE  t > a /\ NT2US(t - a) >= TooFarUs
<1>1. \A x, y \in Nat : x <= y => x \div TicksPerUs <= y \div TicksPerUs
  BY ExecutorAssumption
<1>2. t - b \in Nat /\ t - a \in Nat /\ t - b <= t - a /\ t > a
  OBVIOUS
<1>3. NT2US(t - b) <= NT2US(t - a)
  BY <1>1, <1>2 DEF NT2US
<1>4. NT2US(t - b) \in Int /\ NT2US(t - a) \in Int
  BY <1>2, ExecutorAssumption DEF NT2US
<1> QED
  BY <1>2, <1>3, <1>4, ExecutorAssumption

\* No pending record is too far ahead: what was within reach when it was accepted stays so.
WithinReach == \A s \in Sched : isScheduled[s] => ~TooFar(momentX[s])

\* Whatever threads, interrupts and callbacks schedule, every pending record is within
\* the reach of the timer.
LEMMA StaysWithinReach == IInv /\ IInv' /\ WithinReach /\ [Next]_vars => WithinReach'
<1> SUFFICES ASSUME IInv, IInv', WithinReach, [Next]_vars,
                    NEW s \in Sched, isScheduled'[s], TooFar(momentX[s])'
             PROVE  FALSE
  BY DEF WithinReach
<1>1. /\ now \in Nat /\ now' \in Nat /\ momentX'[s] \in Nat
      /\ momentX \in [Sched -> Time] /\ isScheduled \in [Sched -> BOOLEAN]
  BY ExecutorAssumption DEF IInv, TypeOK, Time
<1>2. now <= now'
  BY <1>1 DEF Next, vars, Tick, scheduleTooFar, scheduleByTimestampNt,
              scheduleFromCallback, executeHead, callbackReturns, nextPass,
              finishExecute, hwTimerCallback
<1>3. TooFar(momentX'[s])
  BY <1>1, <1>2, TooFarMonotone DEF TooFar, NT2US
<1>4. (isScheduled[s] /\ momentX'[s] = momentX[s]) \/ ~TooFar(momentX'[s])
  <2>1. ASSUME NEW r \in Sched, NEW t \in Time, insertTask(r, t), ~TooFar(t)
        PROVE  (isScheduled[s] /\ momentX'[s] = momentX[s]) \/ ~TooFar(momentX'[s])
    BY <1>1, <2>1 DEF insertTask, clientVars
  <2>2. CASE executeHead
    <3>1. queue[1] \in Sched
      BY <2>2, ExecuteHeadKeepsList DEF IInv
    <3> QED
      BY <1>1, <2>2, <3>1 DEF executeHead
  <2> QED
    BY <2>1, <2>2 DEF Next, vars, clientVars, Tick, scheduleTooFar,
         scheduleByTimestampNt, scheduleFromCallback, callbackReturns, nextPass,
         finishExecute, hwTimerCallback
<1> QED
  BY <1>3, <1>4 DEF WithinReach

\* Microseconds do not decrease with ticks, for negative (wrapped) differences either.
LEMMA MicrosecondsMonotone ==
  ASSUME NEW x \in Int, NEW y \in Int, x <= y
  PROVE  NT2US(x) \in Int /\ NT2US(y) \in Int /\ NT2US(x) <= NT2US(y)
<1>1. PICK k \in Nat \ {0} : k = TicksPerUs
  BY ExecutorAssumption
<1>2. x \div k \in Int /\ y \div k \in Int /\ x \div k <= y \div k
  BY <1>1
<1> QED
  BY <1>1, <1>2 DEF NT2US

\* The delay that scheduleTimerCallback computes for the head of the list, be it late or
\* ahead, is one that setHardwareUsTimer takes.
LEMMA DelayTaken ==
  ASSUME TypeOK, FlagsMatchQueue, WithinReach, queue # <<>>
  PROVE  alarmDelayUs < TooFarUs
<1>1. PICK h \in Sched : h = queue[1] /\ isScheduled[h] /\ momentX[h] \in Nat
  <2>1. queue \in Seq(Sched) /\ 1 \in 1 .. Len(queue)
    BY DEF TypeOK
  <2>2. queue[1] \in Linked(queue) /\ queue[1] \in Sched
    BY <2>1 DEF Linked
  <2> QED
    BY <2>2 DEF TypeOK, Time, FlagsMatchQueue
<1>2. /\ now \in Nat /\ LateDelay \in Nat /\ WordSpan \in Nat /\ TooFarUs \in Nat
      /\ MinAlarmUs < TooFarUs /\ NT2US(LateDelay) < TooFarUs
  BY ExecutorAssumption DEF TypeOK, Time, NT2US
<1>3. PICK d \in Nat : d = getNextEventTime(now) - now /\ NT2US(d) < TooFarUs
  <2>1. CASE momentX[h] <= now
    BY <1>1, <1>2, <2>1 DEF getNextEventTime
  <2>2. CASE ~(momentX[h] <= now)
    <3>1. momentX[h] > now /\ momentX[h] - now \in Nat
      BY <1>1, <1>2, <2>2
    <3>2. NT2US(momentX[h] - now) \in Int
      BY <3>1, MicrosecondsMonotone
    <3>3. ~(NT2US(momentX[h] - now) >= TooFarUs)
      BY <1>1, <3>1 DEF WithinReach, TooFar
    <3>4. getNextEventTime(now) = momentX[h]
      BY <1>1, <2>2 DEF getNextEventTime
    <3> QED
      BY <1>2, <3>1, <3>2, <3>3, <3>4
  <2> QED
    BY <2>1, <2>2
<1>4. PICK e \in Int : e = Int32Difference(getNextEventTime(now), now) /\ e <= d
  <2>1. d \in Int /\ d - WordSpan \in Int /\ d - WordSpan <= d
    BY <1>2
  <2>2. \/ Int32Difference(getNextEventTime(now), now) = d
        \/ Int32Difference(getNextEventTime(now), now) = d - WordSpan
    BY <1>3 DEF Int32Difference
  <2> QED
    BY <2>1, <2>2
<1>5. NT2US(e) \in Int /\ NT2US(e) < TooFarUs
  BY <1>2, <1>3, <1>4, MicrosecondsMonotone
<1>6. alarmDelayUs = NT2US(e) \/ alarmDelayUs = MinAlarmUs
  BY <1>4 DEF alarmDelayUs
<1> QED
  BY <1>2, <1>5, <1>6

\* The timer takes every delay it is given: no step that releases the lock, after a
\* schedule call or a timer interrupt, ends in the "too far" error of setHardwareUsTimer.
THEOREM NeverRefused == Spec => NoTimerOverflow
<1>1. Init => WithinReach
  BY DEF Init, WithinReach
<1>2. IInv /\ WithinReach /\ [Next]_vars
        => (holder # "none" /\ holder' = "none" => (firmwareError' => firmwareError))
  <2> SUFFICES ASSUME IInv, WithinReach, [Next]_vars, holder # "none", holder' = "none",
                      firmwareError', ~firmwareError
               PROVE  FALSE
    OBVIOUS
  <2>1. finishExecute
    BY DEF Next, vars, clientVars, execVars, timerVars, Tick, scheduleTooFar,
       scheduleByTimestampNt, scheduleFromCallback, executeHead, callbackReturns, nextPass,
       hwTimerCallback, doExecute
  <2>2. scheduleTimerCallback
    BY <2>1 DEF finishExecute, timerVars
  <2>3. queue # <<>> /\ alarmDelayUs >= TooFarUs
    BY <2>2 DEF scheduleTimerCallback, timerVars
  <2>4. alarmDelayUs < TooFarUs
    BY <2>3, DelayTaken DEF IInv
  <2>5. alarmDelayUs \in Int /\ TooFarUs \in Int
    BY <2>3, ArmDelayType, ExecutorAssumption DEF IInv
  <2> QED
    BY <2>3, <2>4, <2>5
<1>3. IInv /\ WithinReach /\ [Next]_vars
        => [holder # "none" /\ holder' = "none" => (firmwareError' => firmwareError)]_vars
  BY <1>2
<1> QED
  BY <1>1, <1>3, StaysWithinReach, ExecutorInvariant, PTL DEF Spec, NoTimerOverflow

-----------------------------------------------------------------------------
(* Refinement of PendingEvents *)

\* The timestamp each record waits for: the refinement mapping.
PendingMap == [s \in Sched |-> IF isScheduled[s] THEN momentX[s] ELSE None]

\* A call of insertTask is a Schedule step, or nothing if the record is pending.
LEMMA InsertTaskRefines ==
  ASSUME TypeOK, NEW s \in Sched, NEW t \in Time, insertTask(s, t), now' = now
  PROVE  Pending!Schedule(s, t) \/ UNCHANGED <<now, PendingMap>>
<1>1. CASE isScheduled[s]
  BY <1>1 DEF insertTask, clientVars, PendingMap
<1>2. CASE ~isScheduled[s]
  <2>1. /\ momentX' = [momentX EXCEPT ![s] = t]
        /\ isScheduled' = [isScheduled EXCEPT ![s] = TRUE]
    BY <1>2 DEF insertTask
  <2>2. PendingMap[s] = None
    BY <1>2 DEF PendingMap
  <2>3. PendingMap' = [PendingMap EXCEPT ![s] = t]
    BY <2>1 DEF PendingMap, TypeOK
  <2> QED
    BY <2>2, <2>3 DEF Pending!Schedule, PendingMap
<1> QED
  BY <1>1, <1>2

\* Starting the callback of the head is a Fire step: the head is due, and
\* because the list is sorted and complete no pending record is earlier.
LEMMA ExecuteHeadRefines ==
  ASSUME IInv, executeHead
  PROVE  Pending!Fire(queue[1])
<1> DEFINE h == queue[1]
<1>1. TypeOK /\ FlagsMatchQueue /\ QueueSorted /\ nowNt <= now
  BY DEF IInv, ReadingNotAhead
<1>2. /\ queue # <<>> /\ momentX[h] <= nowNt
      /\ momentX' = momentX /\ now' = now
      /\ isScheduled' = [isScheduled EXCEPT ![h] = FALSE]
  BY DEF executeHead, HeadIsDue
<1>3. h \in Sched /\ isScheduled[h] /\ 1 \in 1 .. Len(queue)
  <2>1. 1 \in 1 .. Len(queue)
    BY <1>1, <1>2 DEF TypeOK
  <2> QED
    BY <1>1, <2>1, ExecuteHeadKeepsList
<1>4. momentX \in [Sched -> Time] /\ Time \subseteq Nat /\ now \in Nat /\ nowNt \in Nat
  BY <1>1, ExecutorAssumption DEF TypeOK, Time
<1>5. PendingMap[h] = momentX[h] /\ PendingMap[h] # None
  BY <1>3, <1>4, ExecutorAssumption DEF PendingMap
<1>6. PendingMap[h] <= now
  <2>1. momentX[h] \in Nat
    BY <1>3, <1>4
  <2> QED
    BY <1>1, <1>2, <1>4, <1>5, <2>1
<1>7. ASSUME NEW r \in Sched, PendingMap[r] # None
      PROVE  PendingMap[h] <= PendingMap[r]
  <2>1. isScheduled[r] /\ PendingMap[r] = momentX[r]
    BY <1>7 DEF PendingMap
  <2>2. PICK i \in 1 .. Len(queue) : queue[i] = r
    BY <1>1, <2>1 DEF FlagsMatchQueue, Linked
  <2>3. momentX[queue[1]] <= momentX[queue[i]]
    BY <1>1, <1>3 DEF QueueSorted
  <2> QED
    BY <1>5, <2>1, <2>2, <2>3
<1>8. PendingMap' = [PendingMap EXCEPT ![h] = None]
  BY <1>1, <1>2, <1>3 DEF PendingMap, TypeOK
<1> QED
  BY <1>2, <1>5, <1>6, <1>7, <1>8 DEF Pending!Due, Pending!Fire, PendingMap

\* Every step of the executor is a step of PendingEvents or a stutter.
LEMMA StepRefines ==
  ASSUME IInv, [Next]_vars
  PROVE  [Pending!Next]_(Pending!vars)
<1>1. ASSUME UNCHANGED <<now, PendingMap>> PROVE UNCHANGED Pending!vars
  BY <1>1 DEF Pending!vars, PendingMap
<1>2. ASSUME NEW s \in Sched, NEW t \in Time, insertTask(s, t), now' = now
      PROVE  [Pending!Next]_(Pending!vars)
  BY <1>1, <1>2, InsertTaskRefines DEF IInv, Pending!Next, Pending!Time, Time
<1>3. CASE UNCHANGED vars
  BY <1>1, <1>3 DEF vars, clientVars, PendingMap
<1>4. CASE Tick
  <2>1. PendingMap' = PendingMap
    BY <1>4 DEF Tick, clientVars, PendingMap
  <2> QED
    BY <1>4, <2>1 DEF Tick, PendingMap, Pending!Next, Pending!Tick
<1>5. ASSUME NEW t \in Time, scheduleTooFar(t) PROVE UNCHANGED <<now, PendingMap>>
  BY <1>5 DEF scheduleTooFar, clientVars, PendingMap
<1>6. ASSUME NEW s \in Sched, NEW t \in Time, scheduleByTimestampNt(s, t)
      PROVE  [Pending!Next]_(Pending!vars)
  BY <1>2, <1>6 DEF scheduleByTimestampNt
<1>7. ASSUME NEW s \in Sched, NEW t \in Time, scheduleFromCallback(s, t)
      PROVE  [Pending!Next]_(Pending!vars)
  BY <1>2, <1>7 DEF scheduleFromCallback
<1>8. CASE executeHead
  <2>1. queue[1] \in Sched
    BY <1>8, ExecuteHeadKeepsList DEF IInv
  <2>2. Pending!Fire(queue[1])
    BY <1>8, ExecuteHeadRefines
  <2>3. \E s \in Sched : Pending!Fire(s)
    BY <2>1, <2>2 DEF Pending!Due, Pending!Fire
  <2> QED
    BY <2>3 DEF Pending!Next
<1>9. ASSUME callbackReturns \/ nextPass \/ finishExecute \/ hwTimerCallback
      PROVE  UNCHANGED <<now, PendingMap>>
  BY <1>9 DEF callbackReturns, nextPass, finishExecute, hwTimerCallback,
              clientVars, PendingMap
<1> QED
  BY <1>1, <1>3, <1>4, <1>5, <1>6, <1>7, <1>8, <1>9 DEF Next

\* The executor keeps the promise of ExecutorInterface: no callback is early,
\* none overtakes an earlier one, each successful call leads to one start.
THEOREM Refinement == Spec => ImplementsPending
<1>1. Init => Pending!Init
  BY DEF Init, Pending!Init
<1>2. IInv /\ [Next]_vars => [Pending!Next]_(Pending!vars)
  BY StepRefines
<1> QED
  BY <1>1, <1>2, ExecutorInvariant, PTL DEF Spec, ImplementsPending, Pending!Spec

=============================================================================
