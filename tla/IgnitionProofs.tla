---------------------------- MODULE IgnitionProofs ----------------------------
(***************************************************************************)
(* Proofs about Ignition for every number of cylinders and teeth, every    *)
(* multispark and every bound; and about TriggerPosition, which finds the  *)
(* tooth that an angle of Ignition is scheduled from, for every wheel that *)
(* is decoded on both edges.                                               *)
(***************************************************************************)
EXTENDS Ignition, TriggerPosition, FiniteSetTheorems, FunctionTheorems, SequenceTheorems,
        WellFoundedInduction, TLAPS

\* The bounds leave room for the timers that the trigger handler is about to schedule.
RoomForTimers == handler # None => toothTime + MaxOffset < TimeBound

\* A spark is scheduled for an event of the schedule, by an engine that turns.
HandlerKnown ==
  handler # None => spinning /\ (handler.earliest # None => handler.next \in Cylinder)

BasicInv == TypeOK /\ RoomForTimers /\ HandlerKnown

\* The spark of event i is still to come.
SparkToCome(i) ==
  \/ pending[Spark(i)] # None
  \/ Contains(angleBasedEvents, i)
  \/ handler # None /\ handler.earliest # None /\ handler.next = i

Charging(i) == \E c \in coilsOf[i] : pin[c]

\* Every coil of event i has been fired ahead of the dwell that is pending.
Overtaken(i) == \A c \in coilsOf[i] : outOfOrder[c] /\ signalFallSparkId[c] = sparkId[i]

\* The handler is going to start the dwell of event i.
DwellToCome(i) ==
  /\ handler # None /\ dwellPosition[i] = tooth
  /\ handler.next < i \/ (handler.next = i /\ handler.earliest = None)

\* A dwell that is pending finds its coils discharged, and does not charge them
\* without a spark to come.
DwellInv ==
  \A i \in Cylinder : pending[Dwell(i)] # None =>
    ~Charging(i) /\ (SparkToCome(i) \/ Overtaken(i))

\* A coil that is charging has its own spark to come.
ChargeInv == \A i \in Cylinder : Charging(i) => SparkToCome(i)

\* No charge and no spark stands in the way of a dwell that is to come.
ToothInv ==
  \A i \in Cylinder : DwellToCome(i) =>
    /\ ~Charging(i) /\ pending[Spark(i)] = None
    /\ pending[Dwell(i)] # None => Overtaken(i)

\* Only the coils of events are ever charged.
CoilsKnown == \A c \in Cylinder : pin[c] => \E i \in Cylinder : c \in coilsOf[i]

CoilGoal == DwellInv /\ ChargeInv /\ ToothInv /\ CoilsKnown

CoilInv == BasicInv /\ CoilGoal

-----------------------------------------------------------------------------
(* The list of angle-based events *)

\* Deleting events from the list keeps the others, each as often as it was there.
LEMMA Without ==
  ASSUME NEW S, NEW list \in Seq(S), NEW es
  PROVE  /\ without(list, es) \in Seq(S)
         /\ \A x : Contains(without(list, es), x) <=> Contains(list, x) /\ x \notin es
         /\ IsInjective(list) => IsInjective(without(list, es))
<1> DEFINE kept == {k \in DOMAIN list : list[k] \notin es}
           N == Cardinality(kept)
           below(k) == {j \in kept : j <= k}
           at(n) == CHOOSE k \in kept : Cardinality(below(k)) = n
           rest == [n \in 1 .. N |-> list[at(n)]]
<1>0. DOMAIN list = 1 .. Len(list) /\ Len(list) \in Nat /\ \A k \in 1 .. Len(list) : list[k] \in S
  OBVIOUS
<1>1. kept \subseteq 1 .. Len(list) /\ IsFiniteSet(kept) /\ N \in Nat
  <2>1. kept \in SUBSET (1 .. Len(list)) /\ IsFiniteSet(1 .. Len(list))
    BY <1>0, FS_Interval
  <2>2. IsFiniteSet(kept)
    BY <2>1, FS_Subset
  <2> QED
    BY <2>1, <2>2, FS_CardinalityType
<1>2. \A k \in kept : /\ below(k) \in SUBSET kept /\ IsFiniteSet(below(k))
                      /\ Cardinality(below(k)) \in 1 .. N
  <2> SUFFICES ASSUME NEW k \in kept
               PROVE  /\ below(k) \in SUBSET kept /\ IsFiniteSet(below(k))
                      /\ Cardinality(below(k)) \in 1 .. N
    OBVIOUS
  <2>1. below(k) \in SUBSET kept /\ k \in below(k)
    BY <1>1
  <2> HIDE DEF below, kept
  <2>2. IsFiniteSet(below(k)) /\ Cardinality(below(k)) <= N
    BY <1>1, <2>1, FS_Subset
  <2>3. Cardinality(below(k)) \in Nat /\ Cardinality(below(k)) # 0
    BY <2>1, <2>2, FS_CardinalityType, FS_EmptySet
  <2> QED
    BY <1>1, <2>1, <2>2, <2>3
<1>3. \A k, l \in kept : k < l => Cardinality(below(k)) # Cardinality(below(l))
  <2> SUFFICES ASSUME NEW k \in kept, NEW l \in kept, k < l
               PROVE  Cardinality(below(k)) # Cardinality(below(l))
    OBVIOUS
  <2>1. below(k) \in SUBSET below(l) /\ l \in below(l) /\ l \notin below(k)
    BY <1>1
  <2> HIDE DEF below, kept
  <2> QED
    BY <1>2, <2>1, FS_Subset
<1>4. \A n \in 1 .. N : \E k \in kept : Cardinality(below(k)) = n
  <2> DEFINE f == [k \in kept |-> Cardinality(below(k))]
  <2>1. f \in [kept -> 1 .. N]
    BY <1>2
  <2>2. \A k, l \in kept : f[k] = f[l] => k = l
    <3>1. \A k, l \in kept : k < l \/ l < k \/ k = l
      BY <1>1
    <3> HIDE DEF below, kept
    <3> QED
      BY <1>3, <3>1
  <2>3. f \in Injection(kept, 1 .. N)
    BY <2>1, <2>2 DEF Injection, IsInjective
  <2>4. IsFiniteSet(1 .. N) /\ Cardinality(1 .. N) = N
    BY <1>1, FS_Interval
  <2> HIDE DEF f, kept
  <2>5. f \in Surjection(kept, 1 .. N)
    BY <2>3, <2>4, FS_Injection
  <2> QED
    BY <2>5 DEF Surjection, f
<1>5. \A n \in 1 .. N : at(n) \in kept /\ Cardinality(below(at(n))) = n
  <2> HIDE DEF kept, below
  <2> QED
    BY <1>4
<1>6. \A k \in kept : at(Cardinality(below(k))) = k
  <2>1. \A k, l \in kept : k < l \/ l < k \/ k = l
    BY <1>1
  <2> HIDE DEF kept, below, at
  <2> QED
    BY <1>2, <1>3, <1>5, <2>1
<1>7. without(list, es) = rest
  BY DEF without
<1>8. rest \in Seq(S) /\ Len(rest) = N /\ DOMAIN rest = 1 .. N
  <2>1. \A n \in 1 .. N : list[at(n)] \in S
    BY <1>0, <1>1, <1>5
  <2> HIDE DEF at, N
  <2> QED
    BY <1>1, <2>1
<1>9. \A x : Contains(rest, x) <=> Contains(list, x) /\ x \notin es
  <2> TAKE x
  <2>1. ASSUME Contains(rest, x) PROVE Contains(list, x) /\ x \notin es
    <3>1. PICK n \in 1 .. N : list[at(n)] = x
      BY <1>8, <2>1 DEF Contains
    <3> QED
      BY <1>1, <1>5, <3>1 DEF Contains
  <2>2. ASSUME Contains(list, x), x \notin es PROVE Contains(rest, x)
    <3>1. PICK k \in 1 .. Len(list) : list[k] = x
      BY <2>2 DEF Contains
    <3>2. k \in kept
      BY <1>0, <2>2, <3>1
    <3> DEFINE n == Cardinality(below(k))
    <3>3. n \in 1 .. N /\ at(n) = k
      BY <1>2, <1>6, <3>2
    <3>4. rest[n] = x
      BY <3>1, <3>3
    <3> HIDE DEF n, rest
    <3> QED
      BY <1>8, <3>3, <3>4 DEF Contains
  <2> QED
    BY <2>1, <2>2
<1>10. ASSUME IsInjective(list) PROVE IsInjective(rest)
  <2>1. \A n \in 1 .. N : rest[n] = list[at(n)] /\ at(n) \in DOMAIN list
    BY <1>0, <1>1, <1>5
  <2>2. ASSUME NEW m \in 1 .. N, NEW n \in 1 .. N, rest[m] = rest[n] PROVE m = n
    <3>1. at(m) = at(n)
      BY <1>10, <2>1, <2>2 DEF IsInjective
    <3> HIDE DEF at, below, kept
    <3> QED
      BY <1>5, <2>2, <3>1
  <2> HIDE DEF rest
  <2> QED
    BY <1>8, <2>2 DEF IsInjective
<1> HIDE DEF rest
<1> QED
  BY <1>7, <1>8, <1>9, <1>10

\* Appending an event that is not in the list keeps the list free of repetitions.
LEMMA AppendOnce ==
  ASSUME NEW S, NEW list \in Seq(S), NEW i \in S
  PROVE  /\ appendOnce(list, i) \in Seq(S)
         /\ \A x : Contains(appendOnce(list, i), x) <=> Contains(list, x) \/ x = i
         /\ IsInjective(list) => IsInjective(appendOnce(list, i))
<1>1. CASE Contains(list, i)
  BY <1>1 DEF appendOnce
<1>2. CASE ~Contains(list, i)
  <2> DEFINE longer == Append(list, i)
  <2>0. appendOnce(list, i) = longer
    BY <1>2 DEF appendOnce
  <2>1. /\ longer \in Seq(S) /\ Len(longer) = Len(list) + 1 /\ DOMAIN longer = 1 .. Len(list) + 1
        /\ \A k \in 1 .. Len(list) : longer[k] = list[k]
        /\ longer[Len(list) + 1] = i /\ Len(list) \in Nat /\ DOMAIN list = 1 .. Len(list)
    OBVIOUS
  <2> HIDE DEF longer
  <2>2. \A x : Contains(longer, x) <=> Contains(list, x) \/ x = i
    BY <2>1 DEF Contains
  <2>3. IsInjective(list) => IsInjective(longer)
    BY <1>2, <2>1 DEF Contains, IsInjective
  <2> QED
    BY <2>0, <2>1, <2>2, <2>3
<1> QED
  BY <1>1, <1>2

-----------------------------------------------------------------------------
(* Types *)

\* What the assumption says of each constant.
LEMMA Constants ==
  /\ cylindersCount \in Nat \ {0} /\ toothCount \in Nat \ {0}
  /\ coilsOf \in [Cylinder -> SUBSET Cylinder]
  /\ MultisparkCount \in Nat /\ MultisparkDelay \in Nat /\ MultisparkDwell \in Nat
  /\ MaxOffset \in Nat /\ TimeBound \in Nat /\ None \notin Nat
  BY IgnitionAssumption, SMT

\* The timer records of all events are different.
LEMMA Records ==
  /\ \A i \in Cylinder : Dwell(i) \in Sched /\ Spark(i) \in Sched
  /\ \A i, j \in Cylinder : Dwell(i) # Spark(j)
  /\ \A i, j \in Cylinder : Dwell(i) = Dwell(j) => i = j
  /\ \A i, j \in Cylinder : Spark(i) = Spark(j) => i = j
  BY DEF Dwell, Spark, Sched

\* Scheduling keeps the timers well formed and leaves pending records alone.
LEMMA ScheduledAll ==
  ASSUME Timers!TypeOK, NEW requests, scheduleAll(requests),
         \A s \in DOMAIN requests : requests[s] \in Timers!Time
  PROVE  /\ Timers!TypeOK'
         /\ \A s \in Sched : pending'[s] = IF s \in DOMAIN requests /\ pending[s] = None
                                           THEN requests[s] ELSE pending[s]
         /\ \A s \in Sched : s \in DOMAIN requests => pending'[s] # None
         /\ \A s \in Sched : pending[s] # None => pending'[s] # None
         /\ now' = now
  BY Constants DEF scheduleAll, Timers!TypeOK, Timers!Time

\* Preparing events keeps the schedule well formed and leaves the others alone.
LEMMA Prepared ==
  ASSUME dwellPosition \in [Cylinder -> Tooth], sparkAngle \in [Cylinder -> Tooth],
         NEW es, prepareCylinders(es)
  PROVE  /\ dwellPosition' \in [Cylinder -> Tooth] /\ sparkAngle' \in [Cylinder -> Tooth]
         /\ \A i \in Cylinder : i \notin es => dwellPosition'[i] = dwellPosition[i]
  BY DEF prepareCylinders

\* A step within the trigger handler.
LEMMA HandlerMoves ==
  ASSUME handler \in HandlerCall
  PROVE  /\ \A i \in Cylinder, offset \in 0 .. MaxOffset :
              [handler EXCEPT !.next = i, !.earliest = offset] \in HandlerCall
         /\ \A i \in Cylinder : /\ [handler EXCEPT !.next = i + 1] \in HandlerCall
                                /\ [handler EXCEPT !.next = i + 1, !.earliest = None] \in HandlerCall
         /\ handler.next \in 0 .. cylindersCount /\ handler.limited \in BOOLEAN
         /\ handler.earliest \in (0 .. MaxOffset) \cup {None}
         /\ handler # None
<1>1. \A i \in Cylinder : i \in 0 .. cylindersCount /\ i + 1 \in 0 .. cylindersCount
  BY Constants DEF Cylinder
<1>2. ASSUME NEW i \in 0 .. cylindersCount
      PROVE  /\ [handler EXCEPT !.next = i] \in HandlerCall
             /\ \A offset \in (0 .. MaxOffset) \cup {None} :
                  [handler EXCEPT !.next = i, !.earliest = offset] \in HandlerCall
  BY DEF HandlerCall
<1>3. /\ handler.next \in 0 .. cylindersCount /\ handler.limited \in BOOLEAN
      /\ handler.earliest \in (0 .. MaxOffset) \cup {None}
  BY DEF HandlerCall
<1> QED
  BY <1>1, <1>2, <1>3, NoneAssumption

\* The requests that a trigger event makes for the sparks that wait for its tooth.
Requests(t, offset) == [s \in {Spark(i) : i \in DueAt(t)} |-> now + offset[s[2]]]

\* They are for times within the bound.
LEMMA RequestTimes ==
  ASSUME TypeOK, now + MaxOffset < TimeBound, NEW t, NEW offset \in [DueAt(t) -> 0 .. MaxOffset]
  PROVE  /\ \A s \in DOMAIN Requests(t, offset) : Requests(t, offset)[s] \in Timers!Time
         /\ \A i \in Cylinder : Spark(i) \in DOMAIN Requests(t, offset) <=> i \in DueAt(t)
         /\ \A i \in Cylinder : Dwell(i) \notin DOMAIN Requests(t, offset)
<1>1. \A i \in DueAt(t) : Spark(i)[2] = i /\ i \in Cylinder
  BY DEF Spark, DueAt
<1>2. now \in Nat /\ TimeBound \in Nat /\ MaxOffset \in Nat
  BY Constants DEF TypeOK, Timers!TypeOK, Timers!Time
<1>3. \A i \in DueAt(t) : now + offset[i] \in Timers!Time
  BY <1>2 DEF Timers!Time
<1>4. \A s \in DOMAIN Requests(t, offset) : Requests(t, offset)[s] \in Timers!Time
  BY <1>1, <1>3 DEF Requests
<1> QED
  BY <1>1, <1>4, Records DEF Requests

\* Every step keeps the state well formed.
LEMMA BasicNext == BasicInv /\ [Next]_vars => BasicInv'
<1> SUFFICES ASSUME BasicInv, [Next]_vars PROVE BasicInv'
  OBVIOUS
<1> USE Constants, Records DEF BasicInv
<1>0. /\ TypeOK /\ now \in Nat /\ toothTime \in Nat /\ tooth \in Nat
      /\ position \in [Cylinder -> Tooth] /\ dwellPosition \in [Cylinder -> Tooth]
      /\ sparkAngle \in [Cylinder -> Tooth] /\ pin \in [Cylinder -> BOOLEAN]
      /\ outOfOrder \in [Cylinder -> BOOLEAN] /\ isReady \in BOOLEAN /\ spinning \in BOOLEAN
      /\ pending \in [Sched -> Timers!Time \cup {None}]
  BY DEF TypeOK, Timers!TypeOK, Timers!Time, Tooth
<1>1. CASE Tick
  BY <1>1 DEF Tick, Timers!Tick, TypeOK, Timers!TypeOK, Timers!Time, RoomForTimers, HandlerKnown,
              plan, coils, engine
<1>2. CASE engineStarts
  <2>1. handler = None /\ tooth' \in Tooth
    BY <1>2 DEF engineStarts, HandlerKnown, Tooth
  <2>2. TypeOK'
    BY <1>2, <2>1 DEF engineStarts, TypeOK, Timers!TypeOK, timers, plan, coils
  <2> QED
    BY <1>2, <2>1, <2>2 DEF engineStarts, RoomForTimers, HandlerKnown
<1>3. CASE engineStops
  <2>1. TypeOK'
    BY <1>3 DEF engineStops, TypeOK, Timers!TypeOK, timers, plan, coils
  <2> QED
    BY <1>3, <2>1 DEF engineStops, RoomForTimers, HandlerKnown
<1>4. CASE watchdog
  <2>1. pin' \in [Cylinder -> BOOLEAN] /\ isReady' \in BOOLEAN
    BY <1>4 DEF watchdog
  <2>2. TypeOK'
    BY <1>4, <2>1 DEF watchdog, TypeOK, Timers!TypeOK, timers, engine
  <2> QED
    BY <1>4, <2>2 DEF watchdog, RoomForTimers, HandlerKnown
<1>5. CASE triggerEventIgnored
  <2>1. tooth' \in Tooth /\ toothTime' \in Timers!Time /\ handler = None
    BY <1>0, <1>5 DEF triggerEventIgnored, Tooth, TypeOK, Timers!TypeOK
  <2>2. TypeOK'
    BY <1>5, <2>1 DEF triggerEventIgnored, TypeOK, Timers!TypeOK, timers, plan, coils
  <2> QED
    BY <1>5, <2>1, <2>2 DEF triggerEventIgnored, RoomForTimers, HandlerKnown
<1>6. ASSUME NEW limited \in BOOLEAN, NEW configChanged \in BOOLEAN, now + MaxOffset < TimeBound,
             onTriggerEventSparkLogic(limited, configChanged)
      PROVE  BasicInv'
  <2>1. PICK t \in Tooth :
          /\ tooth' = t /\ \E offset \in [DueAt(t) -> 0 .. MaxOffset] : scheduleAll(Requests(t, offset))
          /\ angleBasedEvents' = without(angleBasedEvents, DueAt(t))
    <3>1. (tooth + 1) % toothCount \in Tooth
      BY <1>0 DEF Tooth
    <3> QED
      BY <1>6, <3>1, Zenon DEF onTriggerEventSparkLogic, Requests
  <2>2. Timers!TypeOK' /\ now' = now
    BY <1>0, <1>6, <2>1, RequestTimes, ScheduledAll DEF TypeOK
  <2>3. angleBasedEvents' \in Seq(Cylinder)
    BY <2>1, Without DEF TypeOK
  <2>4. /\ dwellPosition' \in [Cylinder -> Tooth] /\ sparkAngle' \in [Cylinder -> Tooth]
        /\ isReady' \in BOOLEAN
    BY <1>0, <1>6, Prepared DEF onTriggerEventSparkLogic, prepareIgnitionSchedule, plan
  <2>5. /\ handler' \in HandlerCall /\ handler'.earliest = None /\ toothTime' = now
        /\ spinning' = spinning /\ spinning
    BY <1>6 DEF onTriggerEventSparkLogic, HandlerCall
  <2>6. TypeOK'
    BY <1>0, <1>6, <2>1, <2>2, <2>3, <2>4, <2>5
    DEF onTriggerEventSparkLogic, TypeOK, Timers!TypeOK, coils
  <2> QED
    BY <1>6, <2>5, <2>6 DEF RoomForTimers, HandlerKnown
<1>7. ASSUME NEW i \in Cylinder, NEW offset \in 0 .. MaxOffset, handleSparkEvent(i, offset)
      PROVE  BasicInv'
  <2>1. handler \in HandlerCall
    BY <1>7 DEF handleSparkEvent, TypeOK
  <2>2. handler' \in HandlerCall /\ handler'.next = i
    BY <1>7, <2>1, HandlerMoves DEF handleSparkEvent, HandlerCall
  <2>3. toothTime + offset \in Timers!Time
    BY <1>0, <1>7 DEF handleSparkEvent, RoomForTimers, Timers!Time
  <2>4. Timers!TypeOK'
    <3> DEFINE requests == [s \in {Dwell(i)} |-> toothTime + offset]
    <3>1. \A s \in DOMAIN requests : requests[s] \in Timers!Time
      BY <2>3
    <3>2. UNCHANGED timers \/ scheduleAll(requests)
      BY <1>7 DEF handleSparkEvent
    <3> HIDE DEF requests
    <3> QED
      BY <3>1, <3>2, ScheduledAll DEF TypeOK, Timers!TypeOK, timers
  <2>5. sparkId' \in [Cylinder -> Nat] /\ globalSparkIdCounter' \in Nat
    BY <1>7 DEF handleSparkEvent, TypeOK
  <2>6. TypeOK'
    BY <1>7, <2>2, <2>4, <2>5 DEF handleSparkEvent, TypeOK, plan, coils, engine
  <2> QED
    BY <1>7, <2>1, <2>2, <2>6 DEF handleSparkEvent, RoomForTimers, HandlerKnown, engine
<1>8. ASSUME NEW i \in Cylinder, skipSparkEvent(i) PROVE BasicInv'
  <2>1. handler \in HandlerCall
    BY <1>8 DEF skipSparkEvent, TypeOK
  <2>2. handler' \in HandlerCall /\ handler'.earliest = None
    BY <1>8, <2>1, HandlerMoves DEF skipSparkEvent, HandlerCall
  <2>3. TypeOK'
    BY <1>8, <2>2 DEF skipSparkEvent, TypeOK, Timers!TypeOK, timers, plan, coils, engine
  <2> QED
    BY <1>8, <2>1, <2>2, <2>3 DEF skipSparkEvent, RoomForTimers, HandlerKnown, engine
<1>9. ASSUME NEW offset \in 1 .. MaxOffset + 1, scheduleOrQueue(offset) PROVE BasicInv'
  <2>1. handler \in HandlerCall /\ handler # None
    BY <1>9 DEF scheduleOrQueue, TypeOK
  <2>2. PICK i \in Cylinder : i = handler.next
    BY <1>9, <2>1 DEF scheduleOrQueue, HandlerKnown
  <2>3. handler' \in HandlerCall /\ handler'.earliest = None
    BY <1>9, <2>1, <2>2, HandlerMoves DEF scheduleOrQueue, HandlerCall
  <2>4. toothTime + offset \in Timers!Time
    BY <1>0, <2>1 DEF RoomForTimers, Timers!Time
  <2>5. Timers!TypeOK'
    <3> DEFINE requests == [s \in {Spark(handler.next)} |-> toothTime + offset]
    <3>1. \A s \in DOMAIN requests : requests[s] \in Timers!Time
      BY <2>4
    <3>2. UNCHANGED timers \/ scheduleAll(requests)
      BY <1>9 DEF scheduleOrQueue
    <3> HIDE DEF requests
    <3> QED
      BY <3>1, <3>2, ScheduledAll DEF TypeOK, Timers!TypeOK, timers
  <2>6. angleBasedEvents' \in Seq(Cylinder)
    BY <1>9, <2>2, AppendOnce DEF scheduleOrQueue, TypeOK
  <2>7. sparksRemaining' \in [Cylinder -> 0 .. MultisparkCount] /\ position' \in [Cylinder -> Tooth]
    <3>1. (IF handler.limited THEN 0 ELSE MultisparkCount) \in 0 .. MultisparkCount
      OBVIOUS
    <3>2. sparksRemaining' \in [Cylinder -> 0 .. MultisparkCount]
      BY <1>9, <3>1 DEF scheduleOrQueue, TypeOK
    <3> QED
      BY <1>0, <1>9, <2>2, <3>2 DEF scheduleOrQueue
  <2>8. TypeOK'
    BY <1>0, <1>9, <2>3, <2>5, <2>6, <2>7 DEF scheduleOrQueue, TypeOK, plan, coils, engine
  <2> QED
    BY <1>9, <2>1, <2>3, <2>8 DEF scheduleOrQueue, RoomForTimers, HandlerKnown, engine
<1>10. CASE endOfTriggerEvent
  BY <1>10 DEF endOfTriggerEvent, TypeOK, Timers!TypeOK, timers, plan, coils, engine, RoomForTimers,
               HandlerKnown
<1>11. ASSUME NEW i \in Cylinder, turnSparkPinHigh(i) PROVE BasicInv'
  <2>1. pin' \in [Cylinder -> BOOLEAN] /\ outOfOrder' \in [Cylinder -> BOOLEAN]
    BY <1>0, <1>11, Zenon DEF turnSparkPinHigh
  <2>2. Timers!TypeOK'
    BY <1>0, <1>11 DEF turnSparkPinHigh, Timers!Fire, Timers!TypeOK, TypeOK
  <2>3. TypeOK'
    BY <1>11, <2>1, <2>2 DEF turnSparkPinHigh, TypeOK, plan, engine
  <2> QED
    BY <1>11, <2>3 DEF turnSparkPinHigh, RoomForTimers, HandlerKnown, engine
<1>12. ASSUME NEW i \in Cylinder, fireSparkAndPrepareNextSchedule(i) PROVE BasicInv'
  <2>1. pin' \in [Cylinder -> BOOLEAN] /\ outOfOrder' \in [Cylinder -> BOOLEAN]
    BY <1>0, <1>12, Zenon DEF fireSparkAndPrepareNextSchedule
  <2>2. signalFallSparkId' \in [Cylinder -> Nat] /\ sparksRemaining' \in [Cylinder -> 0 .. MultisparkCount]
    <3>1. sparksRemaining \in [Cylinder -> 0 .. MultisparkCount]
      BY DEF TypeOK
    <3>2. sparksRemaining[i] > 0 => sparksRemaining[i] - 1 \in 0 .. MultisparkCount
      BY <3>1
    <3>3. sparksRemaining' \in [Cylinder -> 0 .. MultisparkCount]
      BY <1>12, <3>1, <3>2 DEF fireSparkAndPrepareNextSchedule
    <3> QED
      BY <1>12, <3>3 DEF fireSparkAndPrepareNextSchedule, TypeOK
  <2>3. /\ UpToBound(now + MultisparkDelay) \in Timers!Time
        /\ UpToBound(now + MultisparkDelay + MultisparkDwell) \in Timers!Time
    BY <1>0 DEF UpToBound, Timers!Time
  <2>4. Timers!TypeOK'
    BY <1>0, <1>12, <2>3 DEF fireSparkAndPrepareNextSchedule, scheduleNextSpark, TypeOK, Timers!TypeOK
  <2>5. dwellPosition' \in [Cylinder -> Tooth] /\ sparkAngle' \in [Cylinder -> Tooth]
    BY <1>0, <1>12, Prepared DEF fireSparkAndPrepareNextSchedule
  <2>6. TypeOK'
    BY <1>0, <1>12, <2>1, <2>2, <2>4, <2>5 DEF fireSparkAndPrepareNextSchedule, TypeOK, engine
  <2> QED
    BY <1>12, <2>6 DEF fireSparkAndPrepareNextSchedule, RoomForTimers, HandlerKnown, engine
<1>13. CASE UNCHANGED vars
  BY <1>13 DEF vars, TypeOK, Timers!TypeOK, timers, plan, coils, engine, RoomForTimers, HandlerKnown
<1> QED
  BY <1>1, <1>2, <1>3, <1>4, <1>5, <1>6, <1>7, <1>8, <1>9, <1>10, <1>11, <1>12, <1>13, Zenon
  DEF Next, TriggerEvent, HandlerStep, Callback

\* The state is well formed at power-up.
LEMMA BasicInit == Init => BasicInv
<1> SUFFICES ASSUME Init PROVE BasicInv
  OBVIOUS
<1> USE Constants
<1>1. Timers!TypeOK /\ toothTime \in Timers!Time /\ tooth \in Tooth
  BY DEF Init, Timers!TypeOK, Timers!Time, Tooth
<1>2. {position, dwellPosition, sparkAngle} \subseteq [Cylinder -> Tooth]
  BY DEF Init, Tooth
<1>3. {pin, outOfOrder} \subseteq [Cylinder -> BOOLEAN] /\ {isReady, spinning} \subseteq BOOLEAN
  <2>1. pin \in [Cylinder -> BOOLEAN] /\ outOfOrder \in [Cylinder -> BOOLEAN]
    BY Zenon DEF Init
  <2> QED
    BY <2>1 DEF Init
<1>4. /\ sparkId \in [Cylinder -> Nat] /\ signalFallSparkId \in [Cylinder -> Nat]
      /\ sparksRemaining \in [Cylinder -> 0 .. MultisparkCount]
      /\ angleBasedEvents \in Seq(Cylinder) /\ globalSparkIdCounter \in Nat /\ starts \in Nat
  BY DEF Init
<1> QED
  BY <1>1, <1>2, <1>3, <1>4, Zenon DEF Init, BasicInv, TypeOK, RoomForTimers, HandlerKnown

\* The ignition schedule, the timers and the coils are always well formed.
THEOREM TypeCorrect == Spec => []TypeOK
<1>1. BasicInv => TypeOK
  BY DEF BasicInv
<1> QED
  BY <1>1, BasicInit, BasicNext, PTL DEF Spec

-----------------------------------------------------------------------------
(* The list of angle-based events has no repetitions *)

\* The tooth of a trigger event, and what the event does to the timers and the list.
LEMMA TriggerEffect ==
  ASSUME BasicInv, now + MaxOffset < TimeBound, NEW limited, NEW configChanged,
         onTriggerEventSparkLogic(limited, configChanged)
  PROVE  \E t \in Tooth :
           /\ tooth' = t /\ angleBasedEvents' = without(angleBasedEvents, DueAt(t))
           /\ \A i \in Cylinder : /\ pending'[Dwell(i)] = pending[Dwell(i)]
                                  /\ pending[Spark(i)] # None => pending'[Spark(i)] # None
                                  /\ i \in DueAt(t) => pending'[Spark(i)] # None
<1>1. tooth \in Nat
  BY Constants DEF BasicInv, TypeOK, Tooth
<1>2. (tooth + 1) % toothCount \in Tooth
  BY <1>1, Constants DEF Tooth
<1>3. PICK t \in Tooth :
        /\ tooth' = t /\ \E offset \in [DueAt(t) -> 0 .. MaxOffset] : scheduleAll(Requests(t, offset))
        /\ angleBasedEvents' = without(angleBasedEvents, DueAt(t))
  BY <1>2, Zenon DEF onTriggerEventSparkLogic, Requests
<1>4. PICK offset \in [DueAt(t) -> 0 .. MaxOffset] : scheduleAll(Requests(t, offset))
  BY <1>3
<1>5. /\ \A s \in DOMAIN Requests(t, offset) : Requests(t, offset)[s] \in Timers!Time
      /\ \A i \in Cylinder : Spark(i) \in DOMAIN Requests(t, offset) <=> i \in DueAt(t)
      /\ \A i \in Cylinder : Dwell(i) \notin DOMAIN Requests(t, offset)
  BY RequestTimes DEF BasicInv
<1>6. /\ \A s \in Sched : pending'[s] = IF s \in DOMAIN Requests(t, offset) /\ pending[s] = None
                                        THEN Requests(t, offset)[s] ELSE pending[s]
      /\ \A s \in Sched : s \in DOMAIN Requests(t, offset) => pending'[s] # None
      /\ \A s \in Sched : pending[s] # None => pending'[s] # None
  BY <1>4, <1>5, ScheduledAll DEF BasicInv, TypeOK
<1>7. \A i \in Cylinder : /\ pending'[Dwell(i)] = pending[Dwell(i)]
                          /\ pending[Spark(i)] # None => pending'[Spark(i)] # None
                          /\ i \in DueAt(t) => pending'[Spark(i)] # None
  BY <1>5, <1>6, Records
<1> QED
  BY <1>3, <1>7

\* The list is linked through the events themselves (utlist.h): an event that was in it
\* twice would make it loop.  However often dwell teeth come before the sparks they
\* have queued, whatever teeth are missed, each event is in the list at most once.
THEOREM EventListedOnce == Spec => []ListedOnce
<1> DEFINE Inv == BasicInv /\ ListedOnce
<1>1. Init => Inv
  <2>1. Init => ListedOnce
    BY DEF Init, ListedOnce, IsInjective
  <2> QED
    BY <2>1, BasicInit
<1>2. Inv /\ [Next]_vars => Inv'
  <2> SUFFICES ASSUME Inv, [Next]_vars PROVE ListedOnce'
    BY BasicNext
  <2>0. angleBasedEvents \in Seq(Cylinder)
    BY DEF BasicInv, TypeOK
  <2>1. ASSUME NEW limited \in BOOLEAN, NEW configChanged \in BOOLEAN, now + MaxOffset < TimeBound,
               onTriggerEventSparkLogic(limited, configChanged)
        PROVE  ListedOnce'
    <3>1. \E es : angleBasedEvents' = without(angleBasedEvents, es)
      BY <2>1, TriggerEffect
    <3> QED
      BY <2>0, <3>1, Without DEF ListedOnce
  <2>2. ASSUME NEW offset \in 1 .. MaxOffset + 1, scheduleOrQueue(offset) PROVE ListedOnce'
    <3>1. handler.next \in Cylinder
      BY <2>2 DEF scheduleOrQueue, BasicInv, HandlerKnown
    <3> QED
      BY <2>0, <2>2, <3>1, AppendOnce DEF scheduleOrQueue, ListedOnce
  <2>3. CASE UNCHANGED angleBasedEvents
    BY <2>3 DEF ListedOnce
  <2>4. \/ TriggerEvent \/ \E offset \in 1 .. MaxOffset + 1 : scheduleOrQueue(offset)
        \/ UNCHANGED angleBasedEvents
    BY DEF Next, Tick, engineStarts, engineStops, watchdog, triggerEventIgnored, HandlerStep, Callback,
       handleSparkEvent, skipSparkEvent, endOfTriggerEvent, turnSparkPinHigh,
       fireSparkAndPrepareNextSchedule, vars
  <2> QED
    BY <2>1, <2>2, <2>3, <2>4 DEF TriggerEvent
<1>3. Inv => ListedOnce
  OBVIOUS
<1> QED
  BY <1>1, <1>2, <1>3, PTL DEF Spec

-----------------------------------------------------------------------------
(* A charging coil has a spark to come *)

\* No two events drive the same coil.
SeparateCoils == \A i, j \in Cylinder : i # j => coilsOf[i] \cap coilsOf[j] = {}

\* Steps that at most discharge coils, and see a new tooth only outside the handler.
LEMMA CoilStutter ==
  ASSUME CoilInv,
         UNCHANGED <<pending, angleBasedEvents, sparkId, outOfOrder, signalFallSparkId, handler,
                     dwellPosition>>,
         \A c \in Cylinder : pin'[c] => pin[c],
         tooth' = tooth \/ handler = None
  PROVE  CoilGoal'
<1>0. \A i \in Cylinder : coilsOf[i] \subseteq Cylinder
  BY Constants
<1>1. \A i \in Cylinder : /\ SparkToCome(i)' <=> SparkToCome(i)
                          /\ Overtaken(i)' <=> Overtaken(i)
                          /\ Charging(i)' => Charging(i)
                          /\ DwellToCome(i)' => DwellToCome(i)
  BY <1>0 DEF SparkToCome, Overtaken, Charging, DwellToCome
<1> QED
  BY <1>1 DEF CoilInv, CoilGoal, DwellInv, ChargeInv, ToothInv, CoilsKnown

\* A trigger event: the sparks that wait for its tooth move from the list to the timers.
LEMMA CoilTrigger ==
  ASSUME SteadyTrigger, CoilInv, now + MaxOffset < TimeBound,
         NEW limited \in BOOLEAN, NEW configChanged \in BOOLEAN,
         onTriggerEventSparkLogic(limited, configChanged)
  PROVE  CoilGoal'
<1>1. PICK t \in Tooth :
        /\ tooth' = t /\ angleBasedEvents' = without(angleBasedEvents, DueAt(t))
        /\ \A i \in Cylinder : /\ pending'[Dwell(i)] = pending[Dwell(i)]
                               /\ pending[Spark(i)] # None => pending'[Spark(i)] # None
                               /\ i \in DueAt(t) => pending'[Spark(i)] # None
  BY TriggerEffect DEF CoilInv
<1>2. \A i \in Cylinder :
        Contains(angleBasedEvents, i) => i \in DueAt(t) \/ Contains(angleBasedEvents', i)
  BY <1>1, Without DEF CoilInv, BasicInv, TypeOK
<1>3. /\ handler = None /\ UNCHANGED <<sparkId, pin, outOfOrder, signalFallSparkId>>
      /\ \A i \in Cylinder : dwellPosition'[i] = tooth' =>
           /\ pending[Dwell(i)] = None /\ pending'[Spark(i)] = None
           /\ \A c \in coilsOf[i] : ~pin[c]
  BY DEF onTriggerEventSparkLogic, coils
<1>4. \A i \in Cylinder : /\ SparkToCome(i) => SparkToCome(i)'
                          /\ Overtaken(i)' <=> Overtaken(i)
                          /\ Charging(i)' <=> Charging(i)
  BY <1>1, <1>2, <1>3 DEF SparkToCome, Overtaken, Charging
<1>5. DwellInv' /\ ChargeInv' /\ CoilsKnown'
  BY <1>1, <1>3, <1>4 DEF CoilInv, CoilGoal, DwellInv, ChargeInv, CoilsKnown
<1>6. ToothInv'
  BY <1>1, <1>3 DEF ToothInv, DwellToCome, Charging
<1> QED
  BY <1>5, <1>6 DEF CoilGoal

\* The trigger handler schedules the dwell of event k.
LEMMA CoilDwell ==
  ASSUME CoilInv, NEW k \in Cylinder, NEW offset \in 0 .. MaxOffset, handleSparkEvent(k, offset)
  PROVE  CoilGoal'
<1> USE Records
<1>0. /\ handler \in HandlerCall /\ handler # None /\ handler.earliest = None
      /\ handler.next \in Int /\ handler.next <= k /\ dwellPosition[k] = tooth
      /\ k \in Int
  BY Constants DEF handleSparkEvent, IsNextEvent, CoilInv, BasicInv, TypeOK, HandlerCall, Cylinder
<1>1. /\ UNCHANGED <<angleBasedEvents, pin, outOfOrder, signalFallSparkId, dwellPosition, tooth>>
      /\ \A i \in Cylinder : i # k => sparkId'[i] = sparkId[i]
      /\ handler' # None /\ handler'.next = k /\ handler'.earliest # None
  <2>1. handler' = [handler EXCEPT !.next = k, !.earliest = offset] /\ handler' \in HandlerCall
    BY <1>0, HandlerMoves DEF handleSparkEvent
  <2>2. handler'.next = k /\ handler'.earliest = offset
    BY <1>0, <2>1 DEF HandlerCall
  <2>3. handler' # None /\ offset # None
    BY <2>1, NoneAssumption, Constants
  <2>4. \A i \in Cylinder : i # k => sparkId'[i] = sparkId[i]
    BY DEF handleSparkEvent, CoilInv, BasicInv, TypeOK
  <2> QED
    BY <2>2, <2>3, <2>4 DEF handleSparkEvent, plan, coils, engine
<1>2. /\ \A i \in Cylinder : i # k => pending'[Dwell(i)] = pending[Dwell(i)]
      /\ \A i \in Cylinder : pending'[Spark(i)] = pending[Spark(i)]
  BY DEF handleSparkEvent, scheduleAll, timers
<1>3. \A i \in Cylinder : i # k => /\ SparkToCome(i)' <=> SparkToCome(i)
                                   /\ Overtaken(i)' <=> Overtaken(i)
  BY <1>0, <1>1, <1>2 DEF SparkToCome, Overtaken
<1>4. SparkToCome(k)' /\ \A i \in Cylinder : Charging(i)' <=> Charging(i)
  BY <1>1 DEF SparkToCome, Charging
<1>5. ~Charging(k)
  BY <1>0 DEF CoilInv, CoilGoal, ToothInv, DwellToCome
<1>6. DwellInv' /\ ChargeInv' /\ CoilsKnown'
  BY <1>1, <1>2, <1>3, <1>4, <1>5 DEF CoilInv, CoilGoal, DwellInv, ChargeInv, CoilsKnown
<1>7. ASSUME NEW i \in Cylinder, DwellToCome(i)' PROVE i # k /\ DwellToCome(i)
  <2>1. i \in Int
    BY DEF Cylinder
  <2> QED
    BY <1>0, <1>1, <1>7, <2>1 DEF DwellToCome
<1>8. ToothInv'
  BY <1>2, <1>3, <1>4, <1>7 DEF CoilInv, CoilGoal, ToothInv
<1> QED
  BY <1>6, <1>8 DEF CoilGoal

\* The trigger handler leaves event k out.
LEMMA CoilSkip ==
  ASSUME CoilInv, NEW k \in Cylinder, skipSparkEvent(k)
  PROVE  CoilGoal'
<1>0. /\ handler \in HandlerCall /\ handler # None /\ handler.earliest = None
      /\ handler.next \in Int /\ handler.next <= k /\ k \in Int
  BY Constants DEF skipSparkEvent, IsNextEvent, CoilInv, BasicInv, TypeOK, HandlerCall, Cylinder
<1>1. /\ UNCHANGED <<pending, angleBasedEvents, pin, outOfOrder, signalFallSparkId, sparkId,
                     dwellPosition, tooth>>
      /\ handler'.next = k + 1 /\ handler'.earliest = None
  BY <1>0 DEF skipSparkEvent, HandlerCall, plan, coils, engine, timers
<1>2. \A i \in Cylinder : /\ SparkToCome(i)' <=> SparkToCome(i)
                          /\ Overtaken(i)' <=> Overtaken(i)
                          /\ Charging(i)' <=> Charging(i)
  BY <1>0, <1>1 DEF SparkToCome, Overtaken, Charging
<1>3. ASSUME NEW i \in Cylinder, DwellToCome(i)' PROVE DwellToCome(i)
  <2>1. i \in Int
    BY DEF Cylinder
  <2> QED
    BY <1>0, <1>1, <1>3, <2>1 DEF DwellToCome
<1> QED
  BY <1>1, <1>2, <1>3 DEF CoilInv, CoilGoal, DwellInv, ChargeInv, ToothInv, CoilsKnown

\* The trigger handler schedules or queues the spark.
LEMMA CoilQueue ==
  ASSUME CoilInv, NEW offset \in 1 .. MaxOffset + 1, scheduleOrQueue(offset)
  PROVE  CoilGoal'
<1> USE Records
<1>0. PICK k \in Cylinder : /\ k = handler.next /\ handler \in HandlerCall /\ handler # None
                            /\ handler.earliest # None /\ k \in Int
  BY DEF scheduleOrQueue, CoilInv, BasicInv, TypeOK, HandlerKnown, Cylinder
<1>1. /\ UNCHANGED <<pin, outOfOrder, signalFallSparkId, sparkId, dwellPosition, tooth>>
      /\ handler'.next = k + 1 /\ handler'.earliest = None
  BY <1>0 DEF scheduleOrQueue, HandlerCall, plan, coils, engine
<1>2. toothTime + offset # None
  <2>1. toothTime \in Nat
    BY Constants DEF CoilInv, BasicInv, TypeOK, Timers!Time
  <2> QED
    BY <2>1, Constants
<1>3. \A i \in Cylinder : /\ pending'[Dwell(i)] = pending[Dwell(i)]
                          /\ i # k => pending'[Spark(i)] = pending[Spark(i)]
                          /\ pending[Spark(i)] # None => pending'[Spark(i)] # None
  BY <1>0, <1>2 DEF scheduleOrQueue, scheduleAll, timers
<1>4. \A i \in Cylinder : Contains(angleBasedEvents, i) => Contains(angleBasedEvents', i)
  <2>1. angleBasedEvents' = angleBasedEvents \/ angleBasedEvents' = appendOnce(angleBasedEvents, k)
    BY <1>0 DEF scheduleOrQueue
  <2>2. angleBasedEvents \in Seq(Cylinder)
    BY DEF CoilInv, BasicInv, TypeOK
  <2>3. \A i : Contains(angleBasedEvents, i) => Contains(appendOnce(angleBasedEvents, k), i)
    BY <2>2, AppendOnce
  <2> QED
    BY <2>1, <2>3
<1>5. pending'[Spark(k)] # None \/ Contains(angleBasedEvents', k)
  <2>1. CASE sparkAngle[k] = tooth
    BY <1>0, <1>2, <2>1 DEF scheduleOrQueue, scheduleAll
  <2>2. CASE sparkAngle[k] # tooth
    BY <1>0, <2>2, AppendOnce DEF scheduleOrQueue, CoilInv, BasicInv, TypeOK
  <2> QED
    BY <2>1, <2>2
<1>6. \A i \in Cylinder : /\ SparkToCome(i) => SparkToCome(i)'
                          /\ Overtaken(i)' <=> Overtaken(i)
                          /\ Charging(i)' <=> Charging(i)
  BY <1>0, <1>1, <1>3, <1>4, <1>5 DEF SparkToCome, Overtaken, Charging
<1>7. ASSUME NEW i \in Cylinder, DwellToCome(i)' PROVE i # k /\ DwellToCome(i)
  <2>1. i \in Int
    BY DEF Cylinder
  <2> QED
    BY <1>0, <1>1, <1>7, <2>1 DEF DwellToCome
<1>8. DwellInv' /\ ChargeInv' /\ CoilsKnown'
  BY <1>1, <1>3, <1>6 DEF CoilInv, CoilGoal, DwellInv, ChargeInv, CoilsKnown
<1>9. ToothInv'
  BY <1>3, <1>6, <1>7 DEF CoilInv, CoilGoal, ToothInv
<1> QED
  BY <1>8, <1>9 DEF CoilGoal

\* The dwell of event k starts: either its spark is still to come or it has overtaken
\* the dwell, and then the coils are spared.
LEMMA CoilCharges ==
  ASSUME SeparateCoils, CoilInv, NEW k \in Cylinder, turnSparkPinHigh(k)
  PROVE  CoilGoal'
<1> USE Records
<1>0. \A i \in Cylinder : coilsOf[i] \subseteq Cylinder
  BY Constants
<1>1. /\ UNCHANGED <<angleBasedEvents, signalFallSparkId, sparkId, handler, dwellPosition, tooth>>
      /\ pending[Dwell(k)] # None /\ pending'[Dwell(k)] = None
      /\ \A s \in Sched : s # Dwell(k) => pending'[s] = pending[s]
  BY DEF turnSparkPinHigh, Timers!Fire, Timers!Due, plan, engine, CoilInv, BasicInv, TypeOK,
         Timers!TypeOK
<1>2. /\ \A c \in Cylinder : c \notin coilsOf[k] => (outOfOrder'[c] <=> outOfOrder[c])
      /\ \A c \in Cylinder : c \notin coilsOf[k] => (pin'[c] <=> pin[c])
      /\ \A c \in Cylinder : c \in coilsOf[k] =>
           (pin'[c] <=> pin[c] \/ ~(outOfOrder[c] /\ signalFallSparkId[c] = sparkId[k]))
  BY Zenon DEF turnSparkPinHigh
<1>3. \A i \in Cylinder : SparkToCome(i)' <=> SparkToCome(i)
  BY <1>1 DEF SparkToCome
<1>4. \A i \in Cylinder : DwellToCome(i)' <=> DwellToCome(i)
  BY <1>1 DEF DwellToCome
<1>5. \A i \in Cylinder : i # k => /\ Overtaken(i)' <=> Overtaken(i)
                                   /\ Charging(i)' <=> Charging(i)
  <2>1. \A i \in Cylinder : i # k => \A c \in coilsOf[i] : c \in Cylinder /\ c \notin coilsOf[k]
    BY <1>0 DEF SeparateCoils
  <2> QED
    BY <1>1, <1>2, <2>1 DEF Overtaken, Charging
<1>6. ~Charging(k) /\ Overtaken(k) => ~Charging(k)'
  BY <1>0, <1>2 DEF Overtaken, Charging
<1>7. ~Charging(k) /\ (SparkToCome(k) \/ Overtaken(k))
  BY <1>1 DEF CoilInv, CoilGoal, DwellInv
<1>8. DwellInv'
  BY <1>1, <1>3, <1>5 DEF CoilInv, CoilGoal, DwellInv
<1>9. ChargeInv'
  BY <1>3, <1>5, <1>6, <1>7 DEF CoilInv, CoilGoal, ChargeInv
<1>10. ToothInv'
  BY <1>1, <1>4, <1>5, <1>6, <1>7 DEF CoilInv, CoilGoal, ToothInv
<1>11. CoilsKnown'
  BY <1>2 DEF CoilInv, CoilGoal, CoilsKnown
<1> QED
  BY <1>8, <1>9, <1>10, <1>11 DEF CoilGoal

\* The spark of event k: a dwell that is still pending has been overtaken.
LEMMA CoilFires ==
  ASSUME SeparateCoils, CoilInv, NEW k \in Cylinder, fireSparkAndPrepareNextSchedule(k)
  PROVE  CoilGoal'
<1> USE Records
<1>0. \A i \in Cylinder : coilsOf[i] \subseteq Cylinder
  BY Constants
<1>1. /\ UNCHANGED <<angleBasedEvents, sparkId, handler, tooth>>
      /\ pending[Spark(k)] # None
  BY DEF fireSparkAndPrepareNextSchedule, Timers!Due, engine
<1>2. \A s \in Sched : s # Dwell(k) /\ s # Spark(k) => pending'[s] = pending[s]
  BY DEF fireSparkAndPrepareNextSchedule, scheduleNextSpark, CoilInv, BasicInv, TypeOK, Timers!TypeOK
<1>3. \/ pending'[Spark(k)] # None /\ UNCHANGED dwellPosition
      \/ pending'[Spark(k)] = None /\ pending'[Dwell(k)] = pending[Dwell(k)]
  <2>1. CASE sparksRemaining[k] > 0
    <3>1. UpToBound(now + MultisparkDelay + MultisparkDwell) # None
      BY Constants DEF UpToBound, CoilInv, BasicInv, TypeOK, Timers!TypeOK, Timers!Time
    <3> QED
      BY <2>1, <3>1 DEF fireSparkAndPrepareNextSchedule, scheduleNextSpark, CoilInv, BasicInv, TypeOK,
                        Timers!TypeOK
  <2>2. CASE ~(sparksRemaining[k] > 0)
    BY <2>2 DEF fireSparkAndPrepareNextSchedule, CoilInv, BasicInv, TypeOK, Timers!TypeOK
  <2> QED
    BY <2>1, <2>2
<1>4. \A i \in Cylinder : i # k => dwellPosition'[i] = dwellPosition[i]
  BY Prepared DEF fireSparkAndPrepareNextSchedule, CoilInv, BasicInv, TypeOK
<1>5. /\ \A c \in Cylinder : outOfOrder'[c] <=> outOfOrder[c] \/ (c \in coilsOf[k] /\ ~pin[c])
      /\ \A c \in Cylinder : pin'[c] <=> pin[c] /\ c \notin coilsOf[k]
      /\ \A c \in Cylinder : signalFallSparkId'[c] =
           IF c \in coilsOf[k] THEN sparkId[k] ELSE signalFallSparkId[c]
  BY Zenon DEF fireSparkAndPrepareNextSchedule
<1>6. \A i \in Cylinder : i # k => /\ Overtaken(i)' <=> Overtaken(i)
                                   /\ Charging(i)' <=> Charging(i)
                                   /\ SparkToCome(i)' <=> SparkToCome(i)
                                   /\ DwellToCome(i)' <=> DwellToCome(i)
  <2>1. \A i \in Cylinder : i # k => \A c \in coilsOf[i] : c \in Cylinder /\ c \notin coilsOf[k]
    BY <1>0 DEF SeparateCoils
  <2>2. \A i \in Cylinder : i # k => (Overtaken(i)' <=> Overtaken(i)) /\ (Charging(i)' <=> Charging(i))
    BY <1>1, <1>5, <2>1 DEF Overtaken, Charging
  <2> QED
    BY <1>1, <1>2, <1>4, <2>2 DEF SparkToCome, DwellToCome
<1>7. ~Charging(k)' /\ (~Charging(k) => Overtaken(k)')
  BY <1>0, <1>1, <1>5 DEF Charging, Overtaken
<1>8. pending'[Dwell(k)] # None => pending'[Spark(k)] # None \/ Overtaken(k)'
  BY <1>3, <1>7 DEF CoilInv, CoilGoal, DwellInv
<1>9. DwellInv'
  <2>1. pending'[Spark(k)] # None => SparkToCome(k)'
    BY DEF SparkToCome
  <2> QED
    BY <1>2, <1>6, <1>7, <1>8, <2>1 DEF CoilInv, CoilGoal, DwellInv
<1>10. ChargeInv'
  BY <1>6, <1>7 DEF CoilInv, CoilGoal, ChargeInv
<1>11. ToothInv'
  <2>1. DwellToCome(k)' => pending'[Spark(k)] = None
    BY <1>1, <1>3 DEF DwellToCome, CoilInv, CoilGoal, ToothInv
  <2> QED
    BY <1>2, <1>6, <1>7, <1>8, <2>1 DEF CoilInv, CoilGoal, ToothInv
<1>12. CoilsKnown'
  BY <1>5 DEF CoilInv, CoilGoal, CoilsKnown
<1> QED
  BY <1>9, <1>10, <1>11, <1>12 DEF CoilGoal

\* spark_logic.cpp: "we make sure that coil dwell started while spark was enabled would
\* fire and not burn the coil".  Whatever the interleaving of trigger handler and
\* callbacks, limited sparks, multisparks, missed teeth, stops and restarts, a charging
\* coil has a spark to come, if no two events share a coil and a dwell tooth finds its
\* coil discharged.
THEOREM ChargeEndsInSpark ==
  ASSUME SteadyTrigger, SeparateCoils
  PROVE  Spec => []CoilWillFire
<1>1. Init => CoilInv
  <2> SUFFICES ASSUME Init PROVE CoilInv
    OBVIOUS
  <2>1. BasicInv
    BY BasicInit
  <2>2. \A c \in Cylinder : ~pin[c]
    BY Zenon DEF Init
  <2>3. /\ \A i \in Cylinder : ~Charging(i) /\ pending[Dwell(i)] = None
        /\ handler = None
    BY <2>2, Constants, Records DEF Init, Charging
  <2> QED
    BY <2>1, <2>2, <2>3 DEF CoilInv, CoilGoal, DwellInv, ChargeInv, ToothInv, DwellToCome, CoilsKnown
<1>2. CoilInv /\ [Next]_vars => CoilInv'
  <2> SUFFICES ASSUME CoilInv, [Next]_vars PROVE CoilGoal'
    BY BasicNext DEF CoilInv
  <2>1. CASE Tick \/ engineStops \/ UNCHANGED vars
    BY <2>1, CoilStutter
    DEF Tick, Timers!Tick, engineStops, vars, timers, plan, coils, engine
  <2>2. CASE engineStarts \/ triggerEventIgnored
    <3>1. handler = None
      BY <2>2 DEF engineStarts, triggerEventIgnored, CoilInv, BasicInv, HandlerKnown
    <3> QED
      BY <2>2, <3>1, CoilStutter DEF engineStarts, triggerEventIgnored, timers, plan, coils, engine
  <2>3. CASE watchdog
    <3>1. \A c \in Cylinder : ~pin'[c]
      BY <2>3, Zenon DEF watchdog
    <3> QED
      BY <2>3, <3>1, CoilStutter DEF watchdog, timers, engine
  <2>4. CASE endOfTriggerEvent
    <3>1. /\ UNCHANGED <<pending, angleBasedEvents, pin, outOfOrder, signalFallSparkId, sparkId>>
          /\ handler' = None /\ handler.earliest = None
      BY <2>4 DEF endOfTriggerEvent, timers, coils
    <3>2. \A i \in Cylinder : /\ SparkToCome(i)' <=> SparkToCome(i)
                              /\ Overtaken(i)' <=> Overtaken(i)
                              /\ Charging(i)' <=> Charging(i)
      BY <3>1 DEF SparkToCome, Overtaken, Charging
    <3> QED
      BY <3>1, <3>2
      DEF CoilInv, CoilGoal, DwellInv, ChargeInv, ToothInv, DwellToCome, CoilsKnown
  <2> QED
    BY <2>1, <2>2, <2>3, <2>4, CoilTrigger, CoilDwell, CoilSkip, CoilQueue, CoilCharges, CoilFires,
       Zenon
    DEF Next, TriggerEvent, HandlerStep, Callback
<1>3. CoilInv => CoilWillFire
  <2> SUFFICES ASSUME CoilInv, NEW c \in Cylinder, pin[c]
               PROVE  \E i \in Cylinder : c \in coilsOf[i] /\ SparkToCome(i)
    BY DEF CoilWillFire, SparkToCome
  <2>1. PICK i \in Cylinder : c \in coilsOf[i]
    BY DEF CoilInv, CoilGoal, CoilsKnown
  <2> QED
    BY <2>1 DEF CoilInv, CoilGoal, ChargeInv, Charging
<1> QED
  BY <1>1, <1>2, <1>3, PTL DEF Spec

-----------------------------------------------------------------------------
(* From an angle to the tooth it is scheduled from: the search of TriggerPosition *)

\* A set of natural numbers has a least element.
LEMMA LeastExists ==
  ASSUME NEW S, S \subseteq Nat, S # {}
  PROVE  \E x \in S : \A y \in S : x <= y
<1>1. PICK x \in S : \A y \in S : ~(<<y, x>> \in OpToRel(<, Nat))
  BY NatLessThanWellFounded, WFMin
<1>2. OpToRel(<, Nat) = {ss \in Nat \X Nat : ss[1] < ss[2]}
  BY Zenon DEF OpToRel
<1>3. ASSUME NEW y \in S PROVE x <= y
  <2>1. x \in Nat /\ y \in Nat
    OBVIOUS
  <2>2. y < x => <<y, x>> \in {ss \in Nat \X Nat : ss[1] < ss[2]}
    BY <2>1
  <2>3. ~(y < x)
    BY <1>1, <1>2, <2>2, Zenon
  <2> QED BY <2>1, <2>3
<1> QED BY <1>3

\* f is the course of up to n passes of the loop of findAngleIndex.
Passes(f, angles, target, start, n) ==
  f = [k \in 0 .. n |-> IF k = 0 THEN start ELSE searchPass(angles, target, f[k - 1])]

\* The loop of findAngleIndex is well defined, however many passes it makes.
LEMMA PassesExist ==
  ASSUME NEW angles, NEW target, NEW start, NEW passes \in Nat
  PROVE  \E f : Passes(f, angles, target, start, passes)
<1> DEFINE P(f, n) == Passes(f, angles, target, start, n)
           T == {n \in Nat : ~ \E f : P(f, n)}
<1>1. SUFFICES ASSUME T # {} PROVE FALSE
  OBVIOUS
<1>2. PICK n \in T : \A m \in T : n <= m
  <2> HIDE DEF T
  <2>1. T \subseteq Nat
    BY DEF T
  <2> QED BY <1>1, <2>1, LeastExists
<1>4. n \in Nat /\ ~ \E f : P(f, n)
  BY <1>2
<1>5. n # 0
  <2> SUFFICES ASSUME n = 0 PROVE FALSE
    OBVIOUS
  <2> DEFINE g == [k \in 0 .. 0 |-> start]
  <2>1. P(g, 0)
    BY DEF Passes
  <2> QED BY <1>4, <2>1
<1>6. n - 1 \in Nat /\ n - 1 \notin T
  <2>1. n - 1 \in Nat /\ ~(n <= n - 1)
    BY <1>4, <1>5
  <2> HIDE DEF T
  <2> QED BY <1>2, <2>1
<1>7. PICK f : P(f, n - 1)
  BY <1>6
<1>10. f = [k \in 0 .. n - 1 |-> IF k = 0 THEN start ELSE searchPass(angles, target, f[k - 1])]
  BY <1>7 DEF Passes
<1> DEFINE g == [k \in 0 .. n |-> IF k \in 0 .. n - 1 THEN f[k]
                                  ELSE searchPass(angles, target, f[k - 1])]
<1>8. ASSUME NEW k \in 0 .. n
      PROVE  g[k] = IF k = 0 THEN start ELSE searchPass(angles, target, g[k - 1])
  <2>1. CASE k = 0
    BY <1>4, <1>5, <1>10, <2>1
  <2>2. CASE k # 0
    <3>1. k - 1 \in 0 .. n - 1 /\ k - 1 \in 0 .. n
      BY <1>4, <2>2
    <3>2. g[k - 1] = f[k - 1]
      BY <3>1
    <3>3. g[k] = searchPass(angles, target, f[k - 1])
      BY <1>10, <1>4, <2>2
    <3> QED BY <2>2, <3>2, <3>3
  <2> QED BY <2>1, <2>2
<1>9. P(g, n)
  BY <1>8 DEF Passes
<1> QED BY <1>4, <1>9

\* What holds of left and right after each pass through a sorted table of n angles, the
\* first of which is not past the target: the angle before left is not past it, and an angle
\* after right is, unless the search has ended with one that is no less.  As right stays a
\* natural number, the unsigned variable of the code does not wrap around.
SearchInv(angles, target, n, p) ==
  /\ p.left \in 0 .. n /\ p.right \in 0 .. n - 1 /\ p.left <= p.right + 1
  /\ p.left > 0 => angles[p.left - 1] <= target
  /\ \A i \in 0 .. n - 1 : i > p.right /\ angles[i] <= target =>
       p.left > p.right /\ angles[i] <= angles[p.left - 1]

\* The middle of what is left of the table.
LEMMA Middle ==
  ASSUME NEW left \in Nat, NEW right \in Nat, left <= right, NEW half \in Nat,
         right - left + 1 < 2 * half, NEW middle, middle = (left + right) \div 2
  PROVE  /\ middle \in Nat /\ left <= middle /\ middle <= right
         /\ right - middle < half /\ middle - left < half
  OBVIOUS

\* The two sides of that middle are each less than half of what is left.
LEMMA Halves ==
  ASSUME NEW left \in Nat, NEW right \in Nat, NEW middle \in Nat, NEW half \in Nat,
         right - middle < half, middle - left < half
  PROVE  /\ right - (middle + 1) + 1 < half
         /\ (middle - 1) - left + 1 < half
  OBVIOUS

\* The branch of a pass for an angle in the middle that is before the target.
LEMMA PassRight ==
  ASSUME NEW angles, NEW target \in Int, NEW p,
         p.left \in Nat, p.right \in Nat, p.left <= p.right,
         NEW middle, middle = (p.left + p.right) \div 2, angles[middle] \in Int,
         angles[middle] < target
  PROVE  searchPass(angles, target, p) = [left |-> middle + 1, right |-> p.right]
BY DEF searchPass

\* The branch for one that is past it.
LEMMA PassLeft ==
  ASSUME NEW angles, NEW target \in Int, NEW p,
         p.left \in Nat, p.right \in Nat, p.left <= p.right,
         NEW middle, middle = (p.left + p.right) \div 2, angles[middle] \in Int,
         angles[middle] > target
  PROVE  searchPass(angles, target, p) = [left |-> p.left, right |-> middle - 1]
<1>1. ~(p.left > p.right) /\ ~(angles[middle] < target)
  OBVIOUS
<1> QED BY <1>1 DEF searchPass

\* The branch for one that is the target.
LEMMA PassFound ==
  ASSUME NEW angles, NEW target \in Int, NEW p,
         p.left \in Nat, p.right \in Nat, p.left <= p.right,
         NEW middle, middle = (p.left + p.right) \div 2, angles[middle] \in Int,
         angles[middle] = target
  PROVE  searchPass(angles, target, p) = [left |-> middle + 1, right |-> middle]
<1>1. ~(p.left > p.right) /\ ~(angles[middle] < target) /\ ~(angles[middle] > target)
  OBVIOUS
<1> QED BY <1>1 DEF searchPass

\* A pass keeps that, and halves what is left of the table.
LEMMA PassAdvances ==
  ASSUME NEW n \in Nat \ {0}, NEW angles \in [0 .. n - 1 -> Int], NEW target \in Int,
         angles[0] <= target,
         \A i, j \in 0 .. n - 1 : i <= j => angles[i] <= angles[j],
         NEW p, SearchInv(angles, target, n, p),
         NEW half \in Nat, p.right - p.left + 1 < 2 * half
  PROVE  /\ SearchInv(angles, target, n, searchPass(angles, target, p))
         /\ searchPass(angles, target, p).right - searchPass(angles, target, p).left + 1 < half
<1> SUFFICES ASSUME NEW q, q = searchPass(angles, target, p)
             PROVE  SearchInv(angles, target, n, q) /\ q.right - q.left + 1 < half
  OBVIOUS
<1>1. p.left \in 0 .. n /\ p.right \in 0 .. n - 1 /\ p.left <= p.right + 1
  BY DEF SearchInv
<1>4. p.left \in Nat /\ p.right \in Nat
  BY <1>1
<1>5. q = searchPass(angles, target, p) /\ target \in Int
  OBVIOUS
<1>2. CASE p.left > p.right
  <2>1. q = p
    BY <1>2 DEF searchPass
  <2> QED BY <1>1, <1>2, <2>1
<1>3. CASE p.left <= p.right
  <2>0. PICK middle : middle = (p.left + p.right) \div 2
    OBVIOUS
  <2>9. /\ middle \in Nat /\ p.left <= middle /\ middle <= p.right
        /\ p.right - middle < half /\ middle - p.left < half
    BY <1>3, <1>4, <2>0, Middle
  <2>1. middle \in 0 .. n - 1
    BY <1>1, <2>9
  <2>2. \A i \in 0 .. n - 1 : i > p.right => ~(angles[i] <= target)
    BY <1>1, <1>3 DEF SearchInv
  <2>3. angles[middle] \in Int
    BY <2>1
  <2>8. /\ p.right - (middle + 1) + 1 < half
        /\ (middle - 1) - p.left + 1 < half
    BY <1>4, <2>9, Halves
  <2>4. CASE angles[middle] < target
    <3>1. q = [left |-> middle + 1, right |-> p.right]
      BY ONLY <1>3, <1>4, <1>5, <2>0, <2>3, <2>4, PassRight
    <3>2. q.left = middle + 1 /\ q.right = p.right
      BY <3>1
    <3>3. q.left \in 0 .. n /\ q.right \in 0 .. n - 1 /\ q.left <= q.right + 1
      BY <1>1, <2>1, <2>9, <3>2
    <3>4. q.right - q.left + 1 < half
      BY <2>8, <3>2
    <3>5. q.left - 1 = middle
      BY <2>1, <2>9, <3>2
    <3>6. angles[q.left - 1] <= target
      BY <2>3, <2>4, <3>5
    <3> QED BY <2>2, <3>2, <3>3, <3>4, <3>6 DEF SearchInv
  <2>5. CASE angles[middle] > target
    <3>1. q = [left |-> p.left, right |-> middle - 1]
      BY ONLY <1>3, <1>4, <1>5, <2>0, <2>3, <2>5, PassLeft
    <3>2. q.left = p.left /\ q.right = middle - 1
      BY <3>1
    <3>3. middle # 0
      BY <2>5, <2>3
    <3>4. \A i \in 0 .. n - 1 : i >= middle => ~(angles[i] <= target)
      BY <2>1, <2>3, <2>5
    <3>5. p.left > 0 => angles[p.left - 1] <= target
      BY DEF SearchInv
    <3>6. \A i \in 0 .. n - 1 : i > q.right => i >= middle
      BY <2>1, <2>9, <3>2
    <3>7. q.left \in 0 .. n /\ q.right \in 0 .. n - 1 /\ q.left <= q.right + 1
      BY <1>1, <2>1, <2>9, <3>2, <3>3
    <3>8. q.right - q.left + 1 < half
      BY <2>8, <3>2
    <3> QED BY <3>2, <3>4, <3>5, <3>6, <3>7, <3>8 DEF SearchInv
  <2>6. CASE angles[middle] = target
    <3>1. q = [left |-> middle + 1, right |-> middle]
      BY ONLY <1>3, <1>4, <1>5, <2>0, <2>3, <2>6, PassFound
    <3>2. q.left = middle + 1 /\ q.right = middle
      BY <3>1
    <3>3. q.left - 1 = middle
      BY <2>9, <3>2
    <3>4. \A i \in 0 .. n - 1 : angles[i] <= target => angles[i] <= angles[q.left - 1]
      BY <2>6, <3>3
    <3>5. q.left \in 0 .. n /\ q.right \in 0 .. n - 1 /\ q.left <= q.right + 1
      BY <2>1, <2>9, <3>2
    <3>6. q.left > q.right
      BY <2>9, <3>2
    <3>7. angles[q.left - 1] <= target
      BY <2>3, <2>6, <3>3
    <3>8. q.right - q.left + 1 < half
      <4>1. q.right - q.left + 1 = 0
        BY <2>9, <3>2
      <4>2. half > 0
        BY <1>4, <2>9
      <4> QED BY <4>1, <4>2
    <3> QED BY <3>4, <3>5, <3>6, <3>7, <3>8 DEF SearchInv
  <2> QED BY <2>3, <2>4, <2>5, <2>6
<1> QED BY <1>1, <1>2, <1>3

\* A table of n angles that starts with 0 and never goes back.
SortedTable(angles, n) ==
  /\ n \in 1 .. 511 /\ angles \in [0 .. n - 1 -> Int] /\ angles[0] = 0
  /\ \A i, j \in 0 .. n - 1 : i <= j => angles[i] <= angles[j]

\* Index q of the table has the last of its angles that are not past the target.
LastNotPast(angles, n, target, q) ==
  /\ q \in 0 .. n - 1 /\ angles[q] <= target
  /\ \A i \in 0 .. n - 1 : angles[i] <= target => angles[i] <= angles[q]

\* The table of angles that the search relies on: its size, that it starts with 0 and never
\* goes back and, with rising edges only, that its angles come in pairs.
TableOK(s) ==
  LET n == CyclesPerEngineCycle(s) * Size(s)
  IN  /\ SortedTable(s.eventAngles, n)
      /\ s.useOnlyRisingEdge =>
           \A i \in 0 .. n - 1 : s.eventAngles[2 * (i \div 2)] = s.eventAngles[i]

\* The passes end with the last of the angles that are not past the target.
LEMMA SearchEnds ==
  ASSUME NEW n, NEW angles, SortedTable(angles, n), NEW target \in Nat,
         NEW pass, Passes(pass, angles, target, [left |-> 0, right |-> n - 1], SEARCH_PASSES),
         NEW q, q = pass[SEARCH_PASSES].left - 1
  PROVE  LastNotPast(angles, n, target, q)
<1> USE DEF SortedTable, LastNotPast
<1>0. pass = [k \in 0 .. SEARCH_PASSES |-> IF k = 0 THEN [left |-> 0, right |-> n - 1]
                                           ELSE searchPass(angles, target, pass[k - 1])]
  BY Zenon DEF Passes
<1>1. pass[0] = [left |-> 0, right |-> n - 1]
  BY <1>0 DEF SEARCH_PASSES
<1>2. \A k \in 0 .. 8 : pass[k + 1] = searchPass(angles, target, pass[k])
  <2> SUFFICES ASSUME NEW k \in 0 .. 8 PROVE pass[k + 1] = searchPass(angles, target, pass[k])
    OBVIOUS
  <2>1. k + 1 \in 0 .. SEARCH_PASSES /\ k + 1 # 0 /\ (k + 1) - 1 = k
    BY DEF SEARCH_PASSES
  <2> QED BY <1>0, <2>1
<1>3. n \in Nat \ {0} /\ angles[0] <= target /\ target \in Int /\ 0 \in 0 .. n - 1
  OBVIOUS
<1> DEFINE Inv(k, bound) == /\ SearchInv(angles, target, n, pass[k])
                           /\ pass[k].right - pass[k].left + 1 < bound
<1>6. Inv(0, 512)
  <2>1. pass[0].left = 0 /\ pass[0].right = n - 1
    BY <1>1
  <2>2. SearchInv(angles, target, n, pass[0])
    <3>1. \A i \in 0 .. n - 1 : ~(i > pass[0].right)
      BY <2>1
    <3>2. pass[0].left \in 0 .. n /\ pass[0].right \in 0 .. n - 1
          /\ pass[0].left <= pass[0].right + 1 /\ ~(pass[0].left > 0)
      BY <1>3, <2>1
    <3> QED BY <3>1, <3>2, Zenon DEF SearchInv
  <2> QED BY <2>1, <2>2
<1>7. ASSUME NEW k \in 0 .. 8, NEW half \in Nat, Inv(k, 2 * half) PROVE Inv(k + 1, half)
  <2>1. pass[k + 1] = searchPass(angles, target, pass[k])
    BY <1>2
  <2>2. /\ SearchInv(angles, target, n, searchPass(angles, target, pass[k]))
        /\ searchPass(angles, target, pass[k]).right - searchPass(angles, target, pass[k]).left + 1 < half
    <3> HIDE DEF SearchInv
    <3> QED BY <1>3, <1>7, PassAdvances
  <2> QED BY <2>1, <2>2
<1>8. Inv(9, 1)
  <2> HIDE DEF Inv
  <2>1. Inv(1, 256) BY <1>6, <1>7
  <2>2. Inv(2, 128) BY <2>1, <1>7
  <2>3. Inv(3, 64) BY <2>2, <1>7
  <2>4. Inv(4, 32) BY <2>3, <1>7
  <2>5. Inv(5, 16) BY <2>4, <1>7
  <2>6. Inv(6, 8) BY <2>5, <1>7
  <2>7. Inv(7, 4) BY <2>6, <1>7
  <2>8. Inv(8, 2) BY <2>7, <1>7
  <2> QED BY <2>8, <1>7
<1> DEFINE left == pass[9].left
           right == pass[9].right
<1>9. /\ left \in 0 .. n /\ right \in 0 .. n - 1 /\ left <= right + 1 /\ right - left + 1 < 1
      /\ left > 0 => angles[left - 1] <= target
      /\ \A i \in 0 .. n - 1 : i > right /\ angles[i] <= target => angles[i] <= angles[left - 1]
  BY <1>8 DEF SearchInv
<1>10. q = left - 1
  BY DEF SEARCH_PASSES
<1> HIDE DEF left, right
<1>11. q = right /\ q \in 0 .. n - 1 /\ left > 0
  BY <1>9, <1>10
<1>12. ASSUME NEW i \in 0 .. n - 1, angles[i] <= target PROVE angles[i] <= angles[q]
  <2>1. CASE i > q
    BY <1>9, <1>10, <1>11, <1>12, <2>1
  <2>2. CASE i <= q
    BY <1>11, <2>2
  <2> QED BY <1>11, <2>1, <2>2
<1> QED BY <1>9, <1>10, <1>11, <1>12

\* So does findAngleIndex.
LEMMA FoundIsLast ==
  ASSUME NEW s, TableOK(s), NEW n, n = CyclesPerEngineCycle(s) * Size(s),
         NEW target \in Nat
  PROVE  LastNotPast(s.eventAngles, n, target, findAngleIndex(s, target))
<1> DEFINE angles == s.eventAngles
           start == [left |-> 0, right |-> CyclesPerEngineCycle(s) * Size(s) - 1]
           pass == CHOOSE f : Passes(f, angles, target, start, SEARCH_PASSES)
           q == pass[SEARCH_PASSES].left - 1
<1>1. findAngleIndex(s, target) = q
  BY Zenon DEF findAngleIndex, Passes
<1>2. SortedTable(angles, n)
  BY Zenon DEF TableOK
<1>3. start = [left |-> 0, right |-> n - 1]
  OBVIOUS
<1> HIDE DEF start, angles
<1>4. \E f : Passes(f, angles, target, start, SEARCH_PASSES)
  <2>1. SEARCH_PASSES \in Nat
    BY DEF SEARCH_PASSES
  <2> QED BY <2>1, PassesExist
<1>5. Passes(pass, angles, target, start, SEARCH_PASSES)
  BY <1>4, Zenon
<1> HIDE DEF pass
<1>6. Passes(pass, angles, target, [left |-> 0, right |-> n - 1], SEARCH_PASSES)
  BY <1>3, <1>5
<1>7. PICK r : r = pass[SEARCH_PASSES].left - 1
  OBVIOUS
<1>8. LastNotPast(angles, n, target, r)
  BY <1>2, <1>6, <1>7, SearchEnds
<1>9. findAngleIndex(s, target) = r
  BY <1>1, <1>7
<1> QED BY <1>8, <1>9, Zenon DEF angles

\* The number of trigger cycles in an engine cycle.
LEMMA CyclesKnown ==
  ASSUME NEW s
  PROVE  CyclesPerEngineCycle(s) \in {1, 2, 4, 6}
<1>1. CASE s.operationMode \in {"THREE_TIMES_CRANK", "SYMMETRICAL_CRANK", "CRANK"}
  BY <1>1 DEF CyclesPerEngineCycle
<1>2. CASE s.operationMode \notin {"THREE_TIMES_CRANK", "SYMMETRICAL_CRANK", "CRANK"}
  BY <1>2 DEF CyclesPerEngineCycle
<1> QED BY <1>1, <1>2

\* For every degree, prepareShape finds the last event at or before it in a table that
\* starts with 0 and never goes back, whatever its size.
THEOREM SearchFindsPosition ==
  ASSUME NEW s, TableOK(s)
  PROVE  PositionsFound(s)
<1> DEFINE c == CyclesPerEngineCycle(s)
           n == c * Size(s)
           angles == s.eventAngles
<1>1. DegreeUnits(s) \in Nat
  <2>1. c \in {1, 2, 4, 6}
    BY CyclesKnown
  <2>2. (c * 7200) \div 360 \in Nat /\ (c * 7200) \div 720 \in Nat
    <3> HIDE DEF c
    <3> QED BY <2>1
  <2> QED BY <2>2 DEF DegreeUnits, CYCLE
<1> SUFFICES ASSUME NEW degree \in 0 .. (c * CYCLE) \div DegreeUnits(s) - 1
             PROVE  LET angle == degree * DegreeUnits(s)
                        found == angles[triggerIndexByAngle(s, degree)]
                    IN  /\ found <= angle
                        /\ \A i \in DOMAIN angles : angles[i] <= angle => angles[i] <= found
  BY Zenon DEF PositionsFound
<1> DEFINE angle == degree * DegreeUnits(s)
           index == findAngleIndex(s, angle)
<1>2. angle \in Nat
  <2>1. degree \in Nat
    OBVIOUS
  <2> QED BY <1>1, <2>1
<1> HIDE DEF angle
<1>3. LastNotPast(angles, n, angle, index)
  BY <1>2, FoundIsLast
<1>4. SortedTable(angles, n)
  BY Zenon DEF TableOK
<1>5. DOMAIN angles = 0 .. n - 1
  BY <1>4 DEF SortedTable
<1>6. angles[triggerIndexByAngle(s, degree)] = angles[index]
  <2>1. index \in 0 .. n - 1
    BY <1>3, Zenon DEF LastNotPast
  <2>2. s.useOnlyRisingEdge => angles[2 * (index \div 2)] = angles[index]
    BY <2>1, Zenon DEF TableOK
  <2> HIDE DEF index
  <2>3. triggerIndexByAngle(s, degree) = IF s.useOnlyRisingEdge THEN 2 * (index \div 2) ELSE index
    BY Zenon DEF triggerIndexByAngle, index, angle
  <2> QED BY <2>2, <2>3
<1> HIDE DEF index, n, angles
<1>7. /\ angles[index] <= angle
      /\ \A i \in DOMAIN angles : angles[i] <= angle => angles[i] <= angles[index]
  BY <1>3, <1>5, Zenon DEF LastNotPast
<1> QED BY <1>6, <1>7, Zenon DEF angle

-----------------------------------------------------------------------------
(* The table of a wheel decoded on both edges *)

\* Division with a remainder.
LEMMA Remainder ==
  ASSUME NEW d \in Nat \ {0}, NEW i \in Nat
  PROVE  i \div d \in Nat /\ i % d \in 0 .. d - 1 /\ i = d * (i \div d) + (i % d)
  OBVIOUS

\* A later index is in a later cycle, or later in the same cycle.
LEMMA LaterIndex ==
  ASSUME NEW d \in Nat \ {0}, NEW i \in Nat, NEW j \in Nat, i < j
  PROVE  i \div d < j \div d \/ (i \div d = j \div d /\ i % d < j % d)
<1> DEFINE qi == i \div d
           qj == j \div d
           ri == i % d
           rj == j % d
<1>1. /\ qi \in Nat /\ qj \in Nat /\ ri \in 0 .. d - 1 /\ rj \in 0 .. d - 1
      /\ i = d * qi + ri /\ j = d * qj + rj
  BY Remainder
<1> HIDE DEF qi, qj, ri, rj
<1>2. ASSUME qi > qj PROVE FALSE
  <2>1. d * qi >= d * qj + d
    BY <1>1, <1>2
  <2> QED BY <1>1, <2>1
<1>3. qi < qj \/ (qi = qj /\ ri < rj)
  <2>1. qi = qj => d * qi = d * qj
    OBVIOUS
  <2> QED BY <1>1, <1>2, <2>1
<1> QED BY <1>3 DEF qi, qj, ri, rj

\* The cycles of an index.
LEMMA CycleOfIndex ==
  ASSUME NEW d \in Nat \ {0}, NEW c \in Nat \ {0}, NEW i \in 0 .. c * d - 1
  PROVE  i \div d \in 0 .. c - 1
<1> DEFINE q == i \div d
<1>1. q \in Nat /\ i % d \in 0 .. d - 1 /\ i = d * q + (i % d)
  BY Remainder
<1> HIDE DEF q
<1>2. CASE q >= c
  <2>1. d * q >= d * c
    BY <1>1, <1>2
  <2>2. d * c = c * d
    OBVIOUS
  <2> QED BY <1>1, <2>1, <2>2
<1> QED BY <1>1, <1>2 DEF q

\* Events, each after the one before, are in order.
LEMMA EventsInOrder ==
  ASSUME NEW n \in Nat, NEW a, \A i \in 1 .. n : a[i] \in Int,
         \A i \in 1 .. n - 1 : a[i] < a[i + 1],
         NEW i \in 1 .. n, NEW j \in 1 .. n, i < j
  PROVE  a[i] < a[j]
<1> DEFINE T == {k \in Nat : k \in i + 1 .. n /\ ~(a[i] < a[k])}
<1>1. SUFFICES ASSUME T # {} PROVE FALSE
  OBVIOUS
<1>2. PICK k \in T : \A m \in T : k <= m
  <2> HIDE DEF T
  <2>1. T \subseteq Nat
    BY DEF T
  <2> QED BY <1>1, <2>1, LeastExists
<1>3. k \in i + 1 .. n /\ ~(a[i] < a[k])
  BY <1>2
<1>4. k - 1 \in i .. n /\ k - 1 \in 1 .. n - 1 /\ k - 1 \notin T
  BY <1>2, <1>3
<1>5. k - 1 = i \/ a[i] < a[k - 1]
  BY <1>4
<1>6. a[k - 1] < a[k]
  <2>1. (k - 1) + 1 = k
    BY <1>3
  <2>2. a[k - 1] < a[(k - 1) + 1]
    BY <1>4
  <2> QED BY <2>1, <2>2
<1> QED BY <1>3, <1>4, <1>5, <1>6

\* They are all within a cycle that starts before the first and ends with the last.
LEMMA EventsWithin ==
  ASSUME NEW n \in Nat \ {0}, NEW a, \A i \in 1 .. n : a[i] \in Int,
         \A i \in 1 .. n - 1 : a[i] < a[i + 1], a[1] > 0, NEW cycle \in Int, a[n] = cycle
  PROVE  \A i \in 1 .. n : a[i] \in 1 .. cycle
<1> SUFFICES ASSUME NEW i \in 1 .. n PROVE a[i] \in 1 .. cycle
  OBVIOUS
<1>1. 1 \in 1 .. n /\ n \in 1 .. n /\ 1 <= i /\ i <= n
  OBVIOUS
<1>2. (i = 1 \/ a[1] < a[i]) /\ (i = n \/ a[i] < a[n])
  BY <1>1, EventsInOrder
<1> QED BY <1>1, <1>2

\* A remainder within one period of what is divided.
LEMMA OnePeriod ==
  ASSUME NEW d \in Nat \ {0}, NEW x \in Int
  PROVE  /\ 0 <= x /\ x < d => x % d = x
         /\ 0 <= x + d /\ x < 0 => x % d = x + d
         /\ d <= x /\ x < 2 * d => x % d = x - d
  OBVIOUS

\* What is known of a wheel that its definition and the length check accept.
AcceptedWheel(s) ==
  /\ Size(s) \in Nat /\ \A i \in 1 .. Size(s) : s.events[i].angle \in Int
  /\ ~DefinitionError(s, FALSE)

\* The angle of an index within the engine cycle, before it is counted from the first event.
AngleOfIndex(s, i) == (i \div Size(s)) * CYCLE + s.events[(i % Size(s)) + 1].angle

\* These angles are in order, and within the engine cycle.
LEMMA AnglesInOrder ==
  ASSUME NEW s, AcceptedWheel(s), Size(s) # 0, NEW n, n = CyclesPerEngineCycle(s) * Size(s)
  PROVE  /\ n \in 1 .. PWM_PHASE_MAX_COUNT - 1
         /\ \A i \in 0 .. n - 1 : AngleOfIndex(s, i) \in 1 .. CyclesPerEngineCycle(s) * CYCLE
         /\ \A i, j \in 0 .. n - 1 : i < j => AngleOfIndex(s, i) < AngleOfIndex(s, j)
<1> DEFINE size == Size(s)
           c == CyclesPerEngineCycle(s)
           a == [k \in 1 .. size |-> s.events[k].angle]
<1>1. c \in {1, 2, 4, 6}
  BY CyclesKnown
<1>2. size \in Nat \ {0}
  BY DEF AcceptedWheel
<1>3. /\ \A k \in 1 .. size : a[k] \in Int
      /\ \A k \in 1 .. size - 1 : a[k] < a[k + 1]
      /\ a[1] > 0 /\ a[size] = CYCLE /\ ~(n >= PWM_PHASE_MAX_COUNT)
  <2>1. \A k \in 1 .. size : a[k] = s.events[k].angle /\ a[k] \in Int
    BY DEF AcceptedWheel
  <2>2. /\ \A k \in 1 .. size - 1 : ~(s.events[k].angle >= s.events[k + 1].angle)
        /\ ~(s.events[1].angle <= 0) /\ s.events[size].angle = CYCLE
        /\ ~(n >= PWM_PHASE_MAX_COUNT)
    BY DEF AcceptedWheel, DefinitionError
  <2>3. 1 \in 1 .. size /\ size \in 1 .. size
    BY <1>2
  <2>4. \A k \in 1 .. size - 1 : k \in 1 .. size /\ k + 1 \in 1 .. size
    BY <1>2
  <2> HIDE DEF a, size
  <2> QED BY <2>1, <2>2, <2>3, <2>4
<1> HIDE DEF a
<1>4. \A k, m \in 1 .. size : k < m => a[k] < a[m]
  <2> HIDE DEF a, size
  <2> QED BY <1>2, <1>3, EventsInOrder
<1>5. \A k \in 1 .. size : a[k] \in 1 .. CYCLE
  <2> HIDE DEF size
  <2> QED BY <1>2, <1>3, EventsWithin
<1>6. n \in 1 .. PWM_PHASE_MAX_COUNT - 1
  <2> HIDE DEF size, c
  <2>1. n = c * size /\ ~(n >= PWM_PHASE_MAX_COUNT)
    BY <1>3 DEF size, c
  <2> QED BY <1>1, <1>2, <2>1 DEF PWM_PHASE_MAX_COUNT
<1>7. ASSUME NEW i \in 0 .. n - 1
      PROVE  /\ i \div size \in 0 .. c - 1 /\ (i % size) + 1 \in 1 .. size
             /\ AngleOfIndex(s, i) = (i \div size) * CYCLE + a[(i % size) + 1]
  <2>1. i \in Nat
    BY <1>6
  <2>2. (i % size) + 1 \in 1 .. size
    <3> HIDE DEF size
    <3>1. i % size \in 0 .. size - 1
      BY <1>2, <2>1, Remainder
    <3> QED BY <1>2, <3>1
  <2>3. i \div size \in 0 .. c - 1
    <3>1. n = c * size /\ c \in Nat \ {0}
      BY <1>1
    <3> HIDE DEF size, c
    <3> QED BY <1>2, <3>1, CycleOfIndex
  <2>4. a[(i % size) + 1] = s.events[(i % size) + 1].angle
    BY <2>2 DEF a
  <2> QED BY <2>2, <2>3, <2>4 DEF AngleOfIndex
<1> HIDE DEF size, c
<1>8. ASSUME NEW i \in 0 .. n - 1 PROVE AngleOfIndex(s, i) \in 1 .. c * CYCLE
  <2> DEFINE q == i \div size
             x == a[(i % size) + 1]
  <2>1. q \in 0 .. c - 1 /\ x \in 1 .. CYCLE /\ AngleOfIndex(s, i) = q * CYCLE + x
    BY <1>5, <1>7
  <2> HIDE DEF q, x
  <2> QED BY <1>1, <2>1 DEF CYCLE
<1>9. ASSUME NEW i \in 0 .. n - 1, NEW j \in 0 .. n - 1, i < j
      PROVE  AngleOfIndex(s, i) < AngleOfIndex(s, j)
  <2> DEFINE qi == i \div size
             qj == j \div size
             ai == a[(i % size) + 1]
             aj == a[(j % size) + 1]
  <2>1. qi < qj \/ (qi = qj /\ i % size < j % size)
    <3>1. i \in Nat /\ j \in Nat
      BY <1>6
    <3> QED BY <1>2, <1>9, <3>1, LaterIndex
  <2>2. ai \in 1 .. CYCLE /\ aj \in 1 .. CYCLE /\ qi \in 0 .. c - 1 /\ qj \in 0 .. c - 1
    BY <1>5, <1>7
  <2>3. i % size < j % size => ai < aj
    <3>1. (i % size) + 1 \in 1 .. size /\ (j % size) + 1 \in 1 .. size
      BY <1>7
    <3>2. i % size \in Int /\ j % size \in Int
      BY <1>2, <1>6, Remainder
    <3>3. i % size < j % size => (i % size) + 1 < (j % size) + 1
      BY <3>2
    <3> QED BY <1>4, <3>1, <3>3
  <2>4. AngleOfIndex(s, i) = qi * CYCLE + ai /\ AngleOfIndex(s, j) = qj * CYCLE + aj
    BY <1>7
  <2> HIDE DEF qi, qj, ai, aj
  <2> QED BY <1>1, <2>1, <2>2, <2>3, <2>4 DEF CYCLE
<1> QED BY <1>6, <1>8, <1>9 DEF c

\* Counted from the first event, the angles go up to the end of the engine cycle and on from
\* its start: they are still in order.
LEMMA CountedInOrder ==
  ASSUME NEW n \in Nat \ {0}, NEW period \in Nat \ {0}, NEW zero \in 0 .. n - 1,
         NEW g, \A i \in 0 .. n - 1 : g[i] \in 1 .. period,
         \A i, j \in 0 .. n - 1 : i < j => g[i] < g[j],
         NEW h, \A i \in 0 .. n - 1 : h[i] = (g[(zero + i) % n] - g[zero]) % period
  PROVE  /\ h[0] = 0 /\ \A i \in 0 .. n - 1 : h[i] \in Int
         /\ \A i, j \in 0 .. n - 1 : i <= j => h[i] <= h[j]
<1>1. g[zero] \in 1 .. period /\ zero \in Nat
  OBVIOUS
<1>2. ASSUME NEW i \in 0 .. n - 1, zero + i < n
      PROVE  zero + i \in 0 .. n - 1 /\ h[i] = g[zero + i] - g[zero]
  <2>1. zero + i \in 0 .. n - 1 /\ zero + i \in Int /\ 0 <= zero + i
    BY <1>1, <1>2
  <2>2. (zero + i) % n = zero + i
    BY <1>2, <2>1, OnePeriod
  <2>3. h[i] = (g[zero + i] - g[zero]) % period
    BY <2>2
  <2> DEFINE x == g[zero + i] - g[zero]
  <2>4. x \in Int /\ 0 <= x /\ x < period
    <3>1. g[zero + i] \in 1 .. period
      BY <2>1
    <3>2. i = 0 \/ g[zero] < g[zero + i]
      BY <1>1, <2>1
    <3>3. i = 0 => zero + i = zero
      BY <1>1
    <3> QED BY <1>1, <3>1, <3>2, <3>3
  <2>5. x % period = x
    <3> HIDE DEF x
    <3> QED BY <2>4, OnePeriod
  <2> QED BY <2>1, <2>3, <2>5
<1>3. ASSUME NEW i \in 0 .. n - 1, zero + i >= n
      PROVE  zero + i - n \in 0 .. n - 1 /\ h[i] = g[zero + i - n] - g[zero] + period
  <2>1. zero + i - n \in 0 .. n - 1 /\ zero + i \in Int /\ zero + i < 2 * n /\ zero + i - n < zero
    BY <1>1, <1>3
  <2>2. (zero + i) % n = zero + i - n
    <3> DEFINE y == zero + i
    <3>1. y \in Int /\ n <= y /\ y < 2 * n
      BY <1>3, <2>1
    <3>2. y % n = y - n
      <4> HIDE DEF y
      <4> QED BY <3>1, OnePeriod
    <3> QED BY <3>2
  <2>3. h[i] = (g[zero + i - n] - g[zero]) % period
    BY <2>2
  <2> DEFINE x == g[zero + i - n] - g[zero]
  <2>4. x \in Int /\ 0 <= x + period /\ x < 0
    <3>1. g[zero + i - n] \in 1 .. period /\ g[zero + i - n] < g[zero]
      BY <2>1
    <3> QED BY <1>1, <3>1
  <2>5. x % period = x + period
    <3> HIDE DEF x
    <3> QED BY <2>4, OnePeriod
  <2> QED BY <2>1, <2>3, <2>5
<1>4. h[0] = 0
  <2>1. 0 \in 0 .. n - 1 /\ zero + 0 < n /\ zero + 0 = zero
    BY <1>1
  <2>2. h[0] = g[zero] - g[zero]
    BY <1>2, <2>1
  <2> QED BY <1>1, <2>2
<1>5. ASSUME NEW i \in 0 .. n - 1 PROVE h[i] \in Int
  <2>1. CASE zero + i < n
    BY <1>1, <1>2, <2>1
  <2>2. CASE zero + i >= n
    BY <1>1, <1>3, <2>2
  <2> QED BY <1>1, <2>1, <2>2
<1>6. ASSUME NEW i \in 0 .. n - 1, NEW j \in 0 .. n - 1, i <= j PROVE h[i] <= h[j]
  <2>1. CASE zero + j < n
    <3>1. zero + i < n /\ (i = j \/ zero + i < zero + j)
      BY <1>1, <1>6, <2>1
    <3>2. /\ zero + i \in 0 .. n - 1 /\ h[i] = g[zero + i] - g[zero]
          /\ zero + j \in 0 .. n - 1 /\ h[j] = g[zero + j] - g[zero]
      BY <1>2, <2>1, <3>1
    <3>3. /\ g[zero + i] \in 1 .. period /\ g[zero + j] \in 1 .. period
          /\ i = j \/ g[zero + i] < g[zero + j]
      BY <3>1, <3>2
    <3> QED BY <1>1, <3>2, <3>3
  <2>2. CASE zero + i >= n
    <3>1. zero + j >= n /\ (i = j \/ zero + i - n < zero + j - n)
      BY <1>1, <1>6, <2>2
    <3>2. /\ zero + i - n \in 0 .. n - 1 /\ h[i] = g[zero + i - n] - g[zero] + period
          /\ zero + j - n \in 0 .. n - 1 /\ h[j] = g[zero + j - n] - g[zero] + period
      BY <1>3, <2>2, <3>1
    <3>3. /\ g[zero + i - n] \in 1 .. period /\ g[zero + j - n] \in 1 .. period
          /\ i = j \/ g[zero + i - n] < g[zero + j - n]
      BY <3>1, <3>2
    <3> QED BY <1>1, <3>2, <3>3
  <2>3. CASE zero + i < n /\ zero + j >= n
    <3>1. /\ zero + i \in 0 .. n - 1 /\ h[i] = g[zero + i] - g[zero]
          /\ zero + j - n \in 0 .. n - 1 /\ h[j] = g[zero + j - n] - g[zero] + period
      BY <1>2, <1>3, <2>3
    <3>2. g[zero + i] \in 1 .. period /\ g[zero + j - n] \in 1 .. period
      BY <3>1
    <3> QED BY <1>1, <3>1, <3>2
  <2> QED BY <1>1, <2>1, <2>2, <2>3
<1> QED BY <1>4, <1>5, <1>6

\* The table that calculateTriggerSynchPoint makes of a wheel decoded on both edges starts
\* with 0 and never goes back, wherever on the wheel the first event is.
LEMMA TableOfWheel ==
  ASSUME NEW s, AcceptedWheel(s), ~s.useOnlyRisingEdge, NEW zeroEvent \in 1 .. Size(s),
         s.eventAngles = calculateTriggerSynchPoint(s, zeroEvent)
  PROVE  TableOK(s)
<1> DEFINE c == CyclesPerEngineCycle(s)
           size == Size(s)
           n == c * size
           zero == zeroEvent - 1
           g == [i \in 0 .. n - 1 |-> AngleOfIndex(s, i)]
           h == s.eventAngles
<1>1. size \in Nat /\ size # 0 /\ zero \in 0 .. size - 1
  BY DEF AcceptedWheel
<1>2. /\ n \in 1 .. PWM_PHASE_MAX_COUNT - 1
      /\ \A i \in 0 .. n - 1 : AngleOfIndex(s, i) \in 1 .. c * CYCLE
      /\ \A i, j \in 0 .. n - 1 : i < j => AngleOfIndex(s, i) < AngleOfIndex(s, j)
  BY <1>1, AnglesInOrder
<1>3. c \in {1, 2, 4, 6}
  BY CyclesKnown
<1>4. zero \in 0 .. n - 1
  <2> HIDE DEF c, size, zero
  <2> QED BY <1>1, <1>3
<1>5. h = [i \in 0 .. n - 1 |->
             (AngleOfIndex(s, (zero + i) % n) - AngleOfIndex(s, zero)) % (c * CYCLE)]
  BY DEF calculateTriggerSynchPoint, AngleOfIndex
<1> HIDE DEF n, zero, c, size
<1>6. n \in Nat \ {0} /\ n \in 1 .. 511 /\ c * CYCLE \in Nat \ {0}
  BY <1>2, <1>3 DEF PWM_PHASE_MAX_COUNT, CYCLE
<1>7. \A i \in 0 .. n - 1 : h[i] = (g[(zero + i) % n] - g[zero]) % (c * CYCLE)
  <2> TAKE i \in 0 .. n - 1
  <2>1. (zero + i) % n \in 0 .. n - 1
    <3>1. zero + i \in Nat
      BY <1>4, <1>6
    <3> QED BY <1>6, <3>1, Remainder
  <2>2. g[(zero + i) % n] = AngleOfIndex(s, (zero + i) % n) /\ g[zero] = AngleOfIndex(s, zero)
    BY <1>4, <2>1
  <2> HIDE DEF g
  <2>3. h[i] = (AngleOfIndex(s, (zero + i) % n) - AngleOfIndex(s, zero)) % (c * CYCLE)
    BY <1>5, Zenon
  <2> QED BY <2>2, <2>3
<1>8. /\ \A i \in 0 .. n - 1 : g[i] \in 1 .. c * CYCLE
      /\ \A i, j \in 0 .. n - 1 : i < j => g[i] < g[j]
  BY <1>2
<1> HIDE DEF g, h
<1>9. /\ h[0] = 0 /\ \A i \in 0 .. n - 1 : h[i] \in Int
      /\ \A i, j \in 0 .. n - 1 : i <= j => h[i] <= h[j]
  BY <1>4, <1>6, <1>7, <1>8, CountedInOrder
<1>10. h \in [0 .. n - 1 -> Int]
  <2>1. h = [i \in 0 .. n - 1 |-> h[i]]
    BY <1>5, Zenon
  <2> QED BY <1>9, <2>1
<1>11. SortedTable(h, n)
  BY <1>6, <1>9, <1>10 DEF SortedTable
<1> QED BY <1>11, Zenon DEF TableOK, h, n, c, size

\* Whatever the wheel, the number of its teeth and where its first event is: when its
\* definition is accepted and it is decoded on both edges, prepareShape finds for every degree
\* of the engine cycle the last event at or before it.
THEOREM WheelPositionsFound ==
  ASSUME NEW s, AcceptedWheel(s), ~s.useOnlyRisingEdge, NEW zeroEvent \in 1 .. Size(s),
         s.eventAngles = calculateTriggerSynchPoint(s, zeroEvent)
  PROVE  PositionsFound(s)
  BY TableOfWheel, SearchFindsPosition
=============================================================================
