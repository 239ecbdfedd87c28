------------------------- MODULE TriggerPosition -------------------------
(***************************************************************************)
(* From an angle of the engine cycle to the trigger event it is scheduled  *)
(* from: the table of angles that calculateTriggerSynchPoint makes of a    *)
(* wheel, and the search in it that prepareShape does for every degree.    *)
(* A wheel is a waveform of TriggerShapes and useOnlyRisingEdgeForTrigger. *)
(***************************************************************************)
EXTENDS TriggerShapes

\* calculateTriggerSynchPoint: the angle of each index within the engine cycle.
\* With rising edges only, indexes go in twos, and an edge more than two cycles
\* after the first event is looked up past the end of the wheel, where no rise is.
calculateTriggerSynchPoint(s, zeroEvent) ==
    LET size    == Size(s)
        length  == CyclesPerEngineCycle(s) * size
        zero    == zeroEvent - 1
        getAngle(i) == (i \div size) * CYCLE + s.events[(i % size) + 1].angle
        coordinate(i) == (zero + i) % length
        angle(i) == (getAngle(coordinate(i)) - getAngle(zero)) % (CyclesPerEngineCycle(s) * CYCLE)
        isRiseEvent(i) == LET k == IF coordinate(i) >= size THEN coordinate(i) - size ELSE coordinate(i)
                          IN  k < size /\ s.events[k + 1].up
        rises == SelectSeq([i \in 1..length - 1 |-> i], isRiseEvent)
    IN  [i \in 0..length - 1 |->
            IF ~s.useOnlyRisingEdge THEN angle(i)
            ELSE IF i \div 2 \in DOMAIN rises THEN angle(rises[i \div 2]) ELSE 0]

\* Mutant: an angle between two events is given to the later one.
findAngleIndex_Later(s, target) ==
    LET last == CyclesPerEngineCycle(s) * Size(s) - 1
    IN  CHOOSE i \in 0..last : s.eventAngles[i] >= target \/ i = last

\* A pass of the loop of findAngleIndex.  When it finds the angle, left and right are left
\* so that the index returned is the one found.
searchPass(eventAngles, target, p) ==
    LET middle == (p.left + p.right) \div 2
    IN  IF p.left > p.right THEN p
        ELSE IF eventAngles[middle] < target THEN [left |-> middle + 1, right |-> p.right]
        ELSE IF eventAngles[middle] > target THEN [left |-> p.left, right |-> middle - 1]
        ELSE [left |-> middle + 1, right |-> middle]

\* A table has fewer than 2^SEARCH_PASSES angles (PWM_PHASE_MAX_COUNT).
SEARCH_PASSES == 9

\* The binary search of prepareShape: the index of the last event at or before an
\* angle.
findAngleIndex(s, target) ==
    LET last == CyclesPerEngineCycle(s) * Size(s) - 1
        search[k \in 0..SEARCH_PASSES] ==
            IF k = 0 THEN [left |-> 0, right |-> last]
            ELSE searchPass(s.eventAngles, target, search[k - 1])
    IN  search[SEARCH_PASSES].left - 1

DegreeUnits(s) == (CyclesPerEngineCycle(s) * CYCLE) \div (IF s.operationMode = "TWO_STROKE" THEN 360 ELSE 720)

\* In rising-only mode the angles come in pairs, of which the even one counts.
triggerIndexByAngle(s, degree) ==
    LET index == findAngleIndex(s, degree * DegreeUnits(s))
    IN  IF s.useOnlyRisingEdge THEN 2 * (index \div 2) ELSE index

\* prepareShape finds, for every degree of the engine cycle, the last event at or before it.
PositionsFound(s) ==
    \A degree \in 0..(CyclesPerEngineCycle(s) * CYCLE) \div DegreeUnits(s) - 1 :
        LET angle == degree * DegreeUnits(s)
            found == s.eventAngles[triggerIndexByAngle(s, degree)]
        IN  /\ found <= angle
            /\ \A i \in DOMAIN s.eventAngles :
                  s.eventAngles[i] <= angle => s.eventAngles[i] <= found
=============================================================================
