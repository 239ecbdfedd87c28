-------------------------- MODULE MapAveragingProofs --------------------------
(***************************************************************************)
(* Proofs about MapAveraging for every number of cylinders, every ring     *)
(* length and every set of samples.                                        *)
(***************************************************************************)
EXTENDS MapAveraging, WellFoundedInduction, SequenceTheorems, TLAPS

\* Only the sample of an interrupted ADC callback can be too early, and it is added once.
EarlyInv == early <= 1 /\ \A a \in adc : a.early => early = 0

\* The average of samples is a sample's value at most.
SampleInv ==
  /\ mapAdcAccumulator <= mapMeasurementsCounter * FLT_MAX
  /\ adc # {} => mapMeasurementsCounter < MaxSamples

\* Where the ring keeps the j-th latest result.
slot(j) == IF j <= averagedMapBufIdx THEN averagedMapBufIdx - j
                                     ELSE averagedMapBufIdx - j + mapMinBufferLength

\* The ring holds the latest results, and the largest value where there is none yet.
RingInv ==
  /\ Len(recent) <= mapMinBufferLength
  /\ \A j \in 1 .. Len(recent) : averagedMapRunningBuffer[slot(j)] = recent[j]
  /\ Len(recent) < mapMinBufferLength =>
       /\ averagedMapBufIdx = Len(recent)
       /\ \A i \in Len(recent) .. mapMinBufferLength - 1 : averagedMapRunningBuffer[i] = FLT_MAX

MapInv == TypeOK /\ EarlyInv /\ SampleInv /\ RingInv /\ MinimumOfLatest

-----------------------------------------------------------------------------
(* Minima *)

\* A set of natural numbers has a minimum, and Min is it.
LEMMA MinExists ==
  ASSUME NEW S, S \subseteq Nat, S # {}
  PROVE  Min(S) \in S /\ \A y \in S : Min(S) <= y
<1>1. \E x \in S : \A y \in S : ~(<<y, x>> \in OpToRel(<, Nat))
  BY NatLessThanWellFounded, WFMin
<1>2. PICK x \in S : \A y \in S : ~(<<y, x>> \in OpToRel(<, Nat))
  BY <1>1
<1>3. OpToRel(<, Nat) = {ss \in Nat \X Nat : ss[1] < ss[2]}
  BY Zenon DEF OpToRel
<1>4. ASSUME NEW y \in S PROVE x <= y
  <2>1. x \in Nat /\ y \in Nat
    OBVIOUS
  <2>2. y < x => <<y, x>> \in {ss \in Nat \X Nat : ss[1] < ss[2]}
    BY <2>1
  <2>3. ~(y < x)
    BY <1>2, <1>3, <2>2, Zenon
  <2> QED BY <2>1, <2>3
<1> QED
  BY <1>4 DEF Min

\* Two sets have the same minimum when one is part of the other and reaches as low.
LEMMA MinSame ==
  ASSUME NEW S, NEW T, S \subseteq Nat, T \subseteq S, T # {}, \A x \in S : \E t \in T : t <= x
  PROVE  Min(S) = Min(T)
<1>1. Min(S) \in S /\ \A y \in S : Min(S) <= y
  BY MinExists
<1>2. Min(T) \in T /\ \A y \in T : Min(T) <= y
  BY MinExists
<1>3. PICK m \in S : m = Min(S)
  BY <1>1
<1>4. PICK n \in T : n = Min(T)
  BY <1>2
<1>5. m \in Nat /\ n \in Nat
  OBVIOUS
<1>6. PICK t \in T : t <= m
  OBVIOUS
<1>7. n <= t /\ m <= n /\ t \in Nat
  BY <1>1, <1>2, <1>3, <1>4
<1> QED
  BY <1>3, <1>4, <1>5, <1>6, <1>7

\* The smaller of two numbers.
LEMMA MinOfTwo ==
  ASSUME NEW a \in Int, NEW b \in Int
  PROVE  Min({a, b}) = IF a <= b THEN a ELSE b
<1>1. \E x \in {a, b} : \A y \in {a, b} : x <= y
  OBVIOUS
<1>2. Min({a, b}) \in {a, b} /\ \A y \in {a, b} : Min({a, b}) <= y
  BY <1>1 DEF Min
<1> QED
  BY <1>2

\* The larger of two numbers.
LEMMA MaxOfTwo ==
  ASSUME NEW a \in Int, NEW b \in Int
  PROVE  Max({a, b}) = IF a <= b THEN b ELSE a
<1>1. \E x \in {a, b} : \A y \in {a, b} : x >= y
  OBVIOUS
<1>2. Max({a, b}) \in {a, b} /\ \A y \in {a, b} : Max({a, b}) >= y
  BY <1>1 DEF Max
<1> QED
  BY <1>2

\* Whatever is configured, the length applied is one the array has room for.
LEMMA AppliedInRange ==
  ASSUME NEW length \in Int PROVE applied(length) \in 1 .. MAX_MAP_BUFFER_LENGTH
<1>1. MAX_MAP_BUFFER_LENGTH \in Int /\ MAX_MAP_BUFFER_LENGTH >= 1
  BY MapAveragingAssumption
<1>2. Min({length, MAX_MAP_BUFFER_LENGTH}) = IF length <= MAX_MAP_BUFFER_LENGTH THEN length
                                             ELSE MAX_MAP_BUFFER_LENGTH
  BY <1>1, MinOfTwo
<1>3. PICK m \in Int : m = Min({length, MAX_MAP_BUFFER_LENGTH})
  BY <1>1, <1>2
<1>4. Max({m, 1}) = IF m <= 1 THEN 1 ELSE m
  BY MaxOfTwo
<1> QED
  BY <1>1, <1>2, <1>3, <1>4 DEF applied

\* The average of a window's samples is in their range.
LEMMA AverageInRange ==
  ASSUME NEW sum \in Nat, NEW n \in Nat, n > 0, sum <= n * FLT_MAX
  PROVE  sum \div n \in 0 .. FLT_MAX
<1> DEFINE q == sum \div n
<1>1. q \in Int /\ n * q <= sum /\ sum < n * q + n
  OBVIOUS
<1>2. FLT_MAX \in Nat
  BY DEF FLT_MAX
<1> HIDE DEF q
<1>3. q <= FLT_MAX
  <2>1. SUFFICES ASSUME q >= FLT_MAX + 1 PROVE FALSE
    BY <1>1, <1>2
  <2>2. n * q >= n * (FLT_MAX + 1)
    BY <1>1, <1>2, <2>1
  <2>3. n * (FLT_MAX + 1) = n * FLT_MAX + n
    BY <1>2
  <2>4. n * q \in Int /\ n * FLT_MAX \in Int
    BY <1>1, <1>2
  <2> QED BY <1>1, <2>2, <2>3, <2>4
<1>4. q >= 0
  <2>1. SUFFICES ASSUME q <= -1 PROVE FALSE
    BY <1>1
  <2>2. n * q <= n * (-1)
    BY <1>1, <2>1
  <2> QED BY <1>1, <2>2
<1> QED
  BY <1>1, <1>3, <1>4 DEF q

\* The next index of the ring.
LEMMA NextIndex ==
  ASSUME NEW n \in Nat, NEW i \in 0 .. n - 1
  PROVE  (i + 1) % n = IF i + 1 = n THEN 0 ELSE i + 1
  OBVIOUS

-----------------------------------------------------------------------------
(* The ring *)

\* The latest element in front of a sequence, cut to a length.
LEMMA LatestFirst ==
  ASSUME NEW S, NEW s \in Seq(S), NEW a \in S, NEW k \in 1 .. Len(s) + 1,
         NEW r, r = SubSeq(<<a>> \o s, 1, k)
  PROVE  /\ r \in Seq(S) /\ Len(r) = k
         /\ \A j \in 1 .. k : r[j] = IF j = 1 THEN a ELSE s[j - 1]
<1> DEFINE all == <<a>> \o s
<1>1. <<a>> \in Seq(S) /\ Len(<<a>>) = 1 /\ <<a>>[1] = a
  OBVIOUS
<1>2. all \in Seq(S) /\ Len(all) = 1 + Len(s)
  BY <1>1, ConcatProperties
<1>3. \A j \in 1 .. Len(s) + 1 : all[j] = IF j = 1 THEN a ELSE s[j - 1]
  BY <1>1, ConcatProperties
<1> HIDE DEF all
<1>4. SubSeq(all, 1, k) \in Seq(S) /\ Len(SubSeq(all, 1, k)) = k
      /\ \A j \in 1 .. k : SubSeq(all, 1, k)[j] = all[j]
  BY <1>2, SubSeqProperties
<1> QED
  BY <1>2, <1>3, <1>4 DEF all

\* Every slot of the ring that has been filled holds one of the latest results.
LEMMA SlotFound ==
  ASSUME NEW L \in Nat, NEW k \in 1 .. L, NEW b \in 0 .. L - 1, NEW i \in 0 .. L - 1,
         k < L => b = k /\ i < k
  PROVE  \E j \in 1 .. k : i = IF j <= b THEN b - j ELSE b - j + L
<1>1. CASE i < b
  <2>1. b - i \in 1 .. k /\ i = IF b - i <= b THEN b - (b - i) ELSE b - (b - i) + L
    BY <1>1
  <2> QED BY <2>1
<1>2. CASE ~(i < b)
  <2>1. b - i + L \in 1 .. k
    BY <1>2
  <2>2. i = IF b - i + L <= b THEN b - (b - i + L) ELSE b - (b - i + L) + L
    BY <1>2
  <2> QED BY <2>1, <2>2
<1> QED
  BY <1>1, <1>2

RingType ==
  /\ mapMinBufferLength \in 1 .. MAX_MAP_BUFFER_LENGTH
  /\ averagedMapBufIdx \in 0 .. mapMinBufferLength - 1
  /\ averagedMapRunningBuffer \in [0 .. MAX_MAP_BUFFER_LENGTH - 1 -> 0 .. FLT_MAX]
  /\ currentPressure \in 0 .. FLT_MAX \cup {NO_VALUE_YET}
  /\ recent \in Seq(0 .. FLT_MAX)

\* A result replaces the oldest one, or the first of the largest values, and the minimum of
\* the ring is that of the latest results.
LEMMA StoreEffect ==
  ASSUME RingType, RingInv, NEW average \in 0 .. FLT_MAX, store(average)
  PROVE  RingType' /\ RingInv' /\ MinimumOfLatest'
<1> DEFINE L == mapMinBufferLength
           n == Len(recent)
           idx == averagedMapBufIdx
           k == IF n + 1 <= L THEN n + 1 ELSE L
<1>t. /\ MAX_MAP_BUFFER_LENGTH \in Nat /\ L \in Nat /\ L >= 1 /\ L <= MAX_MAP_BUFFER_LENGTH
      /\ idx \in 0 .. L - 1 /\ idx \in Nat /\ n \in Nat /\ n <= L /\ FLT_MAX \in Nat /\ k \in 1 .. n + 1
      /\ k \in Nat /\ k <= L
  BY MapAveragingAssumption DEF RingType, RingInv, FLT_MAX
<1>1. averagedMapBufIdx' = IF idx + 1 = L THEN 0 ELSE idx + 1
  BY <1>t, NextIndex DEF store
<1>2. mapMinBufferLength' = L
  BY DEF store
<1>3. /\ recent' \in Seq(0 .. FLT_MAX) /\ Len(recent') = k
      /\ \A j \in 1 .. k : recent'[j] = IF j = 1 THEN average ELSE recent[j - 1]
  <2>1. recent' = SubSeq(<<average>> \o recent, 1, k)
    <3>1. Min({n + 1, L}) = k
      BY <1>t, MinOfTwo
    <3> QED BY <3>1 DEF store
  <2>2. recent \in Seq(0 .. FLT_MAX) /\ k \in 1 .. Len(recent) + 1
    BY <1>t DEF RingType
  <2> DEFINE X == 0 .. FLT_MAX
  <2>3. recent \in Seq(X) /\ average \in X
    BY <2>2
  <2> HIDE DEF X, k
  <2>4. /\ recent' \in Seq(X) /\ Len(recent') = k
        /\ \A j \in 1 .. k : recent'[j] = IF j = 1 THEN average ELSE recent[j - 1]
    BY <2>1, <2>2, <2>3, LatestFirst
  <2> QED BY <2>4 DEF X
<1>4. averagedMapRunningBuffer' = [averagedMapRunningBuffer EXCEPT ![idx] = average]
  BY DEF store
<1>5. /\ averagedMapRunningBuffer' \in [0 .. MAX_MAP_BUFFER_LENGTH - 1 -> 0 .. FLT_MAX]
      /\ averagedMapRunningBuffer'[idx] = average
      /\ \A i \in 0 .. L - 1 : i # idx => averagedMapRunningBuffer'[i] = averagedMapRunningBuffer[i]
  BY <1>t, <1>4 DEF RingType
<1>6. averagedMapBufIdx' \in 0 .. L - 1
  BY <1>t, <1>1
<1>r. /\ \A j \in 1 .. n : averagedMapRunningBuffer[slot(j)] = recent[j]
      /\ n < L => idx = n /\ \A i \in n .. L - 1 : averagedMapRunningBuffer[i] = FLT_MAX
  BY DEF RingInv
<1>7. ASSUME NEW j \in 1 .. k
      PROVE  slot(j)' \in 0 .. L - 1 /\ averagedMapRunningBuffer'[slot(j)'] = recent'[j]
  <2>1. slot(j)' = IF j <= averagedMapBufIdx' THEN averagedMapBufIdx' - j ELSE averagedMapBufIdx' - j + L
    BY <1>2 DEF slot
  <2>2. CASE j = 1
    <3>1. slot(j)' = idx
      BY <1>t, <1>1, <2>1, <2>2
    <3> QED BY <1>t, <1>3, <1>5, <2>2, <3>1
  <2>3. CASE j # 1
    <3>1. j - 1 \in 1 .. n /\ j - 1 < L /\ j \in Nat
      BY <1>t, <2>3
    <3>2. slot(j - 1) = IF j - 1 <= idx THEN idx - (j - 1) ELSE idx - (j - 1) + L
      BY DEF slot
    <3>3. slot(j)' = slot(j - 1) /\ slot(j)' \in 0 .. L - 1 /\ slot(j)' # idx
      BY <1>t, <1>1, <2>1, <3>1, <3>2
    <3>4. averagedMapRunningBuffer[slot(j - 1)] = recent[j - 1]
      BY <1>r, <3>1
    <3>5. recent'[j] = recent[j - 1]
      BY <1>3, <2>3
    <3> QED BY <1>5, <3>3, <3>4, <3>5
  <2> QED BY <2>2, <2>3
<1>8. ASSUME k < L
      PROVE  /\ averagedMapBufIdx' = k
             /\ \A i \in k .. L - 1 : averagedMapRunningBuffer'[i] = FLT_MAX
  <2>1. k = n + 1 /\ n < L /\ idx = n
    BY <1>t, <1>r, <1>8
  <2>2. averagedMapBufIdx' = k
    BY <1>t, <1>1, <1>8, <2>1
  <2>3. ASSUME NEW i \in k .. L - 1 PROVE averagedMapRunningBuffer'[i] = FLT_MAX
    <3>1. i \in n .. L - 1 /\ i \in 0 .. L - 1 /\ i # idx
      BY <1>t, <2>1
    <3> QED BY <1>5, <1>r, <2>1, <3>1
  <2> QED BY <2>2, <2>3
<1> HIDE DEF k, n
<1>9. RingInv'
  <2>1. \A j \in 1 .. Len(recent') : averagedMapRunningBuffer'[slot(j)'] = recent'[j]
    BY <1>3, <1>7
  <2> QED BY <1>t, <1>2, <1>3, <1>8, <2>1 DEF RingInv
<1>10. ASSUME NEW i \in 0 .. L - 1 PROVE \E j \in 1 .. k : recent'[j] <= averagedMapRunningBuffer'[i]
  <2>i. averagedMapRunningBuffer'[i] \in Nat /\ i \in Nat /\ i \in 0 .. MAX_MAP_BUFFER_LENGTH - 1
    BY <1>t, <1>5
  <2>1. CASE k < L /\ i >= k
    <3>1. averagedMapRunningBuffer'[i] = FLT_MAX
      BY <1>8, <2>1
    <3>2. 1 \in 1 .. k /\ recent'[1] <= FLT_MAX
      BY <1>t, <1>3
    <3> QED BY <3>1, <3>2
  <2>2. CASE ~(k < L /\ i >= k)
    <3>0. PICK b \in 0 .. L - 1 : b = averagedMapBufIdx'
      BY <1>6
    <3>1. k < L => b = k /\ i < k
      BY <1>t, <1>8, <2>i, <2>2, <3>0
    <3>2. k \in 1 .. L
      BY <1>t
    <3>3. PICK j \in 1 .. k : i = IF j <= b THEN b - j ELSE b - j + L
      BY <1>t, <3>1, <3>2, SlotFound
    <3>4. slot(j)' = i
      BY <1>2, <3>0, <3>3 DEF slot
    <3>5. recent'[j] = averagedMapRunningBuffer'[i]
      BY <1>7, <3>4
    <3> QED BY <2>i, <3>5
  <2> QED BY <2>1, <2>2
<1> DEFINE S == {averagedMapRunningBuffer'[i] : i \in 0 .. L - 1}
           T == {recent'[j] : j \in 1 .. k}
<1>11. currentPressure' = Min(S)
  BY <1>4 DEF store
<1>12. S \subseteq 0 .. FLT_MAX /\ S # {} /\ S \subseteq Nat
  BY <1>t, <1>5
<1>13. T \subseteq S /\ T # {}
  <2>1. \A j \in 1 .. k : recent'[j] \in S
    BY <1>7
  <2>2. recent'[1] \in T
    BY <1>t
  <2> QED BY <2>1, <2>2
<1>14. \A x \in S : \E t \in T : t <= x
  BY <1>10
<1>15. Min(S) = Min(T)
  <2> HIDE DEF S, T
  <2> QED BY <1>12, <1>13, <1>14, MinSame
<1>16. Min(S) \in S
  <2> HIDE DEF S
  <2> QED BY <1>12, MinExists
<1>17. MinimumOfLatest'
  BY <1>3, <1>11, <1>15 DEF MinimumOfLatest
<1>18. currentPressure' \in 0 .. FLT_MAX
  <2> HIDE DEF S
  <2> QED BY <1>11, <1>12, <1>16
<1> QED
  BY <1>2, <1>3, <1>5, <1>6, <1>9, <1>17, <1>18 DEF RingType

\* A new length empties the ring.
LEMMA ApplyEffect ==
  ASSUME RingType, RingInv, MinimumOfLatest, configLength \in Int, applyMapMinBufferLength
  PROVE  RingType' /\ RingInv' /\ MinimumOfLatest'
<1>1. CASE UNCHANGED ring
  BY <1>1 DEF ring, RingType, RingInv, MinimumOfLatest, slot
<1>2. CASE /\ mapMinBufferLength' = applied(configLength)
           /\ averagedMapBufIdx' = 0
           /\ averagedMapRunningBuffer' = cleared(applied(configLength))
           /\ recent' = <<>>
           /\ UNCHANGED currentPressure
  <2>1. PICK L \in 1 .. MAX_MAP_BUFFER_LENGTH : L = applied(configLength)
    BY AppliedInRange
  <2>2. MAX_MAP_BUFFER_LENGTH \in Nat /\ FLT_MAX \in 0 .. FLT_MAX
    BY MapAveragingAssumption DEF FLT_MAX
  <2>3. /\ averagedMapRunningBuffer' \in [0 .. MAX_MAP_BUFFER_LENGTH - 1 -> 0 .. FLT_MAX]
        /\ \A i \in 0 .. L - 1 : averagedMapRunningBuffer'[i] = FLT_MAX
    BY <1>2, <2>1, <2>2 DEF cleared, RingType
  <2>4. recent' \in Seq(0 .. FLT_MAX) /\ Len(recent') = 0
    BY <1>2
  <2>5. RingType'
    BY <1>2, <2>1, <2>2, <2>3, <2>4 DEF RingType
  <2>6. RingInv' /\ MinimumOfLatest'
    BY <1>2, <2>1, <2>2, <2>3, <2>4 DEF RingInv, MinimumOfLatest
  <2> QED BY <2>5, <2>6
<1> QED
  BY <1>1, <1>2 DEF applyMapMinBufferLength

-----------------------------------------------------------------------------
(* The steps *)

WindowType ==
  /\ isAveraging \in BOOLEAN
  /\ mapAdcAccumulator \in Nat /\ mapMeasurementsCounter \in 0 .. MaxSamples /\ early \in Nat
  /\ adc = {} \/ \E a \in [value : Samples, early : BOOLEAN] : adc = {a}

AngleType ==
  /\ {validRpm, mapAveragingDuration} \subseteq BOOLEAN
  /\ mapAveragingStart \in [Cylinder -> BOOLEAN]
  /\ configLength \in Lengths
  /\ refresh = {} \/ \E r \in [next : 0 .. cylindersCount, valid : BOOLEAN] : refresh = {r}

\* The type invariant, split by the variables that change together.
LEMMA TypeParts ==
  TypeOK <=> pending \subseteq Sched /\ WindowType /\ RingType /\ AngleType
  BY Zenon DEF TypeOK, WindowType, RingType, AngleType

WindowInv == WindowType /\ EarlyInv /\ SampleInv

\* The steps that open, fill and leave the window.
LEMMA OpenEffect ==
  ASSUME WindowInv, NEW i \in Cylinder, NEW k \in {0, 1}, startAveraging(i, k) PROVE WindowInv'
<1>1. /\ isAveraging' = TRUE /\ mapAdcAccumulator' = 0 /\ mapMeasurementsCounter' = 0 /\ early' = 0
      /\ adc' = {[a EXCEPT !.early = TRUE] : a \in adc}
  BY DEF startAveraging
<1>2. adc' = {} \/ \E a \in [value : Samples, early : BOOLEAN] : adc' = {a}
  <2>1. CASE adc = {}
    BY <1>1, <2>1
  <2>2. ASSUME NEW a \in [value : Samples, early : BOOLEAN], adc = {a}
        PROVE  \E b \in [value : Samples, early : BOOLEAN] : adc' = {b}
    <3>1. [a EXCEPT !.early = TRUE] \in [value : Samples, early : BOOLEAN]
      OBVIOUS
    <3>2. adc' = {[a EXCEPT !.early = TRUE]}
      BY <1>1, <2>2
    <3> QED BY <3>1, <3>2
  <2> QED BY <2>1, <2>2 DEF WindowInv, WindowType
<1>3. adc' # {} => adc # {}
  BY <1>1
<1>4. MaxSamples \in Nat /\ FLT_MAX \in Nat
  BY MapAveragingAssumption DEF FLT_MAX
<1>5. SampleInv' /\ EarlyInv'
  BY <1>1, <1>3, <1>4 DEF WindowInv, WindowType, SampleInv, EarlyInv
<1>6. WindowType'
  <2>1. mapMeasurementsCounter' \in 0 .. MaxSamples /\ mapAdcAccumulator' \in Nat /\ early' \in Nat
    BY <1>1, <1>4
  <2> QED BY <1>1, <1>2, <2>1, Zenon DEF WindowType
<1> QED
  BY <1>5, <1>6 DEF WindowInv

\* A sample that arrives waits for the ADC callback to add it.
LEMMA SampleEffect ==
  ASSUME WindowInv, NEW adcValue \in Samples, NEW chart \in BOOLEAN, mapAveragingAdcCallback(adcValue, chart)
  PROVE  WindowInv'
<1>1. /\ UNCHANGED <<isAveraging, mapAdcAccumulator, mapMeasurementsCounter, early>>
      /\ adc' = {[value |-> adcValue, early |-> FALSE]} /\ mapMeasurementsCounter < MaxSamples
  BY DEF mapAveragingAdcCallback
<1>2. [value |-> adcValue, early |-> FALSE] \in [value : Samples, early : BOOLEAN]
  OBVIOUS
<1>3. WindowType'
  BY <1>1, <1>2, Zenon DEF WindowInv, WindowType
<1>4. \A a \in adc' : ~a.early
  BY <1>1
<1>5. EarlyInv' /\ SampleInv'
  BY <1>1, <1>4 DEF WindowInv, EarlyInv, SampleInv
<1> QED
  BY <1>3, <1>5 DEF WindowInv

\* Adding a sample keeps the sum and the count those of the window.
LEMMA AddEffect ==
  ASSUME WindowInv, NEW a \in adc, addSample(a) PROVE WindowInv'
<1>1. /\ isAveraging' = isAveraging /\ adc = {a} /\ adc' = {}
      /\ mapAdcAccumulator' = mapAdcAccumulator + a.value
      /\ mapMeasurementsCounter' = mapMeasurementsCounter + 1
      /\ early' = IF a.early THEN early + 1 ELSE early
  BY DEF addSample
<1>2. a \in [value : Samples, early : BOOLEAN]
  BY <1>1 DEF WindowInv, WindowType
<1>v. a.value \in Samples
  BY <1>2
<1>w. a.value \in 0 .. FLT_MAX
  BY <1>v, MapAveragingAssumption, Zenon
<1>3. a.value \in 0 .. FLT_MAX /\ FLT_MAX \in Nat /\ MaxSamples \in Nat
  BY <1>w, MapAveragingAssumption DEF FLT_MAX
<1>4. /\ mapAdcAccumulator \in Nat /\ mapMeasurementsCounter \in Nat /\ early \in Nat
      /\ mapMeasurementsCounter < MaxSamples /\ mapAdcAccumulator <= mapMeasurementsCounter * FLT_MAX
      /\ early <= 1 /\ (a.early => early = 0)
  BY <1>1, <1>3 DEF WindowInv, WindowType, SampleInv, EarlyInv
<1>5. mapAdcAccumulator' <= mapMeasurementsCounter' * FLT_MAX
  <2>1. (mapMeasurementsCounter + 1) * FLT_MAX = mapMeasurementsCounter * FLT_MAX + FLT_MAX
    BY <1>3, <1>4
  <2> QED BY <1>1, <1>3, <1>4, <2>1
<1>6. mapMeasurementsCounter' \in 0 .. MaxSamples /\ mapAdcAccumulator' \in Nat /\ early' \in Nat /\ early' <= 1
  BY <1>1, <1>3, <1>4
<1>7. WindowType'
  BY <1>1, <1>6, Zenon DEF WindowInv, WindowType
<1>8. EarlyInv' /\ SampleInv'
  BY <1>1, <1>5, <1>6 DEF EarlyInv, SampleInv
<1> QED
  BY <1>7, <1>8 DEF WindowInv

\* The thread that computes the angles keeps their types.
LEMMA RefreshEffect ==
  ASSUME AngleType,
         \/ setValidRpm
         \/ \E length \in Lengths : setMapMinBufferLength(length)
         \/ refreshMapAveragingPreCalc
         \/ \E r \in refresh : refreshNext(r)
  PROVE  AngleType' /\ UNCHANGED <<pending, window, ring>>
<1>1. CASE setValidRpm
  BY <1>1, Zenon DEF setValidRpm, AngleType, angles
<1>2. ASSUME NEW length \in Lengths, setMapMinBufferLength(length)
      PROVE  AngleType' /\ UNCHANGED <<pending, window, ring>>
  BY <1>2, Zenon DEF setMapMinBufferLength, AngleType, angles
<1>3. CASE refreshMapAveragingPreCalc
  <2>1. [next |-> 0, valid |-> validRpm] \in [next : 0 .. cylindersCount, valid : BOOLEAN]
    BY MapAveragingAssumption DEF AngleType
  <2> QED BY <1>3, <2>1, Zenon DEF refreshMapAveragingPreCalc, AngleType
<1>4. ASSUME NEW r \in refresh, refreshNext(r) PROVE AngleType' /\ UNCHANGED <<pending, window, ring>>
  <2>1. r \in [next : 0 .. cylindersCount, valid : BOOLEAN]
    BY <1>4 DEF AngleType
  <2>2. CASE r.next < cylindersCount
    <3>1. [r EXCEPT !.next = @ + 1] \in [next : 0 .. cylindersCount, valid : BOOLEAN]
      BY <2>1, <2>2, MapAveragingAssumption
    <3>2. mapAveragingStart' \in [Cylinder -> BOOLEAN]
      <4>1. mapAveragingStart' = [mapAveragingStart EXCEPT ![r.next] = r.valid] /\ r.valid \in BOOLEAN
        BY <1>4, <2>1, <2>2 DEF refreshNext
      <4> QED BY <4>1, Zenon DEF AngleType
    <3>3. refresh' = {[r EXCEPT !.next = @ + 1]} /\ UNCHANGED <<mapAveragingDuration, validRpm, configLength>>
      BY <1>4, <2>2 DEF refreshNext
    <3> QED BY <1>4, <3>1, <3>2, <3>3, Zenon DEF refreshNext, AngleType
  <2>3. CASE ~(r.next < cylindersCount)
    <3>1. r.valid \in BOOLEAN
      BY <2>1
    <3> QED BY <1>4, <2>3, <3>1, Zenon DEF refreshNext, AngleType
  <2> QED BY <2>2, <2>3
<1> QED
  BY <1>1, <1>2, <1>3, <1>4

\* What a step that leaves a part of the state alone keeps of the invariant.
LEMMA PartsStay ==
  /\ WindowInv /\ UNCHANGED window => WindowInv'
  /\ RingType /\ RingInv /\ MinimumOfLatest /\ UNCHANGED ring => RingType' /\ RingInv' /\ MinimumOfLatest'
  /\ AngleType /\ UNCHANGED <<configLength, validRpm, angles>> => AngleType'
<1>1. WindowInv /\ UNCHANGED window => WindowInv'
  BY DEF window, WindowInv, WindowType, EarlyInv, SampleInv
<1>2. RingType /\ RingInv /\ MinimumOfLatest /\ UNCHANGED ring => RingType' /\ RingInv' /\ MinimumOfLatest'
  BY DEF ring, RingType, RingInv, MinimumOfLatest, slot
<1>3. AngleType /\ UNCHANGED <<configLength, validRpm, angles>> => AngleType'
  BY Zenon DEF angles, AngleType
<1> QED
  BY <1>1, <1>2, <1>3

\* Every step keeps the invariant.
LEMMA MapStep ==
  ASSUME MapInv, [Next]_vars PROVE MapInv'
<1>1. /\ pending \subseteq Sched /\ AngleType
      /\ WindowInv
      /\ RingType /\ RingInv /\ MinimumOfLatest
  BY TypeParts DEF MapInv, WindowInv
<1>2. SUFFICES /\ pending' \subseteq Sched /\ AngleType'
               /\ WindowInv'
               /\ RingType' /\ RingInv' /\ MinimumOfLatest'
  <2>1. TypeOK' <=> (pending \subseteq Sched /\ WindowType /\ RingType /\ AngleType)'
    BY Zenon DEF TypeOK, WindowType, RingType, AngleType
  <2> QED BY <1>2, <2>1 DEF MapInv, WindowInv
<1>3. CASE \/ setValidRpm
           \/ \E length \in Lengths : setMapMinBufferLength(length)
           \/ refreshMapAveragingPreCalc
           \/ \E r \in refresh : refreshNext(r)
  BY <1>1, <1>3, RefreshEffect, PartsStay
<1>4. ASSUME NEW k \in {0, 1}, NEW samplingCount \in {1, cylindersCount},
             mapAveragingTriggerCallback(k, samplingCount)
      PROVE  /\ pending' \subseteq Sched /\ AngleType'
             /\ WindowInv'
             /\ RingType' /\ RingInv' /\ MinimumOfLatest'
  <2>1. /\ UNCHANGED <<window, configLength, validRpm, angles>> /\ applyMapMinBufferLength
        /\ pending' = pending \cup {StartTimer(i, k) : i \in Prepared(samplingCount)}
    BY <1>4 DEF mapAveragingTriggerCallback, scheduleByAngle
  <2>2. configLength \in Int
    BY <1>1, MapAveragingAssumption DEF AngleType
  <2>3. Prepared(samplingCount) \subseteq Cylinder
    BY MapAveragingAssumption DEF Prepared, Cylinder
  <2>4. pending' \subseteq Sched
    BY <1>1, <2>1, <2>3 DEF Sched
  <2> QED BY <1>1, <2>1, <2>2, <2>4, ApplyEffect, PartsStay
<1>5. ASSUME NEW adcValue \in Samples, NEW chart \in BOOLEAN, mapAveragingAdcCallback(adcValue, chart)
      PROVE  /\ pending' \subseteq Sched /\ AngleType'
             /\ WindowInv'
             /\ RingType' /\ RingInv' /\ MinimumOfLatest'
  <2>1. UNCHANGED <<pending, ring, configLength, validRpm, angles>>
    BY <1>5 DEF mapAveragingAdcCallback
  <2> QED BY <1>1, <1>5, <2>1, SampleEffect, PartsStay
<1>6. ASSUME NEW a \in adc, addSample(a)
      PROVE  /\ pending' \subseteq Sched /\ AngleType'
             /\ WindowInv'
             /\ RingType' /\ RingInv' /\ MinimumOfLatest'
  <2>1. UNCHANGED <<pending, ring, configLength, validRpm, angles>>
    BY <1>6 DEF addSample
  <2> QED BY <1>1, <1>6, <2>1, AddEffect, PartsStay
<1>7. ASSUME NEW i \in Cylinder, NEW k \in {0, 1}, startAveraging(i, k)
      PROVE  /\ pending' \subseteq Sched /\ AngleType'
             /\ WindowInv'
             /\ RingType' /\ RingInv' /\ MinimumOfLatest'
  <2>1. /\ UNCHANGED <<ring, configLength, validRpm, angles>>
        /\ pending' = (pending \ {StartTimer(i, k)}) \cup {EndTimer(i, k)}
    BY <1>7 DEF startAveraging, scheduleByAngle
  <2>2. pending' \subseteq Sched
    BY <1>1, <2>1 DEF Sched
  <2> QED BY <1>1, <1>7, <2>1, <2>2, OpenEffect, PartsStay
<1>8. ASSUME NEW i \in Cylinder, NEW k \in {0, 1}, endAveraging(i, k)
      PROVE  /\ pending' \subseteq Sched /\ AngleType'
             /\ WindowInv'
             /\ RingType' /\ RingInv' /\ MinimumOfLatest'
  <2>1. /\ UNCHANGED <<mapAdcAccumulator, mapMeasurementsCounter, adc, early, configLength, validRpm, angles>>
        /\ pending' = pending \ {EndTimer(i, k)} /\ isAveraging' = FALSE
        /\ IF mapMeasurementsCounter > 0
           THEN store(mapAdcAccumulator \div mapMeasurementsCounter) ELSE UNCHANGED ring
    BY <1>8 DEF endAveraging
  <2>2. WindowInv'
    <3>1. WindowType'
      BY <1>1, <2>1, Zenon DEF WindowInv, WindowType
    <3> QED BY <1>1, <2>1, <3>1 DEF WindowInv, EarlyInv, SampleInv
  <2>3. pending' \subseteq Sched /\ AngleType'
    BY <1>1, <2>1, PartsStay
  <2>4. RingType' /\ RingInv' /\ MinimumOfLatest'
    <3>1. CASE mapMeasurementsCounter > 0
      <4>1. mapAdcAccumulator \div mapMeasurementsCounter \in 0 .. FLT_MAX
        BY <1>1, <3>1, AverageInRange DEF WindowInv, WindowType, SampleInv
      <4> QED BY <1>1, <2>1, <3>1, <4>1, StoreEffect
    <3>2. CASE ~(mapMeasurementsCounter > 0)
      BY <1>1, <2>1, <3>2, PartsStay
    <3> QED BY <3>1, <3>2
  <2> QED BY <2>2, <2>3, <2>4
<1>9. CASE UNCHANGED vars
  BY <1>1, <1>9, PartsStay DEF vars
<1> QED
  BY <1>3, <1>4, <1>5, <1>6, <1>7, <1>8, <1>9 DEF Next, TimerStep

\* The invariant holds at the start, with the length the configuration gives.
LEMMA MapInit == Init => MapInv
<1> SUFFICES ASSUME Init PROVE MapInv
  OBVIOUS
<1> USE DEF Init
<1>1. MAX_MAP_BUFFER_LENGTH \in Nat /\ FLT_MAX \in Nat /\ MaxSamples \in Nat /\ configLength \in Int
  BY MapAveragingAssumption DEF FLT_MAX
<1>2. mapMinBufferLength \in 1 .. MAX_MAP_BUFFER_LENGTH
  BY <1>1, AppliedInRange
<1>3. averagedMapRunningBuffer \in [0 .. MAX_MAP_BUFFER_LENGTH - 1 -> 0 .. FLT_MAX]
  BY <1>1, <1>2
<1>4. recent \in Seq(0 .. FLT_MAX) /\ Len(recent) = 0
  OBVIOUS
<1>5. RingType
  BY <1>1, <1>2, <1>3, <1>4 DEF RingType
<1>6. RingInv /\ MinimumOfLatest
  BY <1>1, <1>2, <1>4 DEF RingInv, MinimumOfLatest
<1>7. EarlyInv /\ SampleInv
  BY <1>1 DEF EarlyInv, SampleInv
<1>8. WindowType
  <2>1. mapAdcAccumulator \in Nat /\ mapMeasurementsCounter \in 0 .. MaxSamples /\ early \in Nat
    BY <1>1
  <2> QED BY <2>1, Zenon DEF WindowType
<1>9. AngleType
  BY Zenon DEF AngleType
<1>10. TypeOK
  BY <1>5, <1>8, <1>9, TypeParts
<1> QED
  BY <1>6, <1>7, <1>10 DEF MapInv

\* The index and the length of the ring stay within the array for every length configured
\* at any time.
THEOREM TypeCorrect == Spec => []TypeOK
<1>1. MapInv /\ [Next]_vars => MapInv'
  BY MapStep
<1>2. MapInv => TypeOK
  BY DEF MapInv
<1> QED
  BY <1>1, <1>2, MapInit, PTL DEF Spec

\* No average holds more than one sample read before its window opened, however windows,
\* trigger events and ADC callbacks interrupt each other.
THEOREM AveragesOfOneWindow == Spec => []SamplesOfWindow
<1>1. MapInv /\ [Next]_vars => MapInv'
  BY MapStep
<1>2. MapInv => SamplesOfWindow
  BY DEF MapInv, EarlyInv, SamplesOfWindow
<1> QED
  BY <1>1, <1>2, MapInit, PTL DEF Spec

\* The pressure is the minimum of the latest results, for every length of the ring and
\* across every change of it.
THEOREM PressureIsMinimum == Spec => []MinimumOfLatest
<1>1. MapInv /\ [Next]_vars => MapInv'
  BY MapStep
<1>2. MapInv => MinimumOfLatest
  BY DEF MapInv
<1> QED
  BY <1>1, <1>2, MapInit, PTL DEF Spec
=============================================================================
