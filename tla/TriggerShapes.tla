---------------------------- MODULE TriggerShapes ----------------------------
(***************************************************************************)
(* The trigger wheels this firmware knows: TriggerWaveform and the shape    *)
(* definitions of controllers/trigger/decoders.  An event is an edge of one *)
(* of three channels at an angle; angles are tenths of a degree of a cycle  *)
(* stretched to 720 degrees (addEvent and its callers normalize them so),   *)
(* gap ratios are thousandths.                                              *)
(***************************************************************************)
EXTENDS Integers, Sequences

CONSTANTS
    customTotalToothCount,    \* the wheel of TT_TOOTHED_WHEEL
    customSkippedToothCount

ASSUME ToothedWheelAssumption ==
    /\ customSkippedToothCount \in Nat
    /\ customTotalToothCount \in Nat /\ customTotalToothCount > customSkippedToothCount

CYCLE == 7200                       \* the whole trigger cycle
GAP_TRACKING_LENGTH == 4
PWM_PHASE_MAX_COUNT == 280
NaNGap == <<>>                      \* "NaN means do not use this gap ratio"

T_PRIMARY == 0
T_SECONDARY == 1
T_CHANNEL_3 == 2
T_NONE == 15
Wheels == T_PRIMARY..T_CHANNEL_3

Edge(angle, wheel, up) == [angle |-> angle, wheel |-> wheel, up |-> up]
R1(a) == Edge(a, T_PRIMARY, TRUE)
F1(a) == Edge(a, T_PRIMARY, FALSE)
R2(a) == Edge(a, T_SECONDARY, TRUE)
F2(a) == Edge(a, T_SECONDARY, FALSE)

\* Alternating edges of one channel, the first one a rise or a fall.
Rising(wheel, angles)  == [i \in DOMAIN angles |-> Edge(angles[i], wheel, i % 2 = 1)]
Falling(wheel, angles) == [i \in DOMAIN angles |-> Edge(angles[i], wheel, i % 2 = 0)]

\* n teeth: tooth i rises at up(i) and falls at down(i), i counted from 0.
TeethAt(n, wheel, up(_), down(_)) ==
    [k \in 1..2 * n |-> IF k % 2 = 1 THEN Edge(up((k - 1) \div 2), wheel, TRUE)
                                     ELSE Edge(down((k - 1) \div 2), wheel, FALSE)]

----------------------------------------------------------------------------
(* TriggerWaveform                                                          *)

Gap(ratio) == <<(ratio * 3) \div 4, (ratio * 5) \div 4>>

initialize(mode) ==
    [operationMode |-> mode, isSynchronizationNeeded |-> TRUE, bothFrontsRequired |-> FALSE,
     shapeWithoutTdc |-> FALSE, useOnlyPrimaryForSync |-> FALSE, useRiseEdge |-> TRUE,
     gapBothDirections |-> FALSE, gaps |-> <<Gap(2000), NaNGap, NaNGap, NaNGap>>,
     initialState |-> [w \in Wheels |-> FALSE], events |-> <<>>]

\* A wheel with a single tooth on its primary channel is decoded by counting.
withoutSync(s) == [s EXCEPT !.isSynchronizationNeeded = FALSE]
onlyPrimary(s) == [s EXCEPT !.useOnlyPrimaryForSync = TRUE]

Size(s) == Len(s.events)

\* getLength / getSize: trigger cycles in an engine cycle.
CyclesPerEngineCycle(s) ==
    CASE s.operationMode = "THREE_TIMES_CRANK" -> 6
      [] s.operationMode = "SYMMETRICAL_CRANK" -> 4
      [] s.operationMode = "CRANK" -> 2
      [] OTHER -> 1

addEventClamped(events, left, right) ==
    SelectSeq(events, LAMBDA e : e.angle > left /\ e.angle < right)

\* widthPct is the width of a tooth in percent of its pitch; the last tooth ends
\* with the cycle, however many are skipped.
addSkippedToothTriggerEvents(wheel, total, skipped, widthPct, offset, cycle, left, right) ==
    LET up(i)   == offset + (cycle * (100 * i + 100 - widthPct)) \div (100 * total)
        down(i) == IF i = total - skipped - 1 THEN offset + cycle
                                              ELSE offset + (cycle * (i + 1)) \div total
    IN  addEventClamped(TeethAt(total - skipped, wheel, up, down), left, right)

initializeSkippedToothTriggerWaveformExt(total, skipped, mode) ==
    [initialize(mode) EXCEPT
        !.gaps[1] = Gap(1000 * (skipped + 1)),
        !.shapeWithoutTdc = total > 1 /\ skipped = 0,
        !.isSynchronizationNeeded = total > 2 /\ skipped # 0,
        !.events = addSkippedToothTriggerEvents(T_PRIMARY, total, skipped, 50, 0, CYCLE, -10, 10000)]

\* What expectedEventCount holds once all events are added.
expectedEventCount(s, onlyRising) ==
    [w \in Wheels |-> Len(SelectSeq(s.events, LAMBDA e : e.wheel = w /\ (e.up \/ ~onlyRising)))]

\* The errors of addEvent, calculateExpectedEventCounts, checkSwitchTimes and
\* the length check of calculateTriggerSynchPoint.
DefinitionError(s, onlyRising) ==
    \/ \E i \in 1..Size(s) - 1 : s.events[i].angle >= s.events[i + 1].angle
    \/ s.events[1].angle <= 0
    \/ s.events[Size(s)].angle # CYCLE
    \/ /\ ~s.shapeWithoutTdc
       /\ s.isSynchronizationNeeded =
            (expectedEventCount(s, onlyRising)[T_PRIMARY] = IF onlyRising THEN 1 ELSE 2)
    \/ CyclesPerEngineCycle(s) * Size(s) >= PWM_PHASE_MAX_COUNT
    \/ s.bothFrontsRequired /\ onlyRising

----------------------------------------------------------------------------
(* decoders/trigger_universal.cpp, trigger_vw.cpp, trigger_misc.cpp         *)

configureOnePlusOne ==
    [onlyPrimary(withoutSync(initialize("CAM"))) EXCEPT
        !.events = <<R1(1800), F1(3600), R2(5400), F2(7200)>>]

configureOnePlus60_2 ==
    [onlyPrimary(withoutSync(initialize("CAM"))) EXCEPT
        !.events = <<R1(20)>> \o addSkippedToothTriggerEvents(T_SECONDARY, 60, 2, 50, 0, 3600, 20, 200)
                   \o <<F1(200)>> \o addSkippedToothTriggerEvents(T_SECONDARY, 60, 2, 50, 0, 3600, 200, 10000)
                   \o addSkippedToothTriggerEvents(T_SECONDARY, 60, 2, 50, 3600, 3600, -10, 10000)]

configure3_1_cam ==
    [withoutSync(initialize("CAM")) EXCEPT
        !.events = <<R1(100), F1(500)>> \o
                   Rising(T_SECONDARY, <<1800, 2400, 3000, 3600, 5400, 6000, 6600, 7200>>)]

configureQuickStartSenderWheel ==
    [initialize("CAM") EXCEPT
        !.useRiseEdge = FALSE, !.gaps[1] = <<2000, 3000>>,
        !.events = Rising(T_PRIMARY, <<400, 1800, 2200, 2600, 4000, 4400, 5800, 7200>>)]

setVwConfiguration ==
    [initialize("CRANK") EXCEPT
        !.gaps[1] = <<1600, 4000>>,
        !.events = addSkippedToothTriggerEvents(T_PRIMARY, 60, 2, 50, 0, CYCLE, -10, 6900)
                   \o <<R1(7020), F1(7200)>>]

configureFiatIAQ_P8 ==
    [initialize("CAM") EXCEPT
        !.gaps[1] = Gap(3000), !.events = Rising(T_PRIMARY, <<600, 1800, 2400, 7200>>)]

(* decoders/trigger_mazda.cpp                                               *)

initializeMazdaMiataNaShape ==
    [onlyPrimary(initialize("CAM")) EXCEPT
        !.gaps[1] = <<896, 1941>>, !.useRiseEdge = FALSE, !.bothFrontsRequired = TRUE,
        !.events = <<R2(530), F2(1226), R1(2169), R2(2326), F1(2888), F2(3026), R2(4124), F2(4828),
                     R1(5770), R2(5929), F2(6629), F1(7200)>>]

initialize_Mazda_Engine_z5_Shape ==
    [initialize("CAM") EXCEPT
        !.useRiseEdge = FALSE, !.gaps[1] = Gap(700),
        !.events = Falling(T_PRIMARY, <<600, 1800, 2400, 3600, 4200, 5400, 6180, 7200>>)]

initializeMazdaMiataNb2Crank ==
    [initialize("SYMMETRICAL_CRANK") EXCEPT
        !.gaps[1] = <<350, 980>>, !.events = Falling(T_PRIMARY, <<3840, 4000, 7040, 7200>>)]

initializeMazdaMiataNb1ShapeWithOffset(offset) ==
    LET crank(angles) == Rising(T_SECONDARY, [i \in DOMAIN angles |-> angles[i] + offset])
    IN  [onlyPrimary(initialize("CAM")) EXCEPT
            !.gaps[1] = <<65, 170>>, !.useRiseEdge = FALSE, !.bothFrontsRequired = TRUE,
            !.events = <<F1(200)>> \o crank(<<660, 700, 1360, 1400, 2460, 2500, 3160, 3200>>)
                       \o <<R1(3400), F1(3600), R1(3800), F1(4000)>>
                       \o crank(<<4260, 4300, 4960, 5000, 6060, 6100, 6760, 6800>>) \o <<R1(7200)>>]

configureMazdaProtegeSOHC ==
    [withoutSync(initialize("CAM")) EXCEPT
        !.bothFrontsRequired = TRUE, !.shapeWithoutTdc = TRUE,
        !.events = Rising(T_PRIMARY, <<1130, 1800, 2930, 3600, 4730, 5400, 6530, 7200>>)]

configureMazdaProtegeLx ==
    [onlyPrimary(withoutSync(initialize("CAM"))) EXCEPT
        !.events = <<R1(953), R2(1102), F2(1780), F1(2324), R2(2877), F2(3569), R2(4684), F2(5388),
                     R2(6507), F2(7200)>>]

initializeMazdaMiataVVtCamShape ==
    [initialize("CAM") EXCEPT
        !.gaps[1] = <<6375, 14000>>,
        !.events = Falling(T_PRIMARY, <<3250, 3600, 6410, 6770, 7000, 7200>>)]

(* decoders/trigger_nissan.cpp, trigger_gm.cpp, trigger_rover.cpp,          *)
(* trigger_renix.cpp, trigger_mitsubishi.cpp                                *)

initializeNissanSR20VE_4_optional_360(with2nd) ==
    LET slots(left, right) ==
            IF with2nd THEN addSkippedToothTriggerEvents(T_SECONDARY, 360, 0, 50, 0, CYCLE, left, right)
                       ELSE <<>>
    IN  [onlyPrimary(initialize("CAM")) EXCEPT
            !.gapBothDirections = TRUE, !.gaps[1] = <<7252, 16000>>,
            !.events = slots(0, 1640) \o <<R1(1640)>> \o slots(1640, 1800) \o <<F1(1800)>>
                       \o Rising(T_PRIMARY, <<3560, 3600, 5360, 5400, 7160, 7200>>)]

configureGmTriggerWaveform ==
    [initialize("CRANK") EXCEPT
        !.gaps[1] = Gap(6000),
        !.events = Rising(T_PRIMARY, <<1100, 1200, 2300, 2400, 3500, 3600, 4700, 4800, 5900, 6000,
                                       6900, 7000, 7100, 7200>>)]

\* 0 is a long window before the tooth, 1 a short one: the bits of 0x0A33BE,
\* least significant first.
LS24Code == <<0, 1, 1, 1, 1, 1, 0, 1, 1, 1, 0, 0, 1, 1, 0, 0, 0, 1, 0, 1, 0, 0, 0, 0>>

initGmLS24 ==
    LET up(i)   == 300 * i + IF LS24Code[i + 1] = 1 THEN 100 ELSE 200
        down(i) == 300 * (i + 1)
    IN  [onlyPrimary(initialize("CRANK")) EXCEPT
            !.gaps = <<Gap(2000), Gap(500), Gap(2000), NaNGap>>,
            !.events = TeethAt(24, T_PRIMARY, up, down)]

initializeRoverK ==
    LET block(n, base) == LET up(i) == base + 200 * i + 100
                              down(i) == base + 200 * i + 200
                          IN  TeethAt(n, T_PRIMARY, up, down)
    IN  [initialize("CRANK") EXCEPT
            !.gaps = <<Gap(2000), NaNGap, Gap(2000), NaNGap>>,
            !.events = block(2, 0) \o block(2, 600) \o block(14, 1200) \o block(3, 4200) \o block(11, 5000)]

commonRenix(mode) ==
    LET tooth(i) == (CYCLE * (2 * i + 1)) \div 44
        gap(i)   == (CYCLE * (i + 1)) \div 22
    IN  [initialize(mode) EXCEPT
            !.events = TeethAt(20, T_PRIMARY, tooth, gap) \o <<R1((CYCLE * 21) \div 22), F1(CYCLE)>>]

configureFordAspireTriggerWaveform ==
    [onlyPrimary(withoutSync(initialize("CAM"))) EXCEPT
        !.events = <<R2(528), F2(1219), R2(2328), F2(3019), R1(3600), R2(4128), F2(4819), R2(5928),
                     F2(6619), F1(7200)>>]

initializeMitsubishi4g18 ==
    [onlyPrimary(initialize("CAM")) EXCEPT
        !.useRiseEdge = FALSE, !.gaps[1] = Gap(1667),
        !.events = <<F1(1068), R2(1201), F2(1881), R1(2863), R2(2989), F1(3549), F2(3667), R2(4765),
                     F2(5440), R1(6395), R2(6532), F2(7200)>>]

(* decoders/trigger_chrysler.cpp                                            *)

initDodgeRam ==
    [onlyPrimary(withoutSync(initialize("CAM"))) EXCEPT
        !.events = addSkippedToothTriggerEvents(T_SECONDARY, 8, 0, 6, -250, 3600, 0, 7200) \o <<R1(3600)>>
                   \o addSkippedToothTriggerEvents(T_SECONDARY, 8, 0, 6, 3350, 3600, 0, 7200) \o <<F1(7200)>>]

\* useOnlyPrimary is always true in the source: the 64 secondary teeth are not used.
configureNeon2003TriggerWaveformCam ==
    [onlyPrimary(initialize("CAM")) EXCEPT
        !.gaps = <<<<750, 1500>>, <<650, 1250>>, NaNGap, NaNGap>>,
        !.events = Rising(T_PRIMARY, <<1440, 1800, 2160, 2520, 2880, 3240, 3600, 5040, 5400, 5760, 6120,
                                       6480, 6840, 7200>>)]

configureDodgeStratusTriggerWaveform ==
    LET group(n, base) == LET up(i) == base + 1130 + 200 * i
                              down(i) == base + 1200 + 200 * i
                          IN  TeethAt(n, T_PRIMARY, up, down)
    IN  [initialize("CAM") EXCEPT
            !.gaps[1] = <<1250, 1900>>,
            !.events = group(2, 0) \o group(3, 1200) \o group(2, 2400) \o group(1, 3600)
                       \o group(3, 4800) \o group(1, 6000)]

configureNeon1995TriggerWaveformCommon(withCam) ==
    LET crank == IF withCam THEN T_SECONDARY ELSE T_PRIMARY
        base  == IF withCam THEN 1600 ELSE 2250
        m     == IF withCam THEN 1 ELSE 2
        teeth(angles) == Rising(crank, [i \in DOMAIN angles |-> m * (base + angles[i])])
        first  == teeth(<<-1200, -1160, -1040, -1000, -770, -720, -490, -440>>)
        second == teeth(<<200, 600, 750, 790, 1010, 1060, 1300, 1350>>)
        rest   == teeth(<<2360, 2390, 2500, 2550, 2770, 2820, 3050, 3100>>)
        last   == teeth(<<3740, 4180, 4360, 4410, 4630, 4680, 4920, 4970>>)
    IN  IF withCam
        THEN first \o <<F1(base)>> \o second \o <<R1(base + 2000)>> \o rest \o <<last[1], F1(base + 3950)>>
             \o Tail(last) \o <<R1(base + 5600)>>
        ELSE first \o second

configureNeon1995TriggerWaveformOnlyCrank ==
    [initialize("CRANK") EXCEPT
        !.gaps[1] = Gap(3790), !.events = configureNeon1995TriggerWaveformCommon(FALSE)]

configureNeon1995TriggerWaveform ==
    [onlyPrimary(initialize("CAM")) EXCEPT
        !.gaps[1] = Gap(823), !.useRiseEdge = FALSE, !.initialState[T_PRIMARY] = TRUE,
        !.events = configureNeon1995TriggerWaveformCommon(TRUE)]

\* Four narrow teeth 20 degrees apart, as both Jeep wheels have them.
fourTeeth(start) == LET up(i)   == start + 200 * i
                        down(i) == start + 200 * i + 20
                    IN  TeethAt(4, T_SECONDARY, up, down)

initJeep18_2_2_2 ==
    [withoutSync(initialize("CAM")) EXCEPT
        !.events = fourTeeth(260) \o fourTeeth(1460) \o fourTeeth(2660) \o <<R1(3600)>>
                   \o fourTeeth(3860) \o fourTeeth(5060) \o fourTeeth(6260) \o <<F1(7200)>>]

initJeep_XJ_4cyl_2500 ==
    [withoutSync(initialize("CAM")) EXCEPT
        !.events = fourTeeth(580) \o fourTeeth(2380) \o <<R1(3600)>>
                   \o fourTeeth(4180) \o fourTeeth(5980) \o <<F1(7200)>>]

(* decoders/trigger_honda.cpp                                               *)

\* n pairs of addAccordPair, the first of them number k of the wheel.
accordPairs(k, n, start) == LET up(i)   == start + 300 * (k + i)
                                down(i) == start + 300 * (k + i) + 150
                            IN  TeethAt(n, T_SECONDARY, up, down)

configureHonda_1_4_24(oneEventWave, fourEventWave, prefix) ==
    LET pairs(k, n) == accordPairs(k, n, 50 + prefix)
        one(angle, up) == IF oneEventWave # T_NONE THEN <<Edge(angle + prefix, oneEventWave, up)>> ELSE <<>>
        four(i, up) == IF fourEventWave # T_NONE
                       THEN <<Edge(1800 * i + prefix - (IF up THEN 334 ELSE 0), fourEventWave, up)>>
                       ELSE <<>>
    IN  [onlyPrimary(withoutSync(initialize("CAM"))) EXCEPT
            !.shapeWithoutTdc = fourEventWave # T_NONE,
            !.events = pairs(0, 1) \o one(275, TRUE) \o pairs(1, 2) \o one(875, FALSE) \o pairs(3, 2)
                       \o four(1, TRUE) \o pairs(5, 1) \o four(1, FALSE) \o pairs(6, 5)
                       \o four(2, TRUE) \o pairs(11, 1) \o four(2, FALSE) \o pairs(12, 5)
                       \o four(3, TRUE) \o pairs(17, 1) \o four(3, FALSE) \o pairs(18, 5)
                       \o four(4, TRUE) \o pairs(23, 1) \o four(4, FALSE)]

configureHondaAccordCDDip ==
    LET dips(start) == LET up(i)   == start + 300 * i + 75
                           down(i) == start + 300 * i + 150
                       IN  TeethAt(3, T_CHANNEL_3, up, down)
    IN  [onlyPrimary(withoutSync(initialize("CAM"))) EXCEPT
            !.initialState[T_SECONDARY] = TRUE,
            !.events = dips(0) \o <<F2(900)>> \o dips(900) \o <<R2(1800)>> \o dips(1800) \o <<F2(2700)>>
                       \o dips(2700) \o <<R1(3525), R2(3600)>> \o dips(3600) \o <<F2(4500)>>
                       \o dips(4500) \o <<R2(5400)>> \o dips(5400) \o <<F2(6300)>> \o dips(6300)
                       \o <<F1(7125), R2(7200)>>]

configureHondaCbr600 ==
    LET cam(left, right) == addSkippedToothTriggerEvents(T_SECONDARY, 24, 0, 50, 0, CYCLE, left, right)
    IN  [onlyPrimary(initialize("CAM")) EXCEPT
            !.gaps[1] = Gap(6000),
            !.events = cam(0, 3490) \o <<F1(3500), R1(3600), F2(3602)>> \o cam(3610, 6490)
                       \o <<F1(6500), R1(6600), F2(6602)>> \o cam(6610, 7090)
                       \o <<F1(7100), F2(7190), R1(7200)>>]

configureHondaCbr600custom ==
    [onlyPrimary(initialize("CAM")) EXCEPT
        !.gaps[1] = <<700, 1100>>,
        !.events = <<R2(150), F2(290), R2(450), F1(524), F2(590)>> \o accordPairs(2, 10, 150)
                   \o <<R2(3750), R1(3813), F2(3890), R2(4050), F2(4200), R2(4350), F1(4491), F2(4500)>>
                   \o accordPairs(15, 8, 150) \o <<R2(7050), F2(7190), R1(7200)>>]

configureHondaAccordShifted ==
    [onlyPrimary(withoutSync(initialize("CAM"))) EXCEPT
        !.events = <<R2(150), R1(151), F2(300), F1(370)>> \o accordPairs(1, 23, 150)]

configureHondaK_12_1 ==
    LET up(i)   == 600 * (i + 1) - 80
        down(i) == 600 * (i + 1)
    IN  [initialize("CRANK") EXCEPT
            !.gaps[1] = Gap(3000), !.events = <<R1(320), F1(400)>> \o TeethAt(12, T_PRIMARY, up, down)]

(* decoders/trigger_subaru.cpp, trigger_toyota.cpp, trigger_bmw.cpp         *)

initialize36_2_2_2 ==
    LET narrow(n, base) == LET up(i)   == base + 200 * i + 100
                               down(i) == base + 200 * i + 200
                           IN  TeethAt(n, T_PRIMARY, up, down)
    IN  [onlyPrimary(initialize("CAM")) EXCEPT
            !.gaps = <<Gap(500), Gap(1000), NaNGap, NaNGap>>,
            !.events = narrow(12, 0) \o <<R1(2700), F1(3000)>> \o narrow(15, 3000)
                       \o <<R1(6300), F1(6600), R1(6900), F1(7200)>>]

initializeSubaru7_6 ==
    LET cam(a)   == <<R1(a - 50), F1(a)>>
        crank(a) == <<R2(a - 920), F2(a - 870), R2(a - 600), F2(a - 550), R2(a - 50), F2(a)>>
    IN  [onlyPrimary(initialize("CAM")) EXCEPT
            !.gaps = <<<<4900, 9000>>, <<600, 1250>>, NaNGap, NaNGap>>,
            !.events = cam(250) \o crank(1530) \o cam(1820) \o crank(3330) \o cam(3430) \o cam(3660)
                       \o cam(3840) \o crank(5130) \o cam(5380) \o crank(6930) \o cam(7200)]

initialize2jzGE1_12 ==
    LET up(i)   == 850 + 300 * i
        down(i) == 1000 + 300 * i
    IN  [withoutSync(initialize("CAM")) EXCEPT
            !.events = Falling(T_SECONDARY, <<100, 250, 400, 550, 700>>) \o <<F1(750)>>
                       \o TeethAt(21, T_SECONDARY, up, down) \o <<R2(7150), R1(7200)>>]

\* Angles in halves of w = 360 / 121 degrees.
configureMiniCooperTriggerWaveform ==
    LET at(u) == (3600 * u) \div 242
        pairs(n, u) == LET up(i)   == at(u + 4 * i)
                           down(i) == at(u + 4 * i + 2)
                       IN  TeethAt(n, T_SECONDARY, up, down)
    IN  [onlyPrimary(withoutSync(initialize("CAM"))) EXCEPT
            !.events = <<F2(at(1))>> \o pairs(23, 3) \o <<R2(at(101)), F2(at(107))>> \o pairs(36, 109)
                       \o <<R1(3760)>> \o pairs(21, 253) \o <<R2(at(343)), F2(at(349))>> \o pairs(33, 351)
                       \o <<R2(at(483)), F1(7200)>>]

----------------------------------------------------------------------------
\* The switch of TriggerWaveform::initializeTriggerWaveform; the user says where a
\* plain toothed wheel sits.
initializeTriggerWaveform(type, ambiguousOperationMode) ==
    CASE type = "TT_TOOTHED_WHEEL" -> initializeSkippedToothTriggerWaveformExt(
                                            customTotalToothCount, customSkippedToothCount, ambiguousOperationMode)
      [] type = "TT_MAZDA_MIATA_NA" -> initializeMazdaMiataNaShape
      [] type = "TT_MAZDA_MIATA_NB1" -> initializeMazdaMiataNb1ShapeWithOffset(0)
      [] type = "TT_MAZDA_MIATA_VVT_TEST" -> initializeMazdaMiataNb1ShapeWithOffset(-220)
      [] type = "TT_MAZDA_Z5" -> initialize_Mazda_Engine_z5_Shape
      [] type = "TT_MIATA_NB2_VVT_CAM" -> initializeMazdaMiataVVtCamShape
      [] type = "TT_RENIX_66_2_2_2" -> commonRenix("THREE_TIMES_CRANK")
      [] type = "TT_RENIX_44_2_2" -> commonRenix("SYMMETRICAL_CRANK")
      [] type = "TT_MIATA_VVT" -> initializeMazdaMiataNb2Crank
      [] type = "TT_DODGE_NEON_1995" -> configureNeon1995TriggerWaveform
      [] type = "TT_DODGE_NEON_1995_ONLY_CRANK" -> configureNeon1995TriggerWaveformOnlyCrank
      [] type = "TT_DODGE_STRATUS" -> configureDodgeStratusTriggerWaveform
      [] type = "TT_DODGE_NEON_2003_CAM" -> configureNeon2003TriggerWaveformCam
      [] type = "TT_FORD_ASPIRE" -> configureFordAspireTriggerWaveform
      [] type = "TT_GM_7X" -> configureGmTriggerWaveform
      [] type = "TT_MAZDA_DOHC_1_4" -> configureMazdaProtegeLx
      [] type = "TT_ONE_PLUS_ONE" -> configureOnePlusOne
      [] type = "TT_3_1_CAM" -> configure3_1_cam
      [] type = "TT_ONE_PLUS_TOOTHED_WHEEL_60_2" -> configureOnePlus60_2
      [] type = "TT_ONE" -> initializeSkippedToothTriggerWaveformExt(1, 0, ambiguousOperationMode)
      [] type = "TT_MAZDA_SOHC_4" -> configureMazdaProtegeSOHC
      [] type = "TT_MINI_COOPER_R50" -> configureMiniCooperTriggerWaveform
      [] type = "TT_TOOTHED_WHEEL_60_2" -> initializeSkippedToothTriggerWaveformExt(60, 2, ambiguousOperationMode)
      [] type = "TT_60_2_VW" -> setVwConfiguration
      [] type = "TT_TOOTHED_WHEEL_36_1" -> initializeSkippedToothTriggerWaveformExt(36, 1, ambiguousOperationMode)
      [] type = "TT_BOSCH_QUICK_START" -> configureQuickStartSenderWheel
      [] type = "TT_HONDA_K_12_1" -> configureHondaK_12_1
      [] type = "TT_HONDA_4_24_1" -> configureHonda_1_4_24(T_CHANNEL_3, T_PRIMARY, 0)
      [] type = "TT_HONDA_4_24" -> configureHonda_1_4_24(T_NONE, T_PRIMARY, 0)
      [] type = "TT_HONDA_1_24" -> configureHonda_1_4_24(T_PRIMARY, T_NONE, 100)
      [] type = "TT_HONDA_ACCORD_1_24_SHIFTED" -> configureHondaAccordShifted
      [] type = "TT_HONDA_1_4_24" -> configureHondaAccordCDDip
      [] type = "TT_HONDA_CBR_600" -> configureHondaCbr600
      [] type = "TT_HONDA_CBR_600_CUSTOM" -> configureHondaCbr600custom
      [] type = "TT_MITSUBISHI" -> initializeMitsubishi4g18
      [] type = "TT_DODGE_RAM" -> initDodgeRam
      [] type = "TT_JEEP_4_CYL" -> initJeep_XJ_4cyl_2500
      [] type = "TT_JEEP_18_2_2_2" -> initJeep18_2_2_2
      [] type = "TT_SUBARU_7_6" -> initializeSubaru7_6
      [] type = "TT_36_2_2_2" -> initialize36_2_2_2
      [] type = "TT_2JZ_3_34" -> initializeSkippedToothTriggerWaveformExt(36, 2, "CRANK")
      [] type = "TT_2JZ_1_12" -> initialize2jzGE1_12
      [] type = "TT_NISSAN_SR20VE" -> initializeNissanSR20VE_4_optional_360(FALSE)
      [] type = "TT_NISSAN_SR20VE_360" -> initializeNissanSR20VE_4_optional_360(TRUE)
      [] type = "TT_ROVER_K" -> initializeRoverK
      [] type = "TT_FIAT_IAW_P8" -> configureFiatIAQ_P8
      [] type = "TT_GM_LS_24" -> initGmLS24

TriggerTypes ==
    {"TT_TOOTHED_WHEEL", "TT_MAZDA_MIATA_NA", "TT_MAZDA_MIATA_NB1", "TT_MAZDA_MIATA_VVT_TEST",
     "TT_MAZDA_Z5", "TT_MIATA_NB2_VVT_CAM", "TT_RENIX_66_2_2_2", "TT_RENIX_44_2_2", "TT_MIATA_VVT",
     "TT_DODGE_NEON_1995", "TT_DODGE_NEON_1995_ONLY_CRANK", "TT_DODGE_STRATUS",
     "TT_DODGE_NEON_2003_CAM", "TT_FORD_ASPIRE", "TT_GM_7X", "TT_MAZDA_DOHC_1_4", "TT_ONE_PLUS_ONE",
     "TT_3_1_CAM", "TT_ONE_PLUS_TOOTHED_WHEEL_60_2", "TT_ONE", "TT_MAZDA_SOHC_4", "TT_MINI_COOPER_R50",
     "TT_TOOTHED_WHEEL_60_2", "TT_60_2_VW", "TT_TOOTHED_WHEEL_36_1", "TT_BOSCH_QUICK_START",
     "TT_HONDA_K_12_1", "TT_HONDA_4_24_1", "TT_HONDA_4_24", "TT_HONDA_1_24",
     "TT_HONDA_ACCORD_1_24_SHIFTED", "TT_HONDA_1_4_24", "TT_HONDA_CBR_600", "TT_HONDA_CBR_600_CUSTOM",
     "TT_MITSUBISHI", "TT_DODGE_RAM", "TT_JEEP_4_CYL", "TT_JEEP_18_2_2_2", "TT_SUBARU_7_6",
     "TT_36_2_2_2", "TT_2JZ_3_34", "TT_2JZ_1_12", "TT_NISSAN_SR20VE", "TT_NISSAN_SR20VE_360",
     "TT_ROVER_K", "TT_FIAT_IAW_P8", "TT_GM_LS_24"}
=============================================================================
