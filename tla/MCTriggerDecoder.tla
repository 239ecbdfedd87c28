-------------------------- MODULE MCTriggerDecoder --------------------------
EXTENDS TriggerDecoder

\* Wheels of a camshaft whose mode the user sets.
SetMode(type) == IF type \in {"TT_ONE_PLUS_ONE", "TT_3_1_CAM"} THEN "CAM" ELSE "CRANK"

Plain(types, rising, maxFaults, stride) ==
    {[type |-> type, ambiguousOperationMode |-> SetMode(type), onlyRising |-> up, noiseless |-> FALSE,
      faster |-> FALSE, vvtMode |-> "INACTIVE", maxFaults |-> maxFaults, stride |-> stride]
        : type \in types, up \in rising}
OnCam(types)                 == {[c EXCEPT !.ambiguousOperationMode = "CAM"] : c \in Plain(types, {FALSE}, 1, 1)}
Faster(types, maxFaults)     == {[c EXCEPT !.faster = TRUE] : c \in Plain(types, {FALSE}, maxFaults, 1)}
Noiseless(types)             == {[c EXCEPT !.noiseless = TRUE] : c \in Plain(types, {FALSE}, 0, 1)}
WithCam(type, mode)          == {[c EXCEPT !.vvtMode = mode] : c \in Plain({type}, {FALSE}, 1, 1)}

\* Counted wheels that take whichever rise comes first for their first event.
AnyRise == {"TT_3_1_CAM", "TT_JEEP_4_CYL", "TT_JEEP_18_2_2_2", "TT_2JZ_1_12"}
\* Wheels of several cycles per revolution, whose angles are wrong on rising edges only.
Repeated == {"TT_MIATA_VVT", "TT_RENIX_44_2_2", "TT_RENIX_66_2_2_2"}

MCConfigs ==
    Plain(TriggerTypes \ AnyRise, {FALSE}, 0, 13)
    \cup Plain(TriggerTypes \ (AnyRise \cup Repeated), {TRUE}, 0, 13)
    \cup Plain({"TT_FIAT_IAW_P8", "TT_FORD_ASPIRE"}, BOOLEAN, 1, 1)
    \cup Plain({"TT_MIATA_VVT", "TT_BOSCH_QUICK_START", "TT_NISSAN_SR20VE"}, {FALSE}, 1, 1)
    \cup Plain({"TT_TOOTHED_WHEEL"}, BOOLEAN, 2, 1)
    \cup OnCam({"TT_TOOTHED_WHEEL"})
    \cup Faster({"TT_ONE_PLUS_ONE"}, 1)
    \cup Noiseless({"TT_ONE_PLUS_ONE", "TT_FORD_ASPIRE", "TT_MIATA_VVT"})
    \cup WithCam("TT_TOOTHED_WHEEL", "FIRST_HALF")
    \cup WithCam("TT_TOOTHED_WHEEL", "SECOND_HALF")
    \cup WithCam("TT_MIATA_VVT", "MIATA_NB2")
=============================================================================
