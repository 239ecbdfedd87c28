-------------------------- MODULE FlashConfigProofs --------------------------
(***************************************************************************)
(* Proofs about FlashConfig for every set of tunes and every bound.        *)
(***************************************************************************)
EXTENDS FlashConfig, TLAPS

\* A copy that has been erased and at most partly programmed with configuration ps, or
\* holds it.
Blankish(copy, ps) ==
  /\ \A p \in Part : copy.words[p] \in {Erased, ps[p]}
  /\ copy.value \in {Erased, ps}
  /\ copy.value = ps => copy.words = ps

Complete(copy, ps) == copy.words = ps /\ copy.value = ps

HeadDone(c) == flash[c].words["head"] = persistentState["head"]

\* What a write relies on when it is about to make step k.
AtStep(k) ==
  /\ k > 1 => value = persistentState
  /\ k \in {3, 4} => Blankish(flash[1], persistentState)
  /\ k \in {6, 7} => Blankish(flash[2], persistentState)

ThreadWriting == thread.command = "write"

\* What a write that is not interrupted relies on before its step k.  It finds the flash
\* locked in the middle of a copy only after another write has completed that copy.
WriteInv(k) ==
  /\ AtStep(k)
  /\ k = 4 => HeadDone(1) /\ (locked => Complete(flash[1], persistentState))
  /\ k = 7 => HeadDone(2) /\ (locked => Complete(flash[2], persistentState))
  /\ k >= 5 => Complete(flash[1], persistentState)

\* The write by the interrupt is not disturbed.
IsrInv == isr # None => WriteInv(isr) /\ (isr \in {4, 7} => ~locked)

\* What a write by a thread that has been interrupted before its step k can rely on while
\* the interrupt writes the same copies.
Interrupted(k) ==
  /\ AtStep(k)
  /\ k = 4 /\ isr # 3 => HeadDone(1)
  /\ k = 7 /\ isr # 6 => HeadDone(2)
  /\ k >= 5 /\ isr \notin {3, 4} => Complete(flash[1], persistentState)

ThreadInv ==
  ThreadWriting => IF isr = None THEN WriteInv(thread.step) ELSE Interrupted(thread.step)

\* Commands that replace the configuration run alone.
CommandInv ==
  /\ thread.command = "idle" => thread = Idle
  /\ thread.command \in {"burn", "reset"} => isr = None /\ ~needToWriteConfiguration
  /\ thread.command = "burn" => configWorkingCopy \in burned
  /\ ~powered => thread = Idle /\ isr = None /\ ~needToWriteConfiguration /\ lastHard = None

BurnedHard(h) == \E b \in burned : Hard(b) = h

\* What is written, or will be, has been committed.
CommittedInv ==
  /\ Whole(Defaults) \in burned
  /\ needToWriteConfiguration \/ isr # None \/ ThreadWriting => BurnedHard(Hard(persistentState))
  /\ lastHard # None /\ thread.command \notin {"burn", "reset"} => Hard(persistentState) = lastHard

\* A copy with a CRC is the configuration its CRC was computed of.
CopiesInv ==
  \A c \in 1 .. 2 : \/ flash[c].value = Erased
                    \/ flash[c].value = flash[c].words /\ BurnedHard(Hard(flash[c].words))

FlashInv ==
  /\ TypeOK /\ IsrInv /\ ThreadInv /\ CommandInv /\ CommittedInv /\ CopiesInv /\ BurnSaved

-----------------------------------------------------------------------------
(* One copy at least is valid. *)

ActiveStep == IF isr # None THEN isr ELSE IF ThreadWriting THEN thread.step ELSE 0

\* Until power fails a copy is invalid only while it is written.
KeptInv ==
  powerLosses = 0 /\ (ThreadWriting => isr = None) =>
    /\ ActiveStep \notin {3, 4} => isValidCrc(flash[1])
    /\ ActiveStep \notin {6, 7} => isValidCrc(flash[2])

\* One loss of power leaves a valid copy.
OneLossInv ==
  powerLosses <= 1 => /\ ~powered => isValidCrc(flash[1]) \/ isValidCrc(flash[2])
                      /\ ~wasReset

TuneInv == FlashInv /\ KeptInv /\ OneLossInv /\ powerLosses \in Nat

-----------------------------------------------------------------------------
(* What the steps of a write do to the flash *)

Copy == [words : FlashWords, value : Configuration \cup {Erased, Garbage}]

\* Erased words are no configuration (nor are half-programmed ones), so that a valid CRC
\* vouches for a configuration.
LEMMA ValidIsConfiguration ==
  ASSUME NEW copy \in Copy, isValidCrc(copy)
  PROVE  copy.words \in Configuration
  BY FlashValues DEF Copy, isValidCrc

\* Erasing a copy leaves the other one alone and locks the flash.
LEMMA EraseEffect ==
  ASSUME TypeOK, NEW c \in 1 .. 2, EraseCopy(c)
  PROVE  /\ flash' \in [1 .. 2 -> Copy]
         /\ \A d \in 1 .. 2 : d # c => flash'[d] = flash[d]
         /\ flash'[c].value = Erased
         /\ \A ps \in Configuration : Blankish(flash'[c], ps)
         /\ locked' = TRUE /\ value' = value
<1>1. ErasedCopy \in Copy
  BY DEF ErasedCopy, Copy, FlashWords
<1>2. flash' \in [1 .. 2 -> Copy] /\ flash'[c] = ErasedCopy
  BY <1>1 DEF EraseCopy, TypeOK, Copy
<1>3. \A d \in 1 .. 2 : d # c => flash'[d] = flash[d]
  BY DEF EraseCopy, TypeOK
<1>4. \A ps \in Configuration : Erased # ps
  BY FlashValues DEF Configuration, FlashWords
<1>5. \A ps \in Configuration : Blankish(ErasedCopy, ps)
  BY <1>4 DEF Blankish, ErasedCopy
<1> QED
  BY <1>2, <1>3, <1>5 DEF EraseCopy, ErasedCopy

\* Programming the first words of a copy: they are the configuration's in the end, and a
\* copy that was complete does not change.
LEMMA HeadEffect ==
  ASSUME TypeOK, NEW c \in 1 .. 2, ProgramHead(c)
  PROVE  /\ flash' \in [1 .. 2 -> Copy]
         /\ \A d \in 1 .. 2 : d # c => flash'[d] = flash[d]
         /\ Blankish(flash[c], persistentState) =>
              /\ Blankish(flash'[c], persistentState)
              /\ flash'[c].words["head"] = persistentState["head"]
              /\ flash'[c].value = flash[c].value
              /\ flash[c].value # Erased => flash'[c] = flash[c]
         /\ locked' = FALSE /\ value' = value
<1> DEFINE word == Program(flash[c].words["head"], persistentState["head"])
<1>t. flash \in [1 .. 2 -> Copy] /\ persistentState \in Configuration
  BY DEF TypeOK, Copy
<1>1. "head" \in Part /\ flash[c].words \in FlashWords /\ flash[c] \in Copy
  BY <1>t DEF Copy, Part
<1>2. word \in PartValue \cup {Erased, Garbage}
  BY <1>t, <1>1 DEF Program, Configuration
<1>3. flash' = [flash EXCEPT ![c] = [flash[c] EXCEPT !.words = [flash[c].words EXCEPT !["head"] = word]]]
  BY DEF ProgramHead
<1>4. [flash[c].words EXCEPT !["head"] = word] \in FlashWords
  BY <1>1, <1>2 DEF FlashWords
<1> HIDE DEF word
<1>5. [flash[c] EXCEPT !.words = [flash[c].words EXCEPT !["head"] = word]] \in Copy
  BY <1>1, <1>4 DEF Copy
<1>6. /\ flash' \in [1 .. 2 -> Copy]
      /\ \A d \in 1 .. 2 : d # c => flash'[d] = flash[d]
      /\ flash'[c] = [flash[c] EXCEPT !.words = [flash[c].words EXCEPT !["head"] = word]]
  BY <1>t, <1>3, <1>5
<1>7. flash'[c].value = flash[c].value /\ flash'[c].words = [flash[c].words EXCEPT !["head"] = word]
  BY <1>1, <1>6 DEF Copy
<1>8. ASSUME Blankish(flash[c], persistentState)
      PROVE  /\ Blankish(flash'[c], persistentState)
             /\ flash'[c].words["head"] = persistentState["head"]
             /\ flash[c].value # Erased => flash'[c] = flash[c]
  <2>1. word = persistentState["head"]
    BY <1>1, <1>8 DEF word, Program, Blankish
  <2>2. flash'[c].words["head"] = persistentState["head"]
    BY <1>1, <1>7, <2>1 DEF FlashWords
  <2>3. ASSUME NEW p \in Part PROVE flash'[c].words[p] \in {Erased, persistentState[p]}
    <3>1. CASE p = "head"
      BY <2>2, <3>1
    <3>2. CASE p # "head"
      BY <1>1, <1>7, <3>2, <1>8 DEF FlashWords, Blankish
    <3> QED BY <3>1, <3>2
  <2>4. ASSUME flash[c].value # Erased PROVE flash'[c] = flash[c] /\ flash[c].words = persistentState
    <3>1. flash[c].words = persistentState
      BY <1>8, <2>4 DEF Blankish
    <3>2. [flash[c].words EXCEPT !["head"] = word] = flash[c].words
      BY <1>1, <2>1, <3>1 DEF FlashWords
    <3> QED BY <1>1, <1>6, <3>1, <3>2 DEF Copy
  <2>5. flash'[c].value = persistentState => flash'[c].words = persistentState
    <3>1. persistentState # Erased
      BY <1>t, FlashValues DEF Configuration, FlashWords
    <3> QED BY <1>7, <2>4, <3>1
  <2>6. flash'[c].value \in {Erased, persistentState}
    BY <1>7, <1>8 DEF Blankish
  <2> QED BY <2>2, <2>3, <2>4, <2>5, <2>6 DEF Blankish
<1> QED
  BY <1>6, <1>7, <1>8 DEF ProgramHead

\* Programming the rest of a copy completes it, unless the flash is locked: then nothing
\* is programmed.
LEMMA TailEffect ==
  ASSUME TypeOK, NEW c \in 1 .. 2, ProgramTail(c)
  PROVE  /\ flash' \in [1 .. 2 -> Copy]
         /\ \A d \in 1 .. 2 : d # c => flash'[d] = flash[d]
         /\ locked => flash' = flash
         /\ ~locked /\ value = persistentState /\ Blankish(flash[c], persistentState) /\ HeadDone(c)
              => Complete(flash'[c], persistentState)
         /\ locked' = TRUE /\ value' = value
<1> DEFINE words == [p \in Part |-> IF p = "head" THEN flash[c].words[p]
                                    ELSE Program(flash[c].words[p], persistentState[p])]
           crc == Program(flash[c].value, value)
<1>t. /\ flash \in [1 .. 2 -> Copy] /\ persistentState \in Configuration /\ value \in Configuration
      /\ flash[c] \in Copy /\ flash[c].words \in FlashWords
      /\ flash[c].value \in Configuration \cup {Erased, Garbage}
  BY DEF TypeOK, Copy
<1>1. words \in FlashWords
  BY <1>t DEF Program, Configuration, FlashWords
<1>2. crc \in Configuration \cup {Erased, Garbage}
  BY <1>t DEF Program
<1>3. ~locked => flash' = [flash EXCEPT ![c] = [flash[c] EXCEPT !.words = words, !.value = crc]]
  BY DEF ProgramTail
<1>4. value = persistentState /\ Blankish(flash[c], persistentState) /\ HeadDone(c)
        => words = persistentState /\ crc = persistentState
  BY <1>t DEF Blankish, HeadDone, Program, Configuration
<1> HIDE DEF words, crc
<1>5. [flash[c] EXCEPT !.words = words, !.value = crc] \in Copy
  BY <1>t, <1>1, <1>2 DEF Copy
<1>6. CASE ~locked
  <2>1. /\ flash' \in [1 .. 2 -> Copy]
        /\ \A d \in 1 .. 2 : d # c => flash'[d] = flash[d]
        /\ flash'[c] = [flash[c] EXCEPT !.words = words, !.value = crc]
    BY <1>t, <1>3, <1>5, <1>6
  <2>2. flash'[c].words = words /\ flash'[c].value = crc
    BY <1>t, <2>1 DEF Copy
  <2> QED BY <1>4, <1>6, <2>1, <2>2 DEF Complete, ProgramTail
<1>7. CASE locked
  BY <1>t, <1>7 DEF ProgramTail
<1> QED
  BY <1>6, <1>7

-----------------------------------------------------------------------------
(* Type correctness *)

\* Every step of a write keeps the types of what it changes.
LEMMA WriteStepTypes ==
  ASSUME TypeOK, NEW k \in 1 .. LastStep, writeStep(k)
  PROVE  flash' \in [1 .. 2 -> Copy] /\ locked' \in BOOLEAN /\ value' \in Configuration
<1>1. k \in 1 .. 7 /\ value \in Configuration /\ 1 \in 1 .. 2 /\ 2 \in 1 .. 2
  BY DEF LastStep, TypeOK
<1>2. CASE k = 1
  BY <1>2 DEF writeStep, flashStateCrc, storage, TypeOK, Copy
<1>3. CASE k = 2
  <2>1. EraseCopy(1)
    BY <1>3 DEF writeStep
  <2> QED BY <1>1, <2>1, EraseEffect
<1>4. CASE k = 3
  <2>1. ProgramHead(1)
    BY <1>4 DEF writeStep
  <2> QED BY <1>1, <2>1, HeadEffect
<1>5. CASE k = 4
  <2>1. ProgramTail(1)
    BY <1>5 DEF writeStep
  <2> QED BY <1>1, <2>1, TailEffect
<1>6. CASE k = 5
  <2>1. EraseCopy(2)
    BY <1>6 DEF writeStep
  <2> QED BY <1>1, <2>1, EraseEffect
<1>7. CASE k = 6
  <2>1. ProgramHead(2)
    BY <1>7 DEF writeStep
  <2> QED BY <1>1, <2>1, HeadEffect
<1>8. CASE k = 7
  <2>1. ProgramTail(2)
    BY <1>8 DEF writeStep
  <2> QED BY <1>1, <2>1, TailEffect
<1> QED
  BY <1>1, <1>2, <1>3, <1>4, <1>5, <1>6, <1>7, <1>8

\* readConfiguration returns a configuration whatever the flash holds.
LEMMA ReadIsConfiguration ==
  ASSUME TypeOK PROVE readConfiguration \in Configuration
<1>1. flash[1] \in Copy /\ flash[2] \in Copy
  BY DEF TypeOK, Copy
<1>2. Whole(Defaults) \in Configuration
  BY DEF Whole, Configuration, PartValue
<1> QED
  BY <1>1, <1>2, ValidIsConfiguration DEF readConfiguration

\* The inductive step of type correctness.
LEMMA TypeStep ==
  ASSUME TypeOK, [Next]_vars PROVE TypeOK'
<1> USE DEF TypeOK
<1>w. \A t \in PartValue : Whole(t) \in Configuration
  BY DEF Whole, Configuration
<1>p. Tunes \subseteq PartValue /\ Defaults \in PartValue /\ Zero \in PartValue /\ "head" \in Part
  BY DEF PartValue, Part
<1>s. /\ Idle \in [command : {"idle", "burn", "reset", "write"}, step : 1 .. LastStep]
      /\ \A c \in {"burn", "reset", "write"}, k \in 1 .. 2 :
           [command |-> c, step |-> k] \in
             [command : {"idle", "burn", "reset", "write"}, step : 1 .. LastStep]
  BY DEF Idle, LastStep
<1>1. ASSUME NEW p \in Part, NEW t \in Tunes, handleWriteChunkCommand(p, t) PROVE TypeOK'
  <2>1. /\ [configWorkingCopy EXCEPT ![p] = t] \in Configuration
        /\ [persistentState EXCEPT ![p] = t] \in Configuration
    BY <1>p DEF Configuration
  <2> QED BY <1>1, <2>1 DEF handleWriteChunkCommand, storage, ghosts
<1>2. CASE handleBurnCommand
  <2>1. [persistentState EXCEPT !["head"] = configWorkingCopy["head"]] \in Configuration
    BY <1>p DEF Configuration
  <2> QED BY <1>2, <1>s, <2>1 DEF handleBurnCommand, storage
<1>3. CASE requestBurn
  BY <1>3, <1>s DEF requestBurn, storage
<1>4. CASE writeConfigCommand
  BY <1>4, <1>s DEF writeConfigCommand, storage
<1>5. CASE burnConfigCommand
  BY <1>5 DEF burnConfigCommand, storage
<1>6. CASE resetConfigurationExt
  BY <1>6, <1>s, <1>w, <1>p DEF resetConfigurationExt, storage, ghosts
<1>7. ASSUME NEW thenWrite \in BOOLEAN, setDefaultEngineConfiguration(thenWrite) PROVE TypeOK'
  BY <1>7, <1>s, <1>w, <1>p DEF setDefaultEngineConfiguration, storage
<1>8. CASE threadWrites
  <2>1. PICK k \in 1 .. LastStep : k = thread.step
    OBVIOUS
  <2>2. writeStep(k)
    BY <1>8, <2>1 DEF threadWrites
  <2>3. flash' \in [1 .. 2 -> Copy] /\ locked' \in BOOLEAN /\ value' \in Configuration
    BY <2>2, WriteStepTypes
  <2>4. thread' \in [command : {"idle", "burn", "reset", "write"}, step : 1 .. LastStep]
    BY <1>8, <1>s DEF threadWrites, LastStep
  <2> QED BY <1>8, <2>3, <2>4 DEF threadWrites, ghosts, Copy
<1>9. CASE writeToFlashIfPending
  <2>1. isr' \in 1 .. LastStep \cup {None}
    BY <1>9 DEF writeToFlashIfPending, LastStep
  <2> QED BY <1>9, <2>1, Zenon DEF writeToFlashIfPending, storage, ghosts
<1>10. CASE isrWrites
  <2>1. PICK k \in 1 .. LastStep : k = isr
    BY <1>10 DEF isrWrites
  <2>2. writeStep(k)
    BY <1>10, <2>1 DEF isrWrites
  <2>3. flash' \in [1 .. 2 -> Copy] /\ locked' \in BOOLEAN /\ value' \in Configuration
    BY <2>2, WriteStepTypes
  <2>4. isr' \in 1 .. LastStep \cup {None}
    BY <1>10 DEF isrWrites, LastStep
  <2> QED BY <1>10, <2>3, <2>4 DEF isrWrites, ghosts, Copy
<1>11. CASE powerLoss
  BY <1>11, <1>s DEF powerLoss
<1>12. CASE powerUp
  <2>1. wasReset' \in BOOLEAN
    BY <1>12 DEF powerUp
  <2> QED BY <1>12, <2>1, ReadIsConfiguration DEF powerUp, storage
<1>13. CASE UNCHANGED vars
  BY <1>13 DEF vars, ram, storage, ghosts
<1> QED
  BY <1>1, <1>2, <1>3, <1>4, <1>5, <1>6, <1>7, <1>8, <1>9, <1>10, <1>11, <1>12, <1>13 DEF Next

\* The initial states are typed.
LEMMA TypeInit == Init => TypeOK
<1> SUFFICES ASSUME Init PROVE TypeOK
  OBVIOUS
<1>1. PICK t \in Tunes :
        /\ persistentState = Whole(t)
        /\ flash = [c \in 1 .. 2 |-> [words |-> Whole(t), value |-> Whole(t)]]
        /\ burned = {Whole(t), Whole(Defaults)}
  BY DEF Init
<1>2. Whole(t) \in Configuration /\ Whole(Defaults) \in Configuration
  BY DEF Whole, Configuration, PartValue
<1>3. Whole(t) \in FlashWords
  BY DEF Whole, FlashWords, PartValue
<1>4. flash \in [1 .. 2 -> [words : FlashWords, value : Configuration \cup {Erased, Garbage}]]
  BY <1>1, <1>2, <1>3
<1>5. Idle \in [command : {"idle", "burn", "reset", "write"}, step : 1 .. LastStep]
  BY DEF Idle, LastStep
<1> QED
  BY <1>1, <1>2, <1>4, <1>5, Zenon DEF Init, TypeOK

\* RAM always holds a configuration: power-up never hands erased or half-programmed flash
\* words to the engine, whatever was interrupted or written over before.
THEOREM TypeCorrect == Spec => []TypeOK
  BY TypeInit, TypeStep, PTL DEF Spec

-----------------------------------------------------------------------------
(* One write, by a thread or by the interrupt *)

\* A step of a write, seen from outside: a copy is left alone, erased, being programmed, or
\* completed, and what an interrupted write relies on stays true or is restored later.
StepEffect(k) ==
  /\ value' \in {value, persistentState} /\ (k = 1 => value' = persistentState)
  /\ \A c \in 1 .. 2 :
       /\ \/ flash'[c].value = Erased
          \/ flash'[c] = flash[c]
          \/ Complete(flash'[c], persistentState)
       /\ Blankish(flash[c], persistentState) => Blankish(flash'[c], persistentState)
  /\ k \notin {2, 3, 4} => flash'[1] = flash[1]
  /\ k \notin {5, 6, 7} => flash'[2] = flash[2]
  /\ k \in {4, 7} => locked'

\* A complete copy may be programmed again.
LEMMA CompleteIsBlankish ==
  ASSUME NEW copy, NEW ps, Complete(copy, ps) PROVE Blankish(copy, ps)
  BY DEF Complete, Blankish

\* A write advances from its step k to k + 1, and its last step leaves two complete copies.
LEMMA WriteAdvances ==
  ASSUME TypeOK, NEW k \in 1 .. LastStep, WriteInv(k), writeStep(k),
         persistentState' = persistentState
  PROVE  /\ k < LastStep => WriteInv(k + 1)' /\ (k + 1 \in {4, 7} => ~locked')
         /\ k = LastStep => \A c \in 1 .. 2 : Complete(flash'[c], persistentState)
         /\ StepEffect(k)
<1>t. k \in 1 .. 7 /\ persistentState \in Configuration /\ 1 \in 1 .. 2 /\ 2 \in 1 .. 2
  BY DEF LastStep, TypeOK
<1> USE DEF LastStep
<1>1. CASE k = 1
  <2>1. value' = persistentState /\ flash' = flash
    BY <1>1 DEF writeStep, flashStateCrc, storage
  <2> QED BY <1>1, <2>1 DEF WriteInv, AtStep, StepEffect
<1>2. CASE k = 2
  <2>1. EraseCopy(1)
    BY <1>2 DEF writeStep
  <2>2. /\ flash'[2] = flash[2] /\ Blankish(flash'[1], persistentState)
        /\ flash'[1].value = Erased /\ value' = value
    BY <1>t, <2>1, EraseEffect
  <2>3. value = persistentState
    BY <1>2 DEF WriteInv, AtStep
  <2> QED BY <1>t, <1>2, <2>2, <2>3 DEF WriteInv, AtStep, StepEffect
<1>3. CASE k = 3
  <2>1. ProgramHead(1) /\ Blankish(flash[1], persistentState) /\ value = persistentState
    BY <1>3 DEF writeStep, WriteInv, AtStep
  <2>2. /\ flash'[2] = flash[2] /\ Blankish(flash'[1], persistentState)
        /\ flash'[1].words["head"] = persistentState["head"]
        /\ flash'[1].value = Erased \/ flash'[1] = flash[1]
        /\ locked' = FALSE /\ value' = value
    BY <1>t, <2>1, HeadEffect
  <2> QED BY <1>t, <1>3, <2>1, <2>2 DEF WriteInv, AtStep, StepEffect, HeadDone
<1>4. CASE k = 4
  <2>1. /\ ProgramTail(1) /\ Blankish(flash[1], persistentState) /\ value = persistentState
        /\ HeadDone(1) /\ (locked => Complete(flash[1], persistentState))
    BY <1>4 DEF writeStep, WriteInv, AtStep
  <2>2. /\ flash'[2] = flash[2] /\ Complete(flash'[1], persistentState)
        /\ locked' = TRUE /\ value' = value
    BY <1>t, <2>1, TailEffect
  <2>3. Blankish(flash'[1], persistentState)
    BY <2>2, CompleteIsBlankish
  <2> QED BY <1>t, <1>4, <2>1, <2>2, <2>3 DEF WriteInv, AtStep, StepEffect
<1>5. CASE k = 5
  <2>1. EraseCopy(2) /\ value = persistentState /\ Complete(flash[1], persistentState)
    BY <1>5 DEF writeStep, WriteInv, AtStep
  <2>2. /\ flash'[1] = flash[1] /\ Blankish(flash'[2], persistentState)
        /\ flash'[2].value = Erased /\ value' = value
    BY <1>t, <2>1, EraseEffect
  <2> QED BY <1>t, <1>5, <2>1, <2>2 DEF WriteInv, AtStep, StepEffect
<1>6. CASE k = 6
  <2>1. /\ ProgramHead(2) /\ Blankish(flash[2], persistentState) /\ value = persistentState
        /\ Complete(flash[1], persistentState)
    BY <1>6 DEF writeStep, WriteInv, AtStep
  <2>2. /\ flash'[1] = flash[1] /\ Blankish(flash'[2], persistentState)
        /\ flash'[2].words["head"] = persistentState["head"]
        /\ flash'[2].value = Erased \/ flash'[2] = flash[2]
        /\ locked' = FALSE /\ value' = value
    BY <1>t, <2>1, HeadEffect
  <2> QED BY <1>t, <1>6, <2>1, <2>2 DEF WriteInv, AtStep, StepEffect, HeadDone
<1>7. CASE k = 7
  <2>1. /\ ProgramTail(2) /\ Blankish(flash[2], persistentState) /\ value = persistentState
        /\ HeadDone(2) /\ (locked => Complete(flash[2], persistentState))
        /\ Complete(flash[1], persistentState)
    BY <1>7 DEF writeStep, WriteInv, AtStep
  <2>2. /\ flash'[1] = flash[1] /\ Complete(flash'[2], persistentState)
        /\ locked' = TRUE /\ value' = value
    BY <1>t, <2>1, TailEffect
  <2>3. Blankish(flash'[2], persistentState)
    BY <2>2, CompleteIsBlankish
  <2> QED BY <1>t, <1>7, <2>1, <2>2, <2>3 DEF StepEffect
<1> QED
  BY <1>t, <1>1, <1>2, <1>3, <1>4, <1>5, <1>6, <1>7

-----------------------------------------------------------------------------
(* Safety of the copies *)

\* Two lemmas on what was committed: commands only add to it.
LEMMA BurnedGrows ==
  ASSUME burned \subseteq burned', NEW h, BurnedHard(h) PROVE BurnedHard(h)'
  BY DEF BurnedHard

\* As long as the flash stays, so does what its copies hold.
LEMMA CopiesStay ==
  ASSUME CopiesInv, flash' = flash, burned \subseteq burned' PROVE CopiesInv'
  BY DEF CopiesInv, BurnedHard

\* A step of a write puts the burned configuration into a copy, and nothing else.
LEMMA CopiesWritten ==
  ASSUME CopiesInv, NEW k, StepEffect(k), BurnedHard(Hard(persistentState)), burned' = burned
  PROVE  CopiesInv'
  BY DEF CopiesInv, StepEffect, Complete, BurnedHard

\* What the threads' commands, the interrupt and power do to the invariant; a burn or reset
\* that replaces the configuration while a write is pending is excluded.
LEMMA FlashStep ==
  ASSUME ~ChangesWhilePending, FlashInv, [Next]_vars PROVE FlashInv'
<1> USE DEF FlashInv
<1>t. TypeOK'
  BY TypeStep
<1>n. None \notin 1 .. 7 /\ None \notin 1 .. LastStep
  BY FlashValues DEF LastStep
<1>1. ASSUME NEW p \in Part, NEW t \in Tunes, handleWriteChunkCommand(p, t) PROVE FlashInv'
  <2>0. isr = None /\ isr' = None /\ thread = Idle /\ thread' = Idle
    BY <1>1 DEF handleWriteChunkCommand, ThreadRuns
  <2>1. Hard(persistentState') = Hard(persistentState)
    BY <1>1 DEF handleWriteChunkCommand, Hard, TypeOK, Configuration, Part
  <2>2. IsrInv' /\ ThreadInv' /\ CommandInv'
    BY <1>1, <2>0 DEF IsrInv, ThreadInv, CommandInv, ThreadWriting, Idle, handleWriteChunkCommand,
      ThreadRuns
  <2>3. CommittedInv'
    BY <1>1, <2>0, <2>1 DEF CommittedInv, ThreadWriting, BurnedHard, Idle, handleWriteChunkCommand, ghosts
  <2>4. CopiesInv' /\ BurnSaved'
    BY <1>1, CopiesStay DEF BurnSaved, Saved, handleWriteChunkCommand, ghosts, storage
  <2> QED BY <1>t, <2>2, <2>3, <2>4
<1>2. CASE handleBurnCommand
  <2>0. /\ isr = None /\ isr' = None /\ thread = Idle /\ thread' = [command |-> "burn", step |-> 2]
        /\ ~needToWriteConfiguration /\ ~needToWriteConfiguration' /\ burned \subseteq burned'
    BY <1>2 DEF handleBurnCommand, ThreadRuns
  <2>2. IsrInv' /\ ThreadInv' /\ CommandInv'
    BY <1>2, <2>0 DEF IsrInv, ThreadInv, CommandInv, ThreadWriting, Idle, handleBurnCommand, ThreadRuns
  <2>3. CommittedInv'
    BY <1>2, <2>0 DEF CommittedInv, ThreadWriting, handleBurnCommand
  <2>4. CopiesInv' /\ BurnSaved'
    BY <1>2, <2>0, CopiesStay DEF BurnSaved, Idle, handleBurnCommand, storage
  <2> QED BY <1>t, <2>2, <2>3, <2>4
<1>3. CASE requestBurn
  <2>0. /\ isr = None /\ isr' = None /\ thread.command = "burn" /\ thread' = Idle
        /\ needToWriteConfiguration' /\ burned' = burned /\ powered'
    BY <1>3 DEF requestBurn, ThreadRuns
  <2>2. IsrInv' /\ ThreadInv' /\ CommandInv'
    BY <2>0 DEF IsrInv, ThreadInv, CommandInv, ThreadWriting, Idle
  <2>3. CommittedInv'
    BY <1>3, <2>0 DEF CommittedInv, CommandInv, BurnedHard, requestBurn
  <2>4. CopiesInv' /\ BurnSaved'
    BY <1>3, <2>0, CopiesStay DEF BurnSaved, requestBurn, storage
  <2> QED BY <1>t, <2>2, <2>3, <2>4
<1>4. CASE writeConfigCommand
  <2>0. /\ isr = None /\ isr' = None /\ thread = Idle /\ thread' = [command |-> "write", step |-> 1]
        /\ persistentState' = persistentState /\ burned' = burned \cup {persistentState} /\ powered'
        /\ lastHard' = Hard(persistentState)
    BY <1>4 DEF writeConfigCommand, ThreadRuns
  <2>2. IsrInv' /\ ThreadInv' /\ CommandInv'
    BY <2>0 DEF IsrInv, ThreadInv, WriteInv, AtStep, CommandInv, ThreadWriting
  <2>3. CommittedInv'
    BY <2>0 DEF CommittedInv, BurnedHard
  <2>4. CopiesInv' /\ BurnSaved'
    BY <1>4, <2>0, CopiesStay DEF BurnSaved, Idle, writeConfigCommand, storage
  <2> QED BY <1>t, <2>2, <2>3, <2>4
<1>5. CASE burnConfigCommand
  <2>0. /\ isr = None /\ isr' = None /\ thread = Idle /\ thread' = Idle /\ needToWriteConfiguration'
        /\ persistentState' = persistentState /\ burned' = burned \cup {persistentState} /\ powered'
        /\ lastHard' = Hard(persistentState)
    BY <1>5 DEF burnConfigCommand, ThreadRuns
  <2>2. IsrInv' /\ ThreadInv' /\ CommandInv'
    BY <2>0 DEF IsrInv, ThreadInv, CommandInv, ThreadWriting, Idle
  <2>3. CommittedInv'
    BY <2>0 DEF CommittedInv, BurnedHard
  <2>4. CopiesInv' /\ BurnSaved'
    BY <1>5, <2>0, CopiesStay DEF BurnSaved, burnConfigCommand, storage
  <2> QED BY <1>t, <2>2, <2>3, <2>4
<1>6. CASE resetConfigurationExt
  <2>0. /\ isr = None /\ isr' = None /\ thread = Idle /\ thread' = [command |-> "reset", step |-> 2]
        /\ ~needToWriteConfiguration /\ ~needToWriteConfiguration' /\ burned' = burned /\ powered'
    BY <1>6 DEF resetConfigurationExt, ThreadRuns, ghosts
  <2>2. IsrInv' /\ ThreadInv' /\ CommandInv'
    BY <2>0 DEF IsrInv, ThreadInv, CommandInv, ThreadWriting
  <2>3. CommittedInv'
    BY <2>0 DEF CommittedInv, ThreadWriting
  <2>4. CopiesInv' /\ BurnSaved'
    BY <1>6, <2>0, CopiesStay DEF BurnSaved, Idle, resetConfigurationExt, storage
  <2> QED BY <1>t, <2>2, <2>3, <2>4
<1>7. ASSUME NEW thenWrite \in BOOLEAN, setDefaultEngineConfiguration(thenWrite) PROVE FlashInv'
  <2>0. /\ isr = None /\ isr' = None /\ thread.command = "reset" /\ burned' = burned /\ powered'
        /\ thread' = IF thenWrite THEN [command |-> "write", step |-> 1] ELSE Idle
        /\ persistentState' = Whole(Defaults)
        /\ lastHard' = IF thenWrite THEN Hard(Whole(Defaults)) ELSE None
        /\ ~needToWriteConfiguration /\ ~needToWriteConfiguration'
    BY <1>7 DEF setDefaultEngineConfiguration, ThreadRuns, CommandInv
  <2>2. IsrInv' /\ ThreadInv' /\ CommandInv'
    BY <2>0 DEF IsrInv, ThreadInv, WriteInv, AtStep, CommandInv, ThreadWriting, Idle
  <2>3. CommittedInv'
    BY <2>0 DEF CommittedInv, BurnedHard, ThreadWriting, Idle
  <2>4. CopiesInv' /\ BurnSaved'
    BY <1>7, <2>0, CopiesStay DEF BurnSaved, Idle, setDefaultEngineConfiguration, storage
  <2> QED BY <1>t, <2>2, <2>3, <2>4
<1>8. CASE threadWrites
  <2>1. PICK k \in 1 .. LastStep : k = thread.step
    BY DEF TypeOK
  <2>2. /\ writeStep(k) /\ isr = None /\ isr' = None /\ ThreadWriting /\ powered /\ powered'
        /\ persistentState' = persistentState /\ burned' = burned /\ lastHard' = lastHard
        /\ configWorkingCopy' = configWorkingCopy
    BY <1>8, <2>1 DEF threadWrites, ThreadRuns, ThreadWriting, ghosts
  <2>3. WriteInv(k)
    BY <2>1, <2>2 DEF ThreadInv
  <2>4. /\ k < LastStep => WriteInv(k + 1)'
        /\ k = LastStep => \A c \in 1 .. 2 : Complete(flash'[c], persistentState)
        /\ StepEffect(k)
    BY <2>2, <2>3, WriteAdvances
  <2>5. IsrInv'
    BY <2>2 DEF IsrInv
  <2>6. BurnedHard(Hard(persistentState)) /\ (lastHard # None => Hard(persistentState) = lastHard)
    BY <2>2 DEF CommittedInv, ThreadWriting
  <2>7. CopiesInv'
    BY <2>2, <2>4, <2>6, CopiesWritten
  <2>8. CommittedInv'
    BY <2>2, <2>6 DEF CommittedInv, BurnedHard
  <2>9. CASE k = LastStep
    <3>1. thread' = Idle
      BY <1>8, <2>1, <2>9 DEF threadWrites
    <3>2. ThreadInv' /\ CommandInv'
      BY <3>1, <2>2 DEF ThreadInv, CommandInv, ThreadWriting, Idle
    <3>3. BurnSaved'
      BY <2>2, <2>4, <2>6, <2>9 DEF BurnSaved, Saved, Complete, isValidCrc
    <3> QED BY <1>t, <2>5, <2>7, <2>8, <3>2, <3>3
  <2>10. CASE k # LastStep
    <3>1. k < LastStep
      BY <2>10 DEF LastStep
    <3>2. thread' = [thread EXCEPT !.step = @ + 1]
      BY <1>8, <2>1, <2>10 DEF threadWrites
    <3>3. thread'.step = k + 1 /\ thread'.command = "write"
      BY <2>1, <2>2, <3>2 DEF TypeOK, ThreadWriting
    <3>4. ThreadInv'
      <4>1. WriteInv(k + 1)'
        BY <2>4, <3>1
      <4> QED BY <2>2, <3>3, <4>1 DEF ThreadInv
    <3>5. CommandInv' /\ BurnSaved'
      BY <2>2, <3>3 DEF CommandInv, BurnSaved, Idle
    <3> QED BY <1>t, <2>5, <2>7, <2>8, <3>4, <3>5
  <2> QED BY <2>9, <2>10
<1>9. CASE writeToFlashIfPending
  <2>0. /\ isr = None /\ isr' = 1 /\ thread' = thread /\ burned' = burned /\ needToWriteConfiguration
        /\ persistentState' = persistentState /\ powered' = powered /\ powered
        /\ configWorkingCopy' = configWorkingCopy /\ lastHard' = lastHard
        /\ flash' = flash /\ locked' = locked /\ value' = value
    BY <1>9 DEF writeToFlashIfPending, ghosts, storage
  <2>1. IsrInv'
    BY <2>0 DEF IsrInv, WriteInv, AtStep
  <2>2. ThreadInv'
    BY <2>0, <1>n DEF ThreadInv, ThreadWriting, WriteInv, AtStep, Interrupted, HeadDone
  <2>3. CommandInv' /\ CommittedInv'
    BY <2>0 DEF CommandInv, CommittedInv, BurnedHard, ThreadWriting
  <2>4. CopiesInv' /\ BurnSaved'
    BY <2>0, <1>n, CopiesStay DEF BurnSaved
  <2> QED BY <1>t, <2>1, <2>2, <2>3, <2>4
<1>10. CASE isrWrites
  <2>1. PICK k \in 1 .. LastStep : k = isr
    BY <1>10 DEF isrWrites, TypeOK
  <2>2. /\ writeStep(k) /\ powered /\ powered' /\ thread' = thread /\ isr # None
        /\ persistentState' = persistentState /\ burned' = burned /\ lastHard' = lastHard
        /\ configWorkingCopy' = configWorkingCopy
        /\ needToWriteConfiguration' = needToWriteConfiguration
        /\ isr' = IF k = LastStep THEN None ELSE k + 1
    BY <1>10, <2>1 DEF isrWrites, ghosts
  <2>3. WriteInv(k)
    BY <2>1, <2>2 DEF IsrInv
  <2>4. /\ k < LastStep => WriteInv(k + 1)' /\ (k + 1 \in {4, 7} => ~locked')
        /\ k = LastStep => \A c \in 1 .. 2 : Complete(flash'[c], persistentState)
        /\ StepEffect(k)
    BY <2>2, <2>3, WriteAdvances
  <2>6. /\ BurnedHard(Hard(persistentState))
        /\ thread.command \notin {"burn", "reset"}
        /\ lastHard # None => Hard(persistentState) = lastHard
    BY <2>2 DEF CommittedInv, CommandInv
  <2>7. CopiesInv'
    BY <2>2, <2>4, <2>6, CopiesWritten
  <2>8. CommittedInv' /\ CommandInv'
    BY <2>2, <2>6 DEF CommittedInv, CommandInv, BurnedHard
  <2>9. CASE k = LastStep
    <3>1. isr' = None
      BY <2>2, <2>9
    <3>2. \A c \in 1 .. 2 : Complete(flash'[c], persistentState) /\ Blankish(flash'[c], persistentState)
      BY <2>4, <2>9, CompleteIsBlankish
    <3>3. value' = persistentState
      BY <2>3, <2>4, <2>9 DEF WriteInv, AtStep, StepEffect, LastStep
    <3>4. ThreadInv'
      BY <2>2, <3>1, <3>2, <3>3 DEF ThreadInv, WriteInv, AtStep, HeadDone, Complete
    <3>5. IsrInv' /\ BurnSaved'
      BY <2>2, <2>6, <3>1, <3>2 DEF IsrInv, BurnSaved, Saved, Complete, isValidCrc
    <3> QED BY <1>t, <2>7, <2>8, <3>4, <3>5
  <2>10. CASE k # LastStep
    <3>1. isr' = k + 1 /\ k < LastStep /\ isr' # None /\ k \in 1 .. 6
      BY <2>2, <2>10, FlashValues DEF LastStep
    <3>2. WriteInv(k + 1)' /\ (k + 1 \in {4, 7} => ~locked')
      BY <2>4, <3>1
    <3>3. IsrInv'
      BY <3>1, <3>2 DEF IsrInv
    <3>4. BurnSaved'
      BY <3>1 DEF BurnSaved
    <3>5. ASSUME ThreadWriting PROVE Interrupted(thread.step)'
      <4>1. PICK j \in 1 .. LastStep : j = thread.step
        BY DEF TypeOK
      <4>2. Interrupted(j)
        BY <2>2, <3>5, <4>1 DEF ThreadInv
      <4>3. AtStep(j)'
        BY <2>2, <2>4, <4>2 DEF Interrupted, AtStep, StepEffect
      <4>4. j = 4 /\ isr' # 3 => HeadDone(1)'
        BY <2>1, <2>2, <2>4, <3>1, <3>2, <4>2 DEF Interrupted, StepEffect, HeadDone, WriteInv, Complete
      <4>5. j = 7 /\ isr' # 6 => HeadDone(2)'
        BY <2>1, <2>2, <2>4, <3>1, <3>2, <4>2 DEF Interrupted, StepEffect, HeadDone, WriteInv
      <4>6. j >= 5 /\ isr' \notin {3, 4} => Complete(flash[1], persistentState)'
        BY <2>1, <2>2, <2>4, <3>1, <3>2, <4>2 DEF Interrupted, StepEffect, WriteInv
      <4> QED BY <2>2, <4>1, <4>3, <4>4, <4>5, <4>6 DEF Interrupted
    <3>6. ThreadInv'
      BY <2>2, <3>1, <3>5 DEF ThreadInv, ThreadWriting
    <3> QED BY <1>t, <2>7, <2>8, <3>3, <3>4, <3>6
  <2> QED BY <2>9, <2>10
<1>11. CASE powerLoss
  <2>0. /\ isr' = None /\ thread' = Idle /\ burned' = burned /\ ~needToWriteConfiguration' /\ flash' = flash
        /\ ~powered' /\ lastHard' = None
    BY <1>11 DEF powerLoss
  <2>1. IsrInv' /\ ThreadInv' /\ CommandInv' /\ CommittedInv'
    BY <2>0 DEF IsrInv, ThreadInv, CommandInv, CommittedInv, ThreadWriting, Idle
  <2>2. CopiesInv' /\ BurnSaved'
    BY <2>0, CopiesStay DEF BurnSaved
  <2> QED BY <1>t, <2>1, <2>2
<1>12. CASE powerUp
  <2>0. /\ thread = Idle /\ isr = None /\ ~needToWriteConfiguration /\ lastHard = None
        /\ UNCHANGED <<needToWriteConfiguration, thread, isr, burned, lastHard, flash>> /\ powered'
    BY <1>12 DEF powerUp, CommandInv, storage
  <2>1. IsrInv' /\ ThreadInv' /\ CommandInv' /\ CommittedInv'
    BY <2>0 DEF IsrInv, ThreadInv, CommandInv, CommittedInv, ThreadWriting, Idle
  <2>2. CopiesInv' /\ BurnSaved'
    BY <2>0, CopiesStay DEF BurnSaved
  <2> QED BY <1>t, <2>1, <2>2
<1>13. CASE UNCHANGED vars
  BY <1>13, <1>t DEF vars, ram, storage, ghosts, IsrInv, ThreadInv, WriteInv, AtStep, Interrupted, HeadDone,
    ThreadWriting, CommandInv, CommittedInv, BurnedHard, CopiesInv, BurnSaved, Saved
<1> QED
  BY <1>1, <1>2, <1>3, <1>4, <1>5, <1>6, <1>7, <1>8, <1>9, <1>10, <1>11, <1>12, <1>13 DEF Next

\* The invariant holds when the ECU is first started.
LEMMA FlashInit == Init => FlashInv
<1> SUFFICES ASSUME Init PROVE FlashInv
  OBVIOUS
<1>1. PICK t \in Tunes :
        /\ persistentState = Whole(t)
        /\ flash = [c \in 1 .. 2 |-> [words |-> Whole(t), value |-> Whole(t)]]
        /\ burned = {Whole(t), Whole(Defaults)}
  BY DEF Init
<1>2. IsrInv /\ ThreadInv /\ CommandInv /\ BurnSaved
  BY DEF Init, IsrInv, ThreadInv, ThreadWriting, CommandInv, BurnSaved, Idle
<1>3. CommittedInv /\ CopiesInv
  BY <1>1 DEF Init, CommittedInv, CopiesInv, BurnedHard, ThreadWriting, Idle
<1> QED
  BY <1>2, <1>3, TypeInit DEF FlashInv

\* In every state the configuration of a copy with a valid CRC was complete when it was
\* burned, whatever interrupted its write: a nested write or a loss of power.
THEOREM ValidCopiesAreWhole ==
  ASSUME ~ChangesWhilePending PROVE Spec => []ValidIsWhole
<1>1. FlashInv => ValidIsWhole
  <2> SUFFICES ASSUME FlashInv, NEW c \in 1 .. 2, isValidCrc(flash[c])
               PROVE  \E b \in burned : Hard(b) = Hard(flash[c].words)
    BY DEF ValidIsWhole
  <2>1. flash[c].value # Erased
    BY FlashValues DEF FlashInv, TypeOK, isValidCrc
  <2> QED BY <2>1 DEF FlashInv, CopiesInv, BurnedHard
<1>2. FlashInv /\ [Next]_vars => FlashInv'
  BY FlashStep
<1> QED
  BY <1>1, <1>2, FlashInit, PTL DEF Spec

\* A burn is not lost: it is in both copies unless its write is pending or under way, and
\* also when the interrupt wrote in the middle of a thread's write.
THEOREM BurnIsSaved ==
  ASSUME ~ChangesWhilePending PROVE Spec => []BurnSaved
<1>1. FlashInv => BurnSaved
  BY DEF FlashInv
<1>2. FlashInv /\ [Next]_vars => FlashInv'
  BY FlashStep
<1> QED
  BY <1>1, <1>2, FlashInit, PTL DEF Spec

-----------------------------------------------------------------------------
(* The tune outlives a loss of power *)

\* A complete copy has a valid CRC.
LEMMA CompleteIsValid ==
  ASSUME NEW copy, NEW ps, Complete(copy, ps) PROVE isValidCrc(copy)
  BY DEF Complete, isValidCrc

\* A step of a write makes invalid only the copy that it is about to program.
LEMMA WriteKeeps ==
  ASSUME TypeOK, NEW k \in 1 .. LastStep, WriteInv(k), writeStep(k),
         persistentState' = persistentState,
         k \notin {3, 4} => isValidCrc(flash[1]), k \notin {6, 7} => isValidCrc(flash[2])
  PROVE  /\ k + 1 \notin {3, 4} => isValidCrc(flash'[1])
         /\ k + 1 \notin {6, 7} => isValidCrc(flash'[2])
<1>1. /\ k < LastStep => WriteInv(k + 1)'
      /\ k = LastStep => \A c \in 1 .. 2 : Complete(flash'[c], persistentState)
      /\ StepEffect(k)
  BY WriteAdvances
<1>2. k = LastStep => isValidCrc(flash'[1]) /\ isValidCrc(flash'[2])
  BY <1>1 DEF Complete, isValidCrc
<1>3. k = 4 => isValidCrc(flash'[1])
  BY <1>1 DEF WriteInv, Complete, isValidCrc, LastStep
<1>4. k \in 1 .. 7
  BY DEF LastStep
<1>5. k \notin {2, 3, 4} => flash'[1] = flash[1]
  BY <1>1 DEF StepEffect
<1>6. k \notin {5, 6, 7} => flash'[2] = flash[2]
  BY <1>1 DEF StepEffect
<1>7. k + 1 \notin {3, 4} => isValidCrc(flash'[1])
  BY <1>2, <1>3, <1>4, <1>5
<1>8. k + 1 \notin {6, 7} => isValidCrc(flash'[2])
  BY <1>2, <1>4, <1>6 DEF LastStep
<1> QED
  BY <1>7, <1>8

\* The inductive step: power fails while no write has interrupted another.
LEMMA TuneStep ==
  ASSUME ~ChangesWhilePending, ~NestedPowerLoss, TuneInv, [Next]_vars PROVE TuneInv'
<1>f. FlashInv' /\ FlashInv /\ TypeOK
  BY FlashStep DEF TuneInv, FlashInv
<1>1. ASSUME flash' = flash, powered', powered, wasReset' = wasReset, powerLosses' = powerLosses,
             powerLosses = 0 /\ (ThreadWriting' => isr' = None) =>
               /\ ThreadWriting => isr = None
               /\ ActiveStep \in {3, 4} => ActiveStep' = ActiveStep
               /\ ActiveStep \in {6, 7} => ActiveStep' = ActiveStep
      PROVE  TuneInv'
  <2>1. KeptInv' /\ OneLossInv' /\ powerLosses' \in Nat
    BY <1>1 DEF TuneInv, KeptInv, OneLossInv
  <2> QED BY <1>f, <2>1 DEF TuneInv
<1>2. CASE \/ \E p \in Part, t \in Tunes : handleWriteChunkCommand(p, t)
           \/ handleBurnCommand \/ writeConfigCommand \/ burnConfigCommand \/ resetConfigurationExt
  <2>1. /\ UNCHANGED <<flash, powered, wasReset, powerLosses>> /\ powered
        /\ isr = None /\ thread = Idle
    BY <1>2 DEF handleWriteChunkCommand, handleBurnCommand, writeConfigCommand, burnConfigCommand,
      resetConfigurationExt, ThreadRuns, storage, ghosts
  <2>2. ~ThreadWriting /\ ActiveStep = 0
    BY <2>1 DEF ThreadWriting, ActiveStep, Idle
  <2> QED BY <1>1, <2>1, <2>2
<1>3. CASE requestBurn \/ \E thenWrite \in BOOLEAN : setDefaultEngineConfiguration(thenWrite)
  <2>1. /\ UNCHANGED <<flash, powered, wasReset, powerLosses>> /\ powered
        /\ isr = None /\ thread.command \in {"burn", "reset"}
    BY <1>3 DEF requestBurn, setDefaultEngineConfiguration, ThreadRuns, storage, ghosts
  <2>2. ~ThreadWriting /\ ActiveStep = 0
    BY <2>1 DEF ThreadWriting, ActiveStep
  <2> QED BY <1>1, <2>1, <2>2
<1>4. CASE writeToFlashIfPending
  <2>1. /\ UNCHANGED <<flash, powered, wasReset, powerLosses, thread>> /\ powered
        /\ isr = None /\ isr' = 1 /\ isr' # None
    BY <1>4, FlashValues DEF writeToFlashIfPending, storage, ghosts
  <2>2. ~ThreadWriting' => ~ThreadWriting /\ ActiveStep = 0
    BY <2>1 DEF ThreadWriting, ActiveStep
  <2>3. (ThreadWriting' => isr' = None) => ActiveStep = 0 /\ isr = None
    BY <2>1, <2>2
  <2> QED BY <1>1, <2>1, <2>3
<1>5. CASE threadWrites
  <2>1. PICK k \in 1 .. LastStep : k = thread.step
    BY <1>f DEF TypeOK
  <2>2. /\ writeStep(k) /\ isr = None /\ isr' = None /\ ThreadWriting /\ powered /\ powered'
        /\ persistentState' = persistentState /\ UNCHANGED <<wasReset, powerLosses>>
    BY <1>5, <2>1 DEF threadWrites, ThreadRuns, ThreadWriting, ghosts
  <2>3. WriteInv(k) /\ ActiveStep = k
    BY <1>f, <2>1, <2>2 DEF FlashInv, ThreadInv, ActiveStep
  <2>4. ActiveStep' = IF k = LastStep THEN 0 ELSE k + 1
    BY <1>f, <1>5, <2>1, <2>2 DEF threadWrites, ActiveStep, ThreadWriting, Idle, TypeOK
  <2>5. KeptInv'
    <3> SUFFICES ASSUME powerLosses = 0
                 PROVE  /\ ActiveStep' \notin {3, 4} => isValidCrc(flash'[1])
                        /\ ActiveStep' \notin {6, 7} => isValidCrc(flash'[2])
      BY <2>2 DEF KeptInv
    <3>1. /\ k \notin {3, 4} => isValidCrc(flash[1])
          /\ k \notin {6, 7} => isValidCrc(flash[2])
      BY <2>2, <2>3 DEF TuneInv, KeptInv
    <3>2. /\ k + 1 \notin {3, 4} => isValidCrc(flash'[1])
          /\ k + 1 \notin {6, 7} => isValidCrc(flash'[2])
      BY <1>f, <2>2, <2>3, <3>1, WriteKeeps
    <3> QED BY <2>4, <3>2 DEF LastStep
  <2> QED BY <1>f, <2>2, <2>5 DEF TuneInv, OneLossInv
<1>6. CASE isrWrites
  <2>1. PICK k \in 1 .. LastStep : k = isr
    BY <1>6, <1>f DEF isrWrites, TypeOK
  <2>2. /\ writeStep(k) /\ powered /\ powered' /\ thread' = thread /\ isr # None
        /\ persistentState' = persistentState /\ UNCHANGED <<wasReset, powerLosses>>
        /\ isr' = IF k = LastStep THEN None ELSE k + 1
    BY <1>6, <2>1 DEF isrWrites, ghosts
  <2>3. WriteInv(k) /\ ActiveStep = k
    BY <1>f, <2>1, <2>2 DEF FlashInv, IsrInv, ActiveStep
  <2>4. k + 1 # None
    BY FlashValues DEF LastStep
  <2>5. KeptInv'
    <3>1. CASE k = LastStep
      <4>1. \A c \in 1 .. 2 : Complete(flash'[c], persistentState)
        BY <1>f, <2>2, <2>3, <3>1, WriteAdvances
      <4> QED BY <4>1 DEF KeptInv, Complete, isValidCrc
    <3>2. CASE k # LastStep
      <4> SUFFICES ASSUME powerLosses = 0, ~ThreadWriting
                   PROVE  /\ k + 1 \notin {3, 4} => isValidCrc(flash'[1])
                          /\ k + 1 \notin {6, 7} => isValidCrc(flash'[2])
        BY <2>2, <2>4, <3>2 DEF KeptInv, ActiveStep, ThreadWriting
      <4>1. /\ k \notin {3, 4} => isValidCrc(flash[1])
            /\ k \notin {6, 7} => isValidCrc(flash[2])
        BY <2>2, <2>3 DEF TuneInv, KeptInv
      <4> QED BY <1>f, <2>2, <2>3, <4>1, WriteKeeps
    <3> QED BY <3>1, <3>2
  <2> QED BY <1>f, <2>2, <2>5 DEF TuneInv, OneLossInv
<1>7. CASE powerLoss
  <2>1. /\ UNCHANGED <<flash, wasReset>> /\ powerLosses' = powerLosses + 1 /\ powered /\ ~powered'
        /\ ThreadWriting => isr = None
    BY <1>7 DEF powerLoss, ThreadWriting
  <2>2. powerLosses \in Nat /\ (powerLosses = 0 => isValidCrc(flash[1]) \/ isValidCrc(flash[2]))
    BY <2>1 DEF TuneInv, KeptInv
  <2>3. OneLossInv' /\ KeptInv' /\ powerLosses' \in Nat
    BY <2>1, <2>2 DEF TuneInv, OneLossInv, KeptInv
  <2> QED BY <1>f, <2>3 DEF TuneInv
<1>8. CASE powerUp
  <2>1. /\ UNCHANGED <<flash, powerLosses, thread, isr>> /\ ~powered /\ powered'
        /\ wasReset' = (wasReset \/ \A c \in 1 .. 2 : ~isValidCrc(flash[c]))
    BY <1>8 DEF powerUp, storage
  <2>2. KeptInv'
    BY <2>1 DEF TuneInv, KeptInv, ActiveStep, ThreadWriting
  <2>3. ASSUME powerLosses <= 1 PROVE ~wasReset'
    <3>1. \E c \in 1 .. 2 : isValidCrc(flash[c])
      BY <2>1, <2>3 DEF TuneInv, OneLossInv
    <3>2. ~wasReset
      BY <2>3 DEF TuneInv, OneLossInv
    <3> QED BY <2>1, <3>1, <3>2, Zenon
  <2>4. OneLossInv' /\ powerLosses' \in Nat
    BY <2>1, <2>3 DEF TuneInv, OneLossInv
  <2> QED BY <1>f, <2>2, <2>4 DEF TuneInv
<1>9. CASE UNCHANGED vars
  <2>1. UNCHANGED <<flash, powerLosses, thread, isr, powered, wasReset>>
    BY <1>9 DEF vars, storage, ghosts
  <2>2. KeptInv' /\ OneLossInv' /\ powerLosses' \in Nat
    BY <2>1 DEF TuneInv, KeptInv, OneLossInv, ActiveStep, ThreadWriting
  <2> QED BY <1>f, <2>2 DEF TuneInv
<1> QED
  BY <1>2, <1>3, <1>4, <1>5, <1>6, <1>7, <1>8, <1>9 DEF Next

\* "To preserve at least one copy of the tune in case of electrical issues": however often
\* the tune is changed and written, the first loss of power never resets it, unless it hits
\* a write that has interrupted another one.
THEOREM TuneSurvivesOneLoss ==
  ASSUME ~ChangesWhilePending, ~NestedPowerLoss
  PROVE  Spec => []TuneKept
<1>1. Init => TuneInv
  <2> SUFFICES ASSUME Init PROVE TuneInv
    OBVIOUS
  <2>1. isValidCrc(flash[1]) /\ isValidCrc(flash[2])
    BY DEF Init, isValidCrc
  <2> QED BY <2>1, FlashInit DEF Init, TuneInv, KeptInv, OneLossInv
<1>2. TuneInv /\ [Next]_vars => TuneInv'
  BY TuneStep
<1>3. TuneInv => TuneKept
  BY DEF TuneInv, OneLossInv, TuneKept
<1> QED
  BY <1>1, <1>2, <1>3, PTL DEF Spec

-----------------------------------------------------------------------------
(* Refinement of TuneStore *)

Saving == needToWriteConfiguration \/ isr # None \/ thread.command = "write"

\* What is pending or being written is the last commit.
SavingInv == Saving => lastHard = Hard(persistentState)

\* Until power fails, and unless a write has erased one of them, both copies hold the same
\* engine_configuration_s.
AgreeInv ==
  powerLosses = 0 /\ (ThreadWriting => isr = None) /\ ActiveStep \in 0 .. 2 =>
    Hard(flash[1].words) = Hard(flash[2].words)

StoreInv == TuneInv /\ SavingInv /\ AgreeInv

\* The engine_configuration_s of a configuration is a value of the cell.
LEMMA HardIsTune ==
  ASSUME NEW configuration \in Configuration
  PROVE  Hard(configuration) \in PartValue \X PartValue
  BY DEF Configuration, Hard, Part

\* Programming the head of copy 1 makes it neither valid nor invalid: what a power-up would
\* load stays.
LEMMA HeadKeepsRead ==
  ASSUME TypeOK, ProgramHead(1), Blankish(flash[1], persistentState)
  PROVE  readConfiguration' = readConfiguration
<1>1. 1 \in 1 .. 2 /\ 2 \in 1 .. 2
  OBVIOUS
<1>2. /\ flash' \in [1 .. 2 -> Copy] /\ flash'[2] = flash[2]
      /\ flash'[1].value = flash[1].value
      /\ flash[1].value # Erased => flash'[1] = flash[1]
  BY <1>1, HeadEffect
<1>3. flash[1].words \in FlashWords /\ flash'[1].words \in FlashWords
  BY <1>1, <1>2 DEF TypeOK, Copy
<1>4. CASE flash[1].value = Erased
  <2>1. ~isValidCrc(flash[1]) /\ ~isValidCrc(flash'[1])
    BY <1>2, <1>3, <1>4, FlashValues DEF isValidCrc
  <2> QED BY <1>2, <2>1 DEF readConfiguration
<1>5. CASE flash[1].value # Erased
  BY <1>2, <1>5 DEF readConfiguration
<1> QED BY <1>4, <1>5

\* Before power has failed, a write that runs alone changes what a power-up would load only
\* with the step that completes copy 1: while copy 1 is erased, copy 2 stands in for it.
LEMMA LoneWrite ==
  ASSUME TypeOK, NEW k \in 1 .. LastStep, WriteInv(k), writeStep(k),
         persistentState' = persistentState,
         k \notin {3, 4} => isValidCrc(flash[1]), k \notin {6, 7} => isValidCrc(flash[2]),
         k \in 1 .. 2 => Hard(flash[1].words) = Hard(flash[2].words)
  PROVE  /\ k # 4 => Hard(readConfiguration') = Hard(readConfiguration)
         /\ k \in 4 .. 7 => Hard(readConfiguration') = Hard(persistentState)
         /\ k \in 5 .. 7 => Hard(readConfiguration) = Hard(persistentState)
         /\ k = 1 => Hard(flash'[1].words) = Hard(flash'[2].words)
         /\ k = LastStep => Hard(flash'[1].words) = Hard(flash'[2].words)
<1>t. k \in 1 .. 7 /\ 1 \in 1 .. 2 /\ 2 \in 1 .. 2
  BY DEF LastStep
<1>a. /\ k < LastStep => WriteInv(k + 1)'
      /\ k = LastStep => \A c \in 1 .. 2 : Complete(flash'[c], persistentState)
      /\ StepEffect(k)
  BY WriteAdvances
<1>1. CASE k = 1
  <2>1. flash' = flash
    BY <1>1 DEF writeStep, flashStateCrc, storage
  <2> QED BY <1>1, <2>1 DEF readConfiguration, LastStep
<1>2. CASE k = 2
  <2>1. EraseCopy(1)
    BY <1>2 DEF writeStep
  <2>2. flash'[1].value = Erased /\ flash'[2] = flash[2] /\ flash' \in [1 .. 2 -> Copy]
    BY <1>t, <2>1, EraseEffect
  <2>3. ~isValidCrc(flash'[1])
    BY <1>t, <2>2, FlashValues DEF isValidCrc, Copy
  <2> QED BY <1>2, <2>2, <2>3 DEF readConfiguration, LastStep
<1>3. CASE k = 3
  <2>1. ProgramHead(1) /\ Blankish(flash[1], persistentState)
    BY <1>3 DEF writeStep, WriteInv, AtStep
  <2> QED BY <1>3, <2>1, HeadKeepsRead DEF LastStep
<1>4. CASE k = 4
  <2>1. Complete(flash'[1], persistentState)
    BY <1>4, <1>a DEF WriteInv, LastStep
  <2> QED BY <1>4, <2>1 DEF readConfiguration, Complete, isValidCrc, LastStep
<1>5. CASE k \in 5 .. 7
  <2>1. Complete(flash[1], persistentState) /\ flash'[1] = flash[1]
    BY <1>5, <1>a DEF WriteInv, StepEffect
  <2>2. readConfiguration = persistentState /\ readConfiguration' = persistentState
    BY <2>1 DEF readConfiguration, Complete, isValidCrc
  <2>3. k = LastStep => Hard(flash'[1].words) = Hard(flash'[2].words)
    BY <1>a, <1>t DEF Complete
  <2> QED BY <1>5, <2>2, <2>3
<1> QED
  BY <1>t, <1>1, <1>2, <1>3, <1>4, <1>5

\* What is saved remains the last commit: a command that replaces the configuration runs
\* only when nothing is pending.
LEMMA SavingStep ==
  ASSUME ~ChangesWhilePending, FlashInv, SavingInv, [Next]_vars PROVE SavingInv'
<1>t. TypeOK /\ CommandInv
  BY DEF FlashInv
<1>1. ASSUME NEW p \in Part, NEW t \in Tunes, handleWriteChunkCommand(p, t) PROVE SavingInv'
  <2>1. UNCHANGED <<needToWriteConfiguration, isr, thread, lastHard>>
    BY <1>1 DEF handleWriteChunkCommand, ghosts
  <2>2. Hard(persistentState') = Hard(persistentState)
    BY <1>1, <1>t DEF handleWriteChunkCommand, Hard, TypeOK, Configuration
  <2> QED BY <2>1, <2>2 DEF SavingInv, Saving
<1>2. CASE handleBurnCommand \/ resetConfigurationExt
  <2>1. ~needToWriteConfiguration' /\ isr' = None /\ thread'.command # "write"
    BY <1>2 DEF handleBurnCommand, resetConfigurationExt, ThreadRuns
  <2> QED BY <2>1 DEF SavingInv, Saving
<1>3. CASE requestBurn \/ writeConfigCommand \/ burnConfigCommand
  BY <1>3 DEF requestBurn, writeConfigCommand, burnConfigCommand, SavingInv
<1>4. ASSUME NEW thenWrite \in BOOLEAN, setDefaultEngineConfiguration(thenWrite) PROVE SavingInv'
  <2>1. CASE thenWrite
    BY <1>4, <2>1 DEF setDefaultEngineConfiguration, SavingInv
  <2>2. CASE ~thenWrite
    <3>1. ~needToWriteConfiguration' /\ isr' = None /\ thread' = Idle
      BY <1>4, <1>t, <2>2 DEF setDefaultEngineConfiguration, CommandInv, ThreadRuns
    <3> QED BY <3>1 DEF SavingInv, Saving, Idle
  <2> QED BY <2>1, <2>2
<1>5. CASE threadWrites
  <2>1. /\ UNCHANGED <<persistentState, lastHard>> /\ Saving
    BY <1>5 DEF threadWrites, ghosts, Saving
  <2> QED BY <2>1 DEF SavingInv
<1>6. CASE writeToFlashIfPending
  <2>1. UNCHANGED <<persistentState, lastHard>> /\ Saving
    BY <1>6 DEF writeToFlashIfPending, ghosts, Saving
  <2> QED BY <2>1 DEF SavingInv
<1>7. CASE isrWrites
  <2>1. UNCHANGED <<persistentState, lastHard>> /\ Saving
    BY <1>7 DEF isrWrites, ghosts, Saving
  <2> QED BY <2>1 DEF SavingInv
<1>8. CASE powerLoss
  BY <1>8 DEF powerLoss, SavingInv, Saving, Idle
<1>9. CASE powerUp
  <2>1. thread' = Idle /\ isr' = None /\ ~needToWriteConfiguration'
    BY <1>9, <1>t DEF powerUp, CommandInv
  <2> QED BY <2>1 DEF SavingInv, Saving, Idle
<1>10. CASE UNCHANGED vars
  BY <1>10 DEF vars, ram, ghosts, SavingInv, Saving, Hard
<1> QED
  BY <1>1, <1>2, <1>3, <1>4, <1>5, <1>6, <1>7, <1>8, <1>9, <1>10 DEF Next

\* A write in progress: the thread's, or the interrupt's.
LEMMA ThreadWriteFacts ==
  ASSUME FlashInv, threadWrites
  PROVE  /\ thread.step \in 1 .. LastStep /\ writeStep(thread.step) /\ WriteInv(thread.step)
         /\ isr = None /\ isr' = None /\ ThreadWriting /\ Saving /\ powered /\ powered'
         /\ UNCHANGED <<persistentState, needToWriteConfiguration, lastHard, powerLosses>>
         /\ ActiveStep = thread.step
         /\ thread' = IF thread.step = LastStep THEN Idle ELSE [thread EXCEPT !.step = @ + 1]
         /\ ActiveStep' = IF thread.step = LastStep THEN 0 ELSE thread.step + 1
<1>1. TypeOK /\ ThreadInv
  BY DEF FlashInv
<1>2. /\ writeStep(thread.step) /\ isr = None /\ isr' = None /\ ThreadWriting /\ Saving
      /\ powered /\ powered'
      /\ UNCHANGED <<persistentState, needToWriteConfiguration, lastHard, powerLosses>>
      /\ thread' = IF thread.step = LastStep THEN Idle ELSE [thread EXCEPT !.step = @ + 1]
  BY DEF threadWrites, ThreadRuns, ThreadWriting, Saving, ghosts
<1>3. thread.step \in 1 .. LastStep
  BY <1>1 DEF TypeOK
<1>4. WriteInv(thread.step) /\ ActiveStep = thread.step
  BY <1>1, <1>2 DEF ThreadInv, ActiveStep
<1>5. ActiveStep' = IF thread.step = LastStep THEN 0 ELSE thread.step + 1
  BY <1>1, <1>2 DEF ActiveStep, ThreadWriting, Idle, TypeOK
<1> QED BY <1>2, <1>3, <1>4, <1>5

\* The same for the interrupt.
LEMMA IsrWriteFacts ==
  ASSUME FlashInv, isrWrites
  PROVE  /\ isr \in 1 .. LastStep /\ writeStep(isr) /\ WriteInv(isr)
         /\ isr # None /\ Saving /\ powered /\ powered'
         /\ UNCHANGED <<persistentState, needToWriteConfiguration, thread, lastHard, powerLosses>>
         /\ ActiveStep = isr
         /\ isr' = IF isr = LastStep THEN None ELSE isr + 1
         /\ isr # LastStep => isr' # None /\ ActiveStep' = isr + 1
<1>1. TypeOK /\ IsrInv
  BY DEF FlashInv
<1>2. /\ writeStep(isr) /\ isr # None /\ Saving /\ powered /\ powered'
      /\ UNCHANGED <<persistentState, needToWriteConfiguration, thread, lastHard, powerLosses>>
      /\ isr' = IF isr = LastStep THEN None ELSE isr + 1
  BY DEF isrWrites, Saving, ghosts
<1>3. isr \in 1 .. LastStep
  BY <1>1, <1>2 DEF TypeOK
<1>4. WriteInv(isr) /\ ActiveStep = isr
  BY <1>1, <1>2 DEF IsrInv, ActiveStep
<1>5. isr # LastStep => isr' # None /\ ActiveStep' = isr + 1
  BY <1>2, <1>3, FlashValues DEF ActiveStep, LastStep
<1> QED BY <1>2, <1>3, <1>4, <1>5

\* The two copies agree whenever no write is past its first step.
LEMMA AgreeStep ==
  ASSUME FlashInv, KeptInv, AgreeInv, powerLosses \in Nat, [Next]_vars PROVE AgreeInv'
<1>t. TypeOK /\ CommandInv
  BY DEF FlashInv
<1>0. ASSUME flash' = flash, powerLosses' = powerLosses,
             (ThreadWriting' => isr' = None) /\ ActiveStep' \in 0 .. 2 =>
               (ThreadWriting => isr = None) /\ ActiveStep \in 0 .. 2
      PROVE  AgreeInv'
  BY <1>0 DEF AgreeInv
<1>1. CASE \/ \E p \in Part, t \in Tunes : handleWriteChunkCommand(p, t)
           \/ handleBurnCommand \/ writeConfigCommand \/ burnConfigCommand \/ resetConfigurationExt
           \/ requestBurn \/ \E thenWrite \in BOOLEAN : setDefaultEngineConfiguration(thenWrite)
  <2>1. /\ UNCHANGED <<flash, powerLosses>> /\ isr = None
        /\ thread = Idle \/ thread.command \in {"burn", "reset"}
    BY <1>1 DEF handleWriteChunkCommand, handleBurnCommand, writeConfigCommand, burnConfigCommand,
      resetConfigurationExt, requestBurn, setDefaultEngineConfiguration, ThreadRuns, storage
  <2>2. ~ThreadWriting /\ ActiveStep = 0
    BY <2>1 DEF ThreadWriting, ActiveStep, Idle
  <2> QED BY <1>0, <2>1, <2>2
<1>2. CASE writeToFlashIfPending
  <2>1. UNCHANGED <<flash, powerLosses, thread>> /\ isr = None /\ isr' # None
    BY <1>2, FlashValues DEF writeToFlashIfPending, storage
  <2>2. (ThreadWriting' => isr' = None) => ActiveStep = 0
    BY <2>1 DEF ThreadWriting, ActiveStep
  <2> QED BY <1>0, <2>1, <2>2
<1>3. CASE threadWrites
  <2>1. PICK k \in 1 .. LastStep : k = thread.step
    BY <1>t DEF TypeOK
  <2>2. /\ writeStep(k) /\ WriteInv(k) /\ ActiveStep = k /\ isr = None
        /\ powerLosses' = powerLosses /\ persistentState' = persistentState
        /\ ActiveStep' = IF k = LastStep THEN 0 ELSE k + 1
    BY <1>3, <2>1, ThreadWriteFacts
  <2>3. CASE k = LastStep
    <3>1. \A c \in 1 .. 2 : Complete(flash'[c], persistentState)
      BY <1>t, <2>2, <2>3, WriteAdvances
    <3> QED BY <3>1 DEF AgreeInv, Complete
  <2>4. CASE k = 1
    <3>1. flash' = flash
      BY <2>2, <2>4 DEF writeStep, flashStateCrc, storage
    <3> QED BY <1>0, <2>2, <2>4, <3>1
  <2>5. CASE k \notin {1, LastStep}
    <3>1. ActiveStep' \notin 0 .. 2
      BY <2>2, <2>5 DEF LastStep
    <3> QED BY <3>1 DEF AgreeInv
  <2> QED BY <2>3, <2>4, <2>5
<1>4. CASE isrWrites
  <2>1. PICK k \in 1 .. LastStep : k = isr
    BY <1>4, IsrWriteFacts
  <2>2. /\ writeStep(k) /\ WriteInv(k) /\ ActiveStep = k /\ thread' = thread
        /\ powerLosses' = powerLosses /\ persistentState' = persistentState
        /\ k # LastStep => isr' # None /\ ActiveStep' = k + 1
    BY <1>4, <2>1, IsrWriteFacts
  <2>3. CASE k = LastStep
    <3>1. \A c \in 1 .. 2 : Complete(flash'[c], persistentState)
      BY <1>t, <2>2, <2>3, WriteAdvances
    <3> QED BY <3>1 DEF AgreeInv, Complete
  <2>4. CASE k = 1
    <3>1. flash' = flash
      BY <2>2, <2>4 DEF writeStep, flashStateCrc, storage
    <3>2. (ThreadWriting' => isr' = None) => ~ThreadWriting
      BY <2>2, <2>4 DEF ThreadWriting, LastStep
    <3> QED BY <1>0, <2>2, <2>4, <3>1, <3>2
  <2>5. CASE k \notin {1, LastStep}
    <3>1. ActiveStep' \notin 0 .. 2
      BY <2>2, <2>5 DEF LastStep
    <3> QED BY <3>1 DEF AgreeInv
  <2> QED BY <2>3, <2>4, <2>5
<1>5. CASE powerLoss
  BY <1>5 DEF powerLoss, AgreeInv
<1>6. CASE powerUp
  <2>1. UNCHANGED <<flash, powerLosses, thread, isr>>
    BY <1>6 DEF powerUp, storage
  <2> QED BY <2>1 DEF AgreeInv, ThreadWriting, ActiveStep
<1>7. CASE UNCHANGED vars
  <2>1. UNCHANGED <<flash, powerLosses, thread, isr>>
    BY <1>7 DEF vars, storage
  <2> QED BY <2>1 DEF AgreeInv, ThreadWriting, ActiveStep
<1> QED
  BY <1>1, <1>2, <1>3, <1>4, <1>5, <1>6, <1>7 DEF Next

\* Nothing that the cell's user can see has changed.
LEMMA Stutter ==
  ASSUME storedHard' = storedHard, Hard(persistentState)' = Hard(persistentState),
         lastHard' = lastHard, Saving' = Saving, powered' = powered, powerLosses' = powerLosses
  PROVE  [Store!Next]_(Store!vars)
  BY DEF Store!vars, Saving

\* A step of a write that no other write is waiting for is Save, Finish or invisible.
LEMMA WriteImplements ==
  ASSUME StoreInv, NEW k \in 1 .. LastStep, WriteInv(k), writeStep(k), ActiveStep = k,
         Saving, ThreadWriting => isr = None, ThreadWriting' => isr' = None,
         UNCHANGED <<persistentState, needToWriteConfiguration, lastHard, powered, powerLosses>>,
         powered, WriteBegun <=> k > 1,
         k # LastStep => Saving' /\ WriteBegun',
         k = LastStep => ~WriteBegun' /\ ~ThreadWriting' /\ isr' = None
  PROVE  [Store!Next]_(Store!vars)
<1>t. /\ k \in 1 .. 7 /\ LastStep = 7 /\ TypeOK /\ lastHard = Hard(persistentState)
      /\ powerLosses \in Nat
  BY DEF LastStep, StoreInv, TuneInv, FlashInv, SavingInv
<1>h. Hard(persistentState)' = Hard(persistentState)
  BY DEF Hard
<1>1. ASSUME storedHard' = storedHard, k # LastStep PROVE [Store!Next]_(Store!vars)
  <2>1. Saving' = Saving
    BY <1>1 DEF Saving
  <2> QED BY <1>1, <1>h, <2>1, Stutter
<1>2. ASSUME storedHard' = Hard(persistentState), k # LastStep PROVE [Store!Next]_(Store!vars)
  <2>1. Saving' = Saving
    BY <1>2 DEF Saving
  <2>2. Store!Save
    BY <1>2, <1>h, <1>t, <2>1 DEF Store!Save, Saving
  <2> QED BY <2>2 DEF Store!Next
<1>3. ASSUME storedHard' = storedHard, storedHard = Hard(persistentState), k = LastStep
      PROVE  [Store!Next]_(Store!vars)
  <2>1. CASE needToWriteConfiguration
    <3>1. Saving' = Saving
      BY <2>1 DEF Saving
    <3> QED BY <1>3, <1>h, <3>1, Stutter
  <2>2. CASE ~needToWriteConfiguration
    <3>1. Saving' = FALSE
      BY <1>3, <2>2 DEF Saving, ThreadWriting
    <3>2. Store!Finish
      BY <1>3, <1>h, <1>t, <3>1 DEF Store!Finish, Saving
    <3> QED BY <3>2 DEF Store!Next
  <2> QED BY <2>1, <2>2
<1>4. CASE powerLosses = 0
  <2>1. storedHard = Hard(readConfiguration) /\ storedHard' = Hard(readConfiguration')
    BY <1>4 DEF storedHard, ThreadWriting, Hard
  <2>2. /\ k \notin {3, 4} => isValidCrc(flash[1])
        /\ k \notin {6, 7} => isValidCrc(flash[2])
        /\ k \in 1 .. 2 => Hard(flash[1].words) = Hard(flash[2].words)
    BY <1>4 DEF StoreInv, TuneInv, KeptInv, AgreeInv
  <2>3. /\ k # 4 => Hard(readConfiguration') = Hard(readConfiguration)
        /\ k \in 4 .. 7 => Hard(readConfiguration') = Hard(persistentState)
        /\ k \in 5 .. 7 => Hard(readConfiguration) = Hard(persistentState)
    BY <1>t, <2>2, LoneWrite
  <2> QED BY <1>t, <1>1, <1>2, <1>3, <2>1, <2>3
<1>5. CASE powerLosses # 0
  <2>1. powerLosses > 0
    BY <1>5, <1>t
  <2>2. k # 1 => storedHard = Hard(persistentState)
    BY <1>t, <2>1 DEF storedHard
  <2>3. CASE k # LastStep
    <3>1. storedHard' = Hard(persistentState)
      BY <1>h, <2>1, <2>3 DEF storedHard
    <3> QED BY <1>2, <2>3, <3>1
  <2>4. CASE k = LastStep
    <3>1. \A c \in 1 .. 2 : Complete(flash'[c], persistentState)
      BY <1>t, <2>4, WriteAdvances
    <3>2. readConfiguration' = persistentState
      BY <3>1 DEF readConfiguration, Complete, isValidCrc
    <3>3. storedHard' = Hard(persistentState)
      BY <2>4, <3>2 DEF storedHard, ThreadWriting, Hard
    <3> QED BY <1>3, <1>t, <2>2, <2>4, <3>3
  <2> QED BY <2>3, <2>4
<1> QED BY <1>4, <1>5

\* Every step of the code is a step of the cell, or invisible to its user.
LEMMA StepImplements ==
  ASSUME ~ChangesWhilePending, ~NestedPowerLoss, StoreInv, [Next]_vars
  PROVE  [Store!Next]_(Store!vars)
<1>t. /\ TypeOK /\ CommandInv /\ FlashInv /\ powerLosses \in Nat
      /\ persistentState \in Configuration /\ configWorkingCopy \in Configuration
  BY DEF StoreInv, TuneInv, FlashInv, TypeOK
<1>i. FlashInv' /\ persistentState' \in Configuration
  BY <1>t, FlashStep DEF FlashInv, TypeOK
<1>h. Hard(persistentState)' \in PartValue \X PartValue
  BY <1>i, HardIsTune DEF Hard
\* A command of a thread that is not writing leaves the cell alone.
<1>c. ASSUME isr = None, isr' = None, flash' = flash, thread = Idle \/ thread.command \in {"burn", "reset"},
             thread'.command = "write" => thread'.step = 1
      PROVE  storedHard' = storedHard
  <2>1. thread.command # "write"
    BY <1>c DEF Idle
  <2>2. storedHard = Hard(readConfiguration)
    BY <1>c, <2>1 DEF storedHard, WriteBegun
  <2>3. storedHard' = Hard(readConfiguration')
    BY <1>c DEF storedHard, WriteBegun, Hard
  <2> QED BY <1>c, <2>2, <2>3 DEF readConfiguration
<1>1. ASSUME NEW p \in Part, NEW t \in Tunes, handleWriteChunkCommand(p, t)
      PROVE  [Store!Next]_(Store!vars)
  <2>1. /\ UNCHANGED <<needToWriteConfiguration, isr, thread, lastHard, powered, powerLosses, flash>>
        /\ isr = None /\ thread = Idle
    BY <1>1 DEF handleWriteChunkCommand, ThreadRuns, ghosts, storage
  <2>2. Hard(persistentState)' = Hard(persistentState)
    BY <1>1, <1>t DEF handleWriteChunkCommand, Hard, Configuration
  <2>3. storedHard' = storedHard
    BY <1>c, <2>1 DEF Idle
  <2> QED BY <2>1, <2>2, <2>3, Stutter DEF Saving
<1>2. CASE handleBurnCommand \/ resetConfigurationExt
  <2>1. /\ UNCHANGED <<lastHard, powered, powerLosses, flash>> /\ powered
        /\ isr = None /\ isr' = None /\ ~needToWriteConfiguration /\ ~needToWriteConfiguration'
        /\ thread = Idle /\ thread'.command \in {"burn", "reset"}
    BY <1>2 DEF handleBurnCommand, resetConfigurationExt, ThreadRuns, storage, ghosts
  <2>2. storedHard' = storedHard
    BY <1>c, <2>1
  <2>3. Saving = FALSE /\ Saving' = FALSE
    BY <2>1 DEF Saving, Idle
  <2>4. Store!Change
    BY <1>h, <2>1, <2>2, <2>3 DEF Store!Change, Saving
  <2> QED BY <2>4 DEF Store!Next
<1>3. CASE requestBurn \/ writeConfigCommand \/ burnConfigCommand
           \/ setDefaultEngineConfiguration(TRUE)
  <2>1. /\ UNCHANGED <<powered, powerLosses, flash>> /\ powered /\ isr = None /\ isr' = None
        /\ thread = Idle \/ thread.command \in {"burn", "reset"}
        /\ thread'.command = "write" => thread'.step = 1
        /\ needToWriteConfiguration' \/ thread'.command = "write"
        /\ lastHard' = Hard(persistentState')
        /\ persistentState' = persistentState \/ thread.command \in {"burn", "reset"}
    BY <1>3 DEF requestBurn, writeConfigCommand, burnConfigCommand, setDefaultEngineConfiguration,
      ThreadRuns, storage, Idle
  <2>2. storedHard' = storedHard
    BY <1>c, <2>1
  <2>3. Saving' = TRUE /\ (Saving => persistentState' = persistentState)
    BY <1>t, <2>1 DEF Saving, CommandInv
  <2>4. Store!Commit
    BY <1>h, <2>1, <2>2, <2>3 DEF Store!Commit, Saving, Hard
  <2> QED BY <2>4 DEF Store!Next
<1>4. CASE setDefaultEngineConfiguration(FALSE)
  <2>1. /\ UNCHANGED <<powered, powerLosses, flash>> /\ powered /\ isr = None /\ isr' = None
        /\ thread.command = "reset" /\ thread' = Idle
        /\ needToWriteConfiguration' = needToWriteConfiguration /\ lastHard' = None
    BY <1>4 DEF setDefaultEngineConfiguration, ThreadRuns, storage
  <2>2. storedHard' = storedHard
    BY <1>c, <2>1 DEF Idle
  <2>3. Saving = FALSE /\ Saving' = FALSE
    BY <1>t, <2>1 DEF Saving, Idle, CommandInv
  <2>4. Store!Change
    BY <1>h, <2>1, <2>2, <2>3 DEF Store!Change, Saving
  <2> QED BY <2>4 DEF Store!Next
<1>5. CASE threadWrites
  <2>1. PICK k \in 1 .. LastStep : k = thread.step
    BY <1>t DEF TypeOK
  <2>2. /\ writeStep(k) /\ WriteInv(k) /\ ActiveStep = k /\ isr = None /\ isr' = None
        /\ UNCHANGED <<persistentState, needToWriteConfiguration, lastHard, powered, powerLosses>>
        /\ powered /\ Saving /\ thread.command = "write"
        /\ thread' = IF k = LastStep THEN Idle ELSE [thread EXCEPT !.step = @ + 1]
    BY <1>5, <1>t, <2>1, ThreadWriteFacts DEF ThreadWriting, threadWrites
  <2>3. WriteBegun <=> k > 1
    BY <2>1, <2>2 DEF WriteBegun
  <2>4. k # LastStep => thread'.command = "write" /\ thread'.step = k + 1
    BY <1>t, <2>1, <2>2 DEF TypeOK
  <2>5. k # LastStep => Saving' /\ WriteBegun'
    BY <2>1, <2>4 DEF Saving, WriteBegun, LastStep
  <2>6. k = LastStep => ~WriteBegun' /\ ~ThreadWriting' /\ isr' = None
    BY <2>2 DEF WriteBegun, ThreadWriting, Idle
  <2> QED BY <2>2, <2>3, <2>5, <2>6, WriteImplements
<1>6. CASE writeToFlashIfPending
  <2>1. /\ UNCHANGED <<persistentState, lastHard, powered, powerLosses, flash, thread>> /\ powered
        /\ isr = None /\ isr' = 1 /\ isr' # None /\ Saving = TRUE /\ Saving' = TRUE
    BY <1>6, FlashValues DEF writeToFlashIfPending, storage, ghosts, Saving
  <2>2. Hard(persistentState)' = Hard(persistentState) /\ lastHard = Hard(persistentState)
    BY <2>1 DEF Hard, StoreInv, SavingInv
  <2>3. CASE ThreadWriting
    <3>1. storedHard' = Hard(persistentState)
      BY <2>1, <2>2, <2>3 DEF storedHard, ThreadWriting
    <3>2. Store!Save
      BY <2>1, <2>2, <3>1 DEF Store!Save, Saving
    <3> QED BY <3>2 DEF Store!Next
  <2>4. CASE ~ThreadWriting
    <3>1. storedHard' = storedHard
      BY <2>1, <2>2, <2>4 DEF storedHard, ThreadWriting, WriteBegun, readConfiguration
    <3> QED BY <2>1, <2>2, <3>1, Stutter
  <2> QED BY <2>3, <2>4
<1>7. CASE isrWrites
  <2>1. PICK k \in 1 .. LastStep : k = isr
    BY <1>7, <1>t, IsrWriteFacts
  <2>2. /\ writeStep(k) /\ WriteInv(k) /\ ActiveStep = k /\ isr # None /\ thread' = thread
        /\ UNCHANGED <<persistentState, needToWriteConfiguration, lastHard, powered, powerLosses>>
        /\ powered /\ Saving
        /\ isr' = IF k = LastStep THEN None ELSE k + 1
        /\ k # LastStep => isr' # None
    BY <1>7, <1>t, <2>1, IsrWriteFacts DEF isrWrites
  <2>3. Hard(persistentState)' = Hard(persistentState)
    BY <2>2 DEF Hard
  <2>4. CASE ThreadWriting
    <3>1. storedHard = Hard(persistentState)
      BY <2>2, <2>4 DEF storedHard, ThreadWriting
    <3>2. k # LastStep => storedHard' = Hard(persistentState)
      BY <2>2, <2>3, <2>4 DEF storedHard, ThreadWriting
    <3>3. ASSUME k = LastStep PROVE storedHard' = Hard(persistentState)
      <4>1. \A c \in 1 .. 2 : Complete(flash'[c], persistentState)
        BY <1>t, <2>2, <3>3, WriteAdvances
      <4>2. readConfiguration' = persistentState
        BY <4>1 DEF readConfiguration, Complete, isValidCrc
      <4> QED BY <2>3, <4>2 DEF storedHard, Hard
    <3>4. Saving' = Saving
      BY <2>2, <2>4 DEF Saving, ThreadWriting
    <3> QED BY <2>2, <2>3, <3>1, <3>2, <3>3, <3>4, Stutter
  <2>5. CASE ~ThreadWriting
    <3>1. WriteBegun <=> k > 1
      BY <2>1, <2>2, <2>5 DEF WriteBegun, ThreadWriting
    <3>2. k # LastStep => Saving' /\ WriteBegun'
      BY <2>1, <2>2 DEF Saving, WriteBegun, LastStep
    <3>3. ~ThreadWriting' /\ (k = LastStep => ~WriteBegun' /\ isr' = None)
      BY <2>2, <2>5 DEF WriteBegun, ThreadWriting
    <3> QED BY <2>2, <2>5, <3>1, <3>2, <3>3, WriteImplements
  <2> QED BY <2>4, <2>5
<1>8. CASE powerLoss
  <2>1. /\ UNCHANGED <<persistentState, flash>> /\ powerLosses' = powerLosses + 1
        /\ powered /\ powered' = FALSE /\ lastHard' = None
        /\ thread' = Idle /\ isr' = None /\ ~needToWriteConfiguration'
        /\ thread.command = "write" => isr = None
    BY <1>8 DEF powerLoss
  <2>2. Hard(persistentState)' = Hard(persistentState) /\ Saving' = FALSE
    BY <2>1 DEF Hard, Saving, Idle
  <2>3. storedHard' = Hard(readConfiguration)
    BY <2>1 DEF storedHard, WriteBegun, Idle, readConfiguration, Hard
  <2>4. CASE powerLosses > 0 /\ WriteBegun
    <3>1. Saving
      BY <2>4 DEF WriteBegun, Saving
    <3>2. storedHard' \in PartValue \X PartValue
      BY <1>t, <2>3, ReadIsConfiguration, HardIsTune
    <3>3. Store!PowerLoss
      BY <2>1, <2>2, <2>4, <3>1, <3>2 DEF Store!PowerLoss, Saving
    <3> QED BY <3>3 DEF Store!Next
  <2>5. CASE ~(powerLosses > 0 /\ WriteBegun)
    <3>1. storedHard' = storedHard
      BY <2>1, <2>3, <2>5 DEF storedHard
    <3>2. Store!PowerLoss
      BY <2>1, <2>2, <3>1 DEF Store!PowerLoss, Saving
    <3> QED BY <3>2 DEF Store!Next
  <2> QED BY <2>4, <2>5
<1>9. CASE powerUp
  <2>1. /\ UNCHANGED <<needToWriteConfiguration, thread, isr, lastHard, powerLosses, flash>>
        /\ ~powered /\ powered' = TRUE /\ persistentState' = readConfiguration
        /\ thread = Idle /\ isr = None /\ ~needToWriteConfiguration
    BY <1>9, <1>t DEF powerUp, storage, CommandInv
  <2>2. storedHard = Hard(readConfiguration) /\ storedHard' = storedHard
    BY <2>1 DEF storedHard, WriteBegun, Idle, readConfiguration, Hard
  <2>3. Hard(persistentState)' = storedHard /\ Saving' = Saving
    BY <2>1, <2>2 DEF Hard, Saving
  <2>4. Store!PowerUp
    BY <2>1, <2>2, <2>3 DEF Store!PowerUp, Saving
  <2> QED BY <2>4 DEF Store!Next
<1>10. CASE UNCHANGED vars
  <2>1. UNCHANGED <<persistentState, lastHard, powered, powerLosses, flash, thread, isr,
                    needToWriteConfiguration>>
    BY <1>10 DEF vars, ram, storage, ghosts
  <2>2. storedHard' = storedHard /\ Hard(persistentState)' = Hard(persistentState) /\ Saving' = Saving
    BY <2>1 DEF storedHard, Hard, Saving, WriteBegun, readConfiguration
  <2> QED BY <2>1, <2>2, Stutter
<1> QED
  BY <1>1, <1>2, <1>3, <1>4, <1>5, <1>6, <1>7, <1>8, <1>9, <1>10 DEF Next

\* The promise of the two copies: with erasing and programming in steps, a write that
\* interrupts another and losses of power, they are one cell.  It changes only to the last
\* commit and only while that is being saved, a save ends only when the cell holds it, and
\* the first loss of power leaves the cell alone whenever it comes, unless one write had
\* interrupted another.
THEOREM FlashRefinement ==
  ASSUME ~ChangesWhilePending, ~NestedPowerLoss
  PROVE  Spec => ImplementsTuneStore
<1>1. Init => StoreInv
  <2> SUFFICES ASSUME Init PROVE StoreInv
    OBVIOUS
  <2>1. isValidCrc(flash[1]) /\ isValidCrc(flash[2]) /\ flash[1].words = flash[2].words
    BY DEF Init, isValidCrc
  <2>2. TuneInv
    BY <2>1, FlashInit DEF Init, TuneInv, KeptInv, OneLossInv
  <2>3. SavingInv /\ AgreeInv
    BY <2>1 DEF Init, SavingInv, Saving, AgreeInv, Idle
  <2> QED BY <2>2, <2>3 DEF StoreInv
<1>2. StoreInv /\ [Next]_vars => StoreInv'
  BY TuneStep, SavingStep, AgreeStep DEF StoreInv, TuneInv
<1>3. Init => Store!Init
  <2> SUFFICES ASSUME Init PROVE Store!Init
    OBVIOUS
  <2>1. PICK t \in Tunes :
          /\ persistentState = Whole(t)
          /\ flash = [c \in 1 .. 2 |-> [words |-> Whole(t), value |-> Whole(t)]]
    BY DEF Init
  <2>2. readConfiguration = persistentState
    BY <2>1 DEF readConfiguration, isValidCrc
  <2>3. storedHard = Hard(persistentState) /\ ~Saving
    BY <2>2 DEF Init, storedHard, WriteBegun, Saving, Idle
  <2>4. persistentState \in Configuration
    BY TypeInit DEF TypeOK
  <2> QED BY <2>3, <2>4, HardIsTune DEF Init, Store!Init, Saving
<1>4. StoreInv /\ [Next]_vars => [Store!Next]_(Store!vars)
  BY StepImplements
<1> QED
  BY <1>1, <1>2, <1>3, <1>4, PTL DEF Spec, ImplementsTuneStore, Store!Spec
=============================================================================
