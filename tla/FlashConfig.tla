----------------------------- MODULE FlashConfig -----------------------------
(***************************************************************************)
(* The tune in internal flash: TunerStudio changes and burns it, the slow  *)
(* callback (an interrupt) writes it to two copies once the engine is      *)
(* stopped, console commands write it at once, power may fail at any step, *)
(* and at power-up the first copy with a valid CRC is read.  Threads do    *)
(* not preempt each other (CH_CFG_TIME_QUANTUM is 0), interrupts preempt   *)
(* threads.  engine_configuration_s ("head" and "rest" of it) takes effect *)
(* with a burn, the "tables" behind it at once.  A CRC is modelled by the  *)
(* content it was computed of.                                             *)
(***************************************************************************)
EXTENDS Naturals

CONSTANTS Tunes,            \* values of a part
          Defaults, Zero,   \* parts after setDefaultEngineConfiguration, after its memset
          Erased, Garbage,  \* contents of flash words
          None,
          ChangesWhilePending, \* may a burn or reset replace the configuration while
                               \* a write is pending
          NestedPowerLoss,  \* may power fail while a write has interrupted another
          ConsoleWrites,    \* are there console commands that write at once
          MaxChanges,       \* model bound: commands that change the tune
          MaxPowerLosses    \* model bound: times that power fails

ASSUME FlashAssumption ==
  /\ {ChangesWhilePending, NestedPowerLoss, ConsoleWrites} \subseteq BOOLEAN
  /\ MaxChanges \in Nat /\ MaxPowerLosses \in Nat

Part == {"head", "rest", "tables"}
PartValue == Tunes \cup {Defaults, Zero}
Configuration == [Part -> PartValue]
FlashWords == [Part -> PartValue \cup {Erased, Garbage}]

\* Erased and half-programmed words are no CRC of any words.
ASSUME FlashValues == {Erased, Garbage} \cap FlashWords = {} /\ None \notin Nat

Whole(t) == [p \in Part |-> t]
Hard(configuration) == <<configuration["head"], configuration["rest"]>>

VARIABLES
  persistentState,   \* the configuration in RAM, used by the engine
  configWorkingCopy, \* the communication layer's copy
  value,             \* persistentState.value: what the CRC was computed of
  needToWriteConfiguration,
  flash,             \* the two copies: words and CRC
  locked,            \* FLASH_CR_LOCK
  thread,            \* the command under way in a thread, and its next step
  isr,               \* next step of the write by the slow callback, or None
  powered,
  burned,            \* configurations that were complete when they were committed
  lastHard,          \* Hard of the last burn or write since power-up
  wasReset,          \* did power-up find no valid copy
  changes, powerLosses

ram == <<persistentState, configWorkingCopy, value, needToWriteConfiguration>>
storage == <<flash, locked>>
ghosts == <<burned, lastHard, wasReset>>
vars == <<ram, storage, thread, isr, powered, ghosts, changes, powerLosses>>

Idle == [command |-> "idle", step |-> 1]
ErasedCopy == [words |-> [p \in Part |-> Erased], value |-> Erased]

isValidCrc(copy) == copy.value = copy.words

Init ==
  /\ \E t \in Tunes :
       /\ persistentState = Whole(t)
       /\ flash = [c \in 1 .. 2 |-> [words |-> Whole(t), value |-> Whole(t)]]
       /\ burned = {Whole(t), Whole(Defaults)}
  /\ configWorkingCopy = persistentState
  /\ value = persistentState
  /\ needToWriteConfiguration = FALSE
  /\ locked = TRUE
  /\ thread = Idle /\ isr = None
  /\ powered = TRUE
  /\ lastHard = None /\ wasReset = FALSE
  /\ changes = 0 /\ powerLosses = 0

\* A thread makes a step only while no interrupt is being served.
ThreadRuns == powered /\ isr = None

-----------------------------------------------------------------------------
(* Commands of TunerStudio *)

\* handleWriteChunkCommand with onlineApplyWorkingCopyBytes.
handleWriteChunkCommand(p, t) ==
  /\ ThreadRuns /\ thread = Idle
  /\ changes < MaxChanges
  /\ changes' = changes + 1
  /\ configWorkingCopy' = [configWorkingCopy EXCEPT ![p] = t]
  /\ persistentState' = IF p = "tables" THEN [persistentState EXCEPT ![p] = t]
                                      ELSE persistentState
  /\ UNCHANGED <<value, needToWriteConfiguration, storage, thread, isr, powered, ghosts,
                 powerLosses>>

\* Mutant: the write is requested before the working copy has been copied.
requestBurnFirst ==
  /\ ThreadRuns /\ thread = Idle
  /\ needToWriteConfiguration => ChangesWhilePending
  /\ thread' = [command |-> "burn", step |-> 2]
  /\ persistentState' = [persistentState EXCEPT !["head"] = configWorkingCopy["head"]]
  /\ needToWriteConfiguration' = TRUE
  /\ burned' = burned \cup {configWorkingCopy}
  /\ UNCHANGED <<configWorkingCopy, value, storage, isr, powered, lastHard, wasReset, changes,
                 powerLosses>>

\* handleBurnCommand: copies the working copy, part by part, then requestBurn.
handleBurnCommand ==
  /\ ThreadRuns /\ thread = Idle
  /\ needToWriteConfiguration => ChangesWhilePending
  /\ thread' = [command |-> "burn", step |-> 2]
  /\ persistentState' = [persistentState EXCEPT !["head"] = configWorkingCopy["head"]]
  /\ burned' = burned \cup {configWorkingCopy}
  /\ UNCHANGED <<configWorkingCopy, value, needToWriteConfiguration, storage, isr, powered,
                 lastHard, wasReset, changes, powerLosses>>

requestBurn ==
  /\ ThreadRuns /\ thread = [command |-> "burn", step |-> 2]
  /\ thread' = Idle
  /\ persistentState' = configWorkingCopy
  /\ needToWriteConfiguration' = TRUE
  /\ lastHard' = Hard(persistentState')
  /\ UNCHANGED <<configWorkingCopy, value, storage, isr, powered, burned, wasReset, changes,
                 powerLosses>>

-----------------------------------------------------------------------------
(* Console commands *)

\* burnconfig: requestBurn for the configuration in use.
burnConfigCommand ==
  /\ ThreadRuns /\ thread = Idle /\ ConsoleWrites
  /\ needToWriteConfiguration' = TRUE
  /\ burned' = burned \cup {persistentState}
  /\ lastHard' = Hard(persistentState)
  /\ UNCHANGED <<persistentState, configWorkingCopy, value, storage, thread, isr, powered,
                 wasReset, changes, powerLosses>>

\* writeConfigCommand: syncTunerStudioCopy, then the write.
writeConfigCommand ==
  /\ ThreadRuns /\ thread = Idle /\ ConsoleWrites
  /\ changes < MaxChanges
  /\ changes' = changes + 1
  /\ configWorkingCopy' = persistentState
  /\ thread' = [command |-> "write", step |-> 1]
  /\ burned' = burned \cup {persistentState}
  /\ lastHard' = Hard(persistentState)
  /\ UNCHANGED <<persistentState, value, needToWriteConfiguration, storage, isr, powered,
                 wasReset, powerLosses>>

\* resetconfig, rewriteconfig and setEngineType: resetConfigurationExt starts with
\* a memset.
resetConfigurationExt ==
  /\ ThreadRuns /\ thread = Idle /\ ConsoleWrites
  /\ needToWriteConfiguration => ChangesWhilePending
  /\ changes < MaxChanges
  /\ changes' = changes + 1
  /\ persistentState' = Whole(Zero)
  /\ thread' = [command |-> "reset", step |-> 2]
  /\ UNCHANGED <<configWorkingCopy, value, needToWriteConfiguration, storage, isr, powered,
                 ghosts, powerLosses>>

\* The defaults are in place; all but resetconfig go on to write them.
setDefaultEngineConfiguration(thenWrite) ==
  /\ ThreadRuns /\ thread = [command |-> "reset", step |-> 2]
  /\ persistentState' = Whole(Defaults)
  /\ lastHard' = IF thenWrite THEN Hard(Whole(Defaults)) ELSE None
  /\ thread' = IF thenWrite THEN [command |-> "write", step |-> 1] ELSE Idle
  /\ UNCHANGED <<configWorkingCopy, value, needToWriteConfiguration, storage, isr, powered,
                 burned, wasReset, changes, powerLosses>>

-----------------------------------------------------------------------------
(* writeToFlashNow *)

\* A word can be programmed once after it has been erased; programming the same
\* value again changes nothing.
Program(old, new) == IF old \in {Erased, new} THEN new ELSE Garbage

\* intFlashErase of a copy.
EraseCopy(c) ==
  /\ flash' = [flash EXCEPT ![c] = ErasedCopy]
  /\ locked' = TRUE
  /\ UNCHANGED value

\* The first words that intFlashWrite programs, after unlocking the flash.
ProgramHead(c) ==
  /\ flash' = [flash EXCEPT ![c].words["head"] = Program(@, persistentState["head"])]
  /\ locked' = FALSE
  /\ UNCHANGED value

\* The rest of them; nothing is programmed if somebody has locked the flash again.
ProgramTail(c) ==
  /\ flash' = IF locked THEN flash
              ELSE [flash EXCEPT
                      ![c].words = [p \in Part |-> IF p = "head" THEN @[p]
                                                   ELSE Program(@[p], persistentState[p])],
                      ![c].value = Program(@, value)]
  /\ locked' = TRUE
  /\ UNCHANGED value

flashStateCrc == value' = persistentState /\ UNCHANGED storage

\* Mutant: both copies are erased before the first one is written.
writeStepEraseBoth(k) ==
  CASE k = 1 -> flashStateCrc
    [] k = 2 -> /\ flash' = [c \in 1 .. 2 |-> ErasedCopy]
                /\ UNCHANGED <<value, locked>>
    [] k = 3 -> ProgramHead(1)
    [] k = 4 -> ProgramTail(1)
    [] k = 5 -> UNCHANGED <<value, storage>>
    [] k = 6 -> ProgramHead(2)
    [] k = 7 -> ProgramTail(2)

\* The steps of writeToFlashNow, in order.
writeStep(k) ==
  CASE k = 1 -> flashStateCrc
    [] k = 2 -> EraseCopy(1)
    [] k = 3 -> ProgramHead(1)
    [] k = 4 -> ProgramTail(1)
    [] k = 5 -> EraseCopy(2)
    [] k = 6 -> ProgramHead(2)
    [] k = 7 -> ProgramTail(2)

LastStep == 7

threadWrites ==
  /\ ThreadRuns /\ thread.command = "write"
  /\ writeStep(thread.step)
  /\ thread' = IF thread.step = LastStep THEN Idle ELSE [thread EXCEPT !.step = @ + 1]
  /\ UNCHANGED <<persistentState, configWorkingCopy, needToWriteConfiguration, isr, powered,
                 ghosts, changes, powerLosses>>

\* Mutant: nothing is written while the flash is locked.
pendingUntilUnlocked ==
  /\ powered /\ isr = None
  /\ needToWriteConfiguration
  /\ ~locked
  /\ needToWriteConfiguration' = FALSE
  /\ isr' = 1
  /\ UNCHANGED <<persistentState, configWorkingCopy, value, storage, thread, powered, ghosts,
                 changes, powerLosses>>

\* Mutant: the request is dropped when the flash is not ready.
pendingDropped ==
  /\ powered /\ isr = None
  /\ needToWriteConfiguration
  /\ needToWriteConfiguration' = FALSE
  /\ isr' \in {1, None}
  /\ UNCHANGED <<persistentState, configWorkingCopy, value, storage, thread, powered, ghosts,
                 changes, powerLosses>>

\* writeToFlashIfPending, called from the slow callback when the engine is stopped.
writeToFlashIfPending ==
  /\ powered /\ isr = None
  /\ needToWriteConfiguration
  /\ needToWriteConfiguration' = FALSE
  /\ isr' = 1
  /\ UNCHANGED <<persistentState, configWorkingCopy, value, storage, thread, powered, ghosts,
                 changes, powerLosses>>

isrWrites ==
  /\ powered /\ isr # None
  /\ writeStep(isr)
  /\ isr' = IF isr = LastStep THEN None ELSE isr + 1
  /\ UNCHANGED <<persistentState, configWorkingCopy, needToWriteConfiguration, thread, powered,
                 ghosts, changes, powerLosses>>

-----------------------------------------------------------------------------
(* Power *)

\* A sector whose erase or programming is cut off fails its CRC (assumption);
\* everything in RAM is gone.
powerLoss ==
  /\ powered /\ powerLosses < MaxPowerLosses
  /\ thread.command = "write" /\ isr # None => NestedPowerLoss
  /\ powerLosses' = powerLosses + 1
  /\ powered' = FALSE
  /\ needToWriteConfiguration' = FALSE
  /\ locked' = TRUE
  /\ thread' = Idle /\ isr' = None
  /\ lastHard' = None
  /\ UNCHANGED <<persistentState, configWorkingCopy, value, flash, burned, wasReset, changes>>

\* The configuration that readConfiguration finds: the first valid copy, or else
\* the defaults.  Versions are those of one firmware.
readConfiguration ==
  IF isValidCrc(flash[1]) THEN flash[1].words
  ELSE IF isValidCrc(flash[2]) THEN flash[2].words
  ELSE Whole(Defaults)

\* Power-up: readFromFlash and syncTunerStudioCopy; flash is not repaired.
powerUp ==
  /\ ~powered
  /\ powered' = TRUE
  /\ persistentState' = readConfiguration
  /\ configWorkingCopy' = readConfiguration
  /\ value' = readConfiguration
  /\ wasReset' = (wasReset \/ \A c \in 1 .. 2 : ~isValidCrc(flash[c]))
  /\ UNCHANGED <<needToWriteConfiguration, storage, thread, isr, burned, lastHard, changes,
                 powerLosses>>

Next ==
  \/ \E p \in Part, t \in Tunes : handleWriteChunkCommand(p, t)
  \/ handleBurnCommand
  \/ requestBurn
  \/ writeConfigCommand
  \/ burnConfigCommand
  \/ resetConfigurationExt
  \/ \E thenWrite \in BOOLEAN : setDefaultEngineConfiguration(thenWrite)
  \/ threadWrites
  \/ writeToFlashIfPending
  \/ isrWrites
  \/ powerLoss
  \/ powerUp

Spec == Init /\ [][Next]_vars

\* Threads and interrupts run to their end, power comes back, and the engine is
\* stopped at last, so that the slow callback writes what is pending.
FairSpec ==
  /\ Spec
  /\ WF_vars(requestBurn)
  /\ WF_vars(\E thenWrite \in BOOLEAN : setDefaultEngineConfiguration(thenWrite))
  /\ WF_vars(threadWrites)
  /\ WF_vars(isrWrites)
  /\ WF_vars(writeToFlashIfPending)
  /\ WF_vars(powerUp)

-----------------------------------------------------------------------------
(* Properties *)

\* RAM holds a configuration, never erased or half-programmed flash words, whatever
\* readConfiguration finds after a loss of power.
TypeOK ==
  /\ {persistentState, configWorkingCopy} \subseteq Configuration
  /\ value \in Configuration
  /\ needToWriteConfiguration \in BOOLEAN
  /\ flash \in [1 .. 2 -> [words : FlashWords, value : Configuration \cup {Erased, Garbage}]]
  /\ {locked, powered, wasReset} \subseteq BOOLEAN
  /\ thread \in [command : {"idle", "burn", "reset", "write"}, step : 1 .. LastStep]
  /\ isr \in 1 .. LastStep \cup {None}
  /\ burned \subseteq Configuration

\* flash_main.cpp: "to preserve at least one copy of the tune in case of electrical
\* issues": the tune in flash outlives a loss of power.  A second one may come while the
\* only valid copy is being rewritten.
TuneKept == powerLosses <= 1 => ~wasReset

\* flash_main.cpp: "we know that CRC and version number is what we expect. Safe to
\* assume it's a valid configuration": the engine_configuration_s of a copy with a
\* valid CRC was complete when it was burned.
ValidIsWhole ==
  \A c \in 1 .. 2 : isValidCrc(flash[c]) =>
    \E b \in burned : Hard(b) = Hard(flash[c].words)

\* Both copies are valid and hold the engine_configuration_s last committed.
Saved == \A c \in 1 .. 2 : isValidCrc(flash[c]) /\ Hard(flash[c].words) = lastHard

\* A burn is not lost: it is saved unless its write is still pending or under way.
BurnSaved ==
  powered /\ lastHard # None /\ thread = Idle /\ isr = None /\ ~needToWriteConfiguration =>
    Saved

\* Some write has got past the computation of its CRC.
WriteBegun ==
  \/ thread.command = "write" /\ thread.step > 1
  \/ isr # None /\ isr > 1

\* What the next power-up would load.  While a write has interrupted another, and while
\* anything is written once power has failed, both copies may be invalid or out of date:
\* what then counts is what is being written.
storedHard ==
  IF \/ thread.command = "write" /\ isr # None
     \/ powerLosses > 0 /\ WriteBegun
  THEN Hard(persistentState) ELSE Hard(readConfiguration)

Store == INSTANCE TuneStore WITH
           Tune <- PartValue \X PartValue,
           stored <- storedHard,
           running <- Hard(persistentState),
           committed <- lastHard,
           saving <- needToWriteConfiguration \/ isr # None \/ thread.command = "write",
           losses <- powerLosses

\* flash_main.cpp: "to preserve at least one copy of the tune in case of electrical
\* issues": with its steps, interruptions and losses of power the pair of copies is one
\* cell, which holds the old or the new engine_configuration_s and loses neither.
ImplementsTuneStore == Store!Spec

\* A burn is saved at last, if power stays on.
BurnReachesFlash == needToWriteConfiguration ~> ~powered \/ Saved
=============================================================================
