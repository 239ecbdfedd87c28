# Verification of the ME7 engine control firmware

TLA+ models of the parts of this firmware (a rusEFI derivative for STM32) that
find the position of the engine, schedule fuel and spark, decide whether the
engine turns, drive software PWM, measure manifold pressure, talk to the tuner and
keep the tune.
Each module is translated from the source it names; `PROJECT.json` maps every
definition to the lines it stands for.  TLC checks the modules on small
instances, TLAPS proves the theorems in the `*Proofs` modules for every value of
the constants.

## The system

The firmware runs on ChibiOS: interrupts (trigger input, microsecond timer,
virtual timers) preempt threads, threads of equal priority do not preempt each
other (`CH_CFG_TIME_QUANTUM` is 0), and the kernel lock disables interrupts.

| Component | State | Operations | Interacts with |
|---|---|---|---|
| Event scheduler (`event_queue.cpp`, `single_timer_executor.cpp`, `microsecond_timer.cpp`) | sorted list of `scheduling_s`, lock, `reentrantFlag`, one-shot timer | schedule (thread, interrupt, callback), execute, arm | every timed output |
| Trigger shapes (`controllers/trigger/decoders`) | 47 wheels: edges, gap ratios, flags | build, angles of events, search by angle | trigger decoder, all scheduled angles |
| Trigger decoder and central (`trigger_decoder.cpp`, `trigger_central.cpp`) | synchronization, tooth index, event counters, revolution counter, noise filter, cam | an edge of the crank or cam sensor, a configuration change | calls the RPM, fuel and spark listeners in the trigger interrupt |
| Engine life cycle (`rpm_calculator.cpp`, `engine.cpp`, `engine_controller*.cpp`) | RPM state, two "spinning" flags, stop request, push of the button | tooth, slow callback (RPM timeout, watchdog, shutdown, button) | enables fuel and spark, switches pins off, allows flash writes |
| Injection (`main_trigger_callback.cpp`, `engine_math.cpp`) | `InjectionEvent`s, overlap counters, injector pins, fuel schedule | trigger handler, open/close callbacks, rebuild, priming pulse | event scheduler, RPM state, `stopPins` |
| Spark (`spark_logic.cpp`) | `IgnitionEvent`s, list of angle-based events, coils | trigger handler, dwell/spark callbacks, preparation | event scheduler, watchdog |
| Configuration in flash (`flash_main.cpp`, `flash_int.c`, `tunerstudio.cpp`) | configuration in RAM, working copy, pending flag, two copies in flash | write chunk, burn, console commands, write, read at power-up | slow callback, TunerStudio, console |
| Software PWM (`pwm_generator_logic.cpp`) | frequency, duty, mode, phase and iteration, the callback on the timer, pin | start, stop, set duty, set frequency, timer callback | event scheduler; idle, boost, fuel pump and other controllers |
| MAP averaging (`map_averaging.cpp`) | windows on the timer, accumulator, ring of results | trigger event, open, close, ADC sample, refresh of angles | event scheduler, ADC, trigger |
| TunerStudio protocol (`tunerstudio.cpp`, `tunerstudio_io.cpp`) | packet being read, working copy, configuration | read a packet, write chunk or value, burn, execute, get text | serial line, logging, configuration |
| Logging (`loggingcentral.cpp`, `engine_sniffer.cpp`) | two buffers, accumulated size, chart | log a message, add an event to the chart, publish it, swap | every thread and interrupt; TunerStudio thread |
| Auxiliary valves, launch control, knock, idle/ETB/PID, FSIO, sensors, CJ125, HIP9011, CAN, bench test, display | various | various | see `components` in `PROJECT.json` |

Hard behaviours: the trigger interrupt between any two steps of the slow
callback; timers firing between teeth and during later teeth; a request that the
scheduler drops because its record is pending; state changes while pulses
scheduled under the old state are under way; three timeouts racing late teeth;
loss of power between the steps of a flash write; writes nested in writes; missed
and extra edges of the wheel, standstills and changes of speed; a PWM started again
under its own callback; an ADC interrupt preempted between test and use; a serial
line that loses, garbles and delays bytes; texts that grow while they are copied.
`hazards` in `PROJECT.json` lists them by line with the properties that watch
them, or a note on what excludes them from the runs.

What makes each part correct: the scheduler never loses, repeats, reorders or
starts early a callback; a charging coil always gets its spark and an open
injector its end; counters match the pulses; RPM and outputs do not outlive the
teeth; a stop request stops; a tune survives and is one that somebody burned; the
angle told to the listeners is the one the shaft is at, or flagged; a PWM goes on
toggling and comes to rest where it should; an average belongs to its window; what
the tuner is told was done has been done, and nothing it did not send.

## Modules

| Module | Models | Notes |
|---|---|---|
| `PendingEvents` | `ExecutorInterface` as clients see it | abstract specification |
| `Executor` | the scheduler with its timer | implements `PendingEvents` |
| `ExecutorProofs` | | theorems about `Executor` |
| `Injection` | fuel pulses | uses `PendingEvents` as its timers |
| `InjectionProofs` | | theorems about `Injection` |
| `Ignition` | dwell and spark | uses `PendingEvents` as its timers |
| `IgnitionProofs` | | theorems about `Ignition` and `TriggerPosition` |
| `EngineLifecycle` | is the engine turning | |
| `EngineLifecycleProofs` | | theorems about `EngineLifecycle` |
| `TuneStore` | what the two copies in flash promise: one cell that outlives power | abstract specification |
| `FlashConfig` | the tune in RAM and flash | implements `TuneStore` |
| `FlashConfigProofs` | | theorems about `FlashConfig` |
| `TriggerShapes` | the 47 trigger wheels and `TriggerWaveform` | constants and operators only |
| `TriggerPosition` | from an angle to the tooth it is scheduled from | operators on a wheel of `TriggerShapes` |
| `TriggerDecoder` | from edges to the index in the engine cycle | on `TriggerPosition` |
| `SoftwarePwm` | `SimplePwm` and its callback | |
| `SoftwarePwmProofs` | | theorems about `SoftwarePwm` |
| `MapAveraging` | manifold pressure windows | |
| `MapAveragingProofs` | | theorems about `MapAveraging` |
| `LoggingCentral` | text log, engine sniffer's chart | |
| `TuneSession` | what the protocol promises its client: a request is carried out as a whole, once or not at all | abstract specification |
| `TunerStudio` | the binary protocol | implements `TuneSession`; extends `LoggingCentral`, whose only reader it is |
| `TunerStudioProofs` | | theorems about `TunerStudio` and `LoggingCentral` |
| `MC*` | | instances for TLC |

`Injection` and `Ignition` compose with the scheduler through its abstract
specification: their `pending` variable is the one of `PendingEvents`, a callback
runs only when `Due` allows it, and `Executor` is shown (run and proof) to
implement exactly that.  A request for a record that is pending is ignored, as
`insertTask` does.

**Executor.** `queue`, `momentX`, `isScheduled` are the linked list; `holder` is
the owner of the kernel lock.  `scheduleByTimestampNt` inserts and starts an
execution pass, `scheduleFromCallback` only inserts (`reentrantFlag`),
`executeHead`/`callbackReturns`/`nextPass`/`finishExecute` are `executeAll` and
`doExecute`, `finishExecute` also arms the timer if the call has to,
`hwTimerCallback` is the interrupt.  The clock advances between any two steps, so
a record may become due between the last pass and the arming.  Timestamps use
`TicksPerUs` ticks; the 32-bit difference of `scheduleTimerCallback` is modelled
modulo `WordSpan`.  The too-far check of `scheduleByTimestampNt` is under
`EFI_ENABLE_ASSERTS`, which the firmware sets (`config/stm32f4ems/efifeatures.h:54`); in a
build without it that check is gone, and what is proved of the timer with it.

**Injection.** `action` holds the callback of each timer record.
`handleFuelInjectionEvent` and `scheduleEndOfInjection` are the two halves of the
trigger handler, between which the timer interrupt may run and time may pass;
`setRpmValue`, `setSpinningUp`, `assignInstantRpm`, `setStopped` change the mode.
Which tooth starts which cylinder, and the pulse length, are chosen freely.  One
assumption on timing is built into the guards: an engine that is not running gets a valid
RPM from `setRpmValue` or `assignInstantRpm` only when no event is in use, unless it was
cranking already (`CrankingAnew`: a revolution at cranking speed outlasts every pulse).  So a
rebuild of the schedule at that change of state never meets a pulse under way.

**Ignition.** An angle is the tooth it falls on; the remainder is a delay chosen at
the tooth.  `onTriggerEventSparkLogic` starts a handler that takes the queued
sparks of its tooth, then handles or skips each event
(`handleSparkEvent`/`scheduleOrQueue`), with timer callbacks in between.

**EngineLifecycle.** Moments are ages capped at `MaxAge`.  The slow callback is a
sequence of steps (`slow`), each of which a tooth may precede; RPM has the classes
zero, noisy, low, high.  `charged` stands for any coil, injector or valve that is
on, `armed` for scheduled callbacks that will switch one on.

**FlashConfig.** A configuration has a "head" and a "rest" (`engine_configuration_s`,
which a burn makes effective) and "tables" behind it (effective at once); two
parts of one structure are what is needed to see a torn copy.  A CRC is the
content it was computed of, so that it is valid exactly for that content.  The two
halves of programming a copy, the erase, and the CRC are separate steps of
`writeStep`; `thread` and `isr` are the two contexts that may execute it.

**TuneStore.** The abstract specification of `FlashConfig`: a cell `stored` that a commit
replaces as a whole, by the tune of the last commit and by nothing else, and that the
first loss of power leaves as it is.  The refinement mapping reads the cell as the
`engine_configuration_s` that a power-up would load (`storedHard`), and takes a commit for
being saved while a write is pending or under way.  The tables behind
`engine_configuration_s` are not part of it: they take effect, and may be written, without
a burn.

**TriggerShapes.** A wheel is a record as `TriggerWaveform` builds it: the sequence of
its edges (channel, direction, angle in tenths of a degree of a cycle stretched to
720 degrees), its gap ratios in thousandths and its flags; one operator per shape of
`decoders/`, loops over teeth as functions of the tooth number.

**TriggerPosition.** `calculateTriggerSynchPoint` makes the table of the angles of the
events, counted from the synchronization point; `findAngleIndex` is the binary search in
it, a pass of its loop at a time (`searchPass`), and `triggerIndexByAngle` what
`prepareShape` keeps of it for every degree.

**TriggerDecoder.** `decodeTriggerEvent`, `handleShaftSignal`, the noise filter and the
cam handlers are operators on the decoder's state; the environment is a shaft at an
angle `at` whose next edge is `pos`.  `Tooth` and `CamTooth` are good edges,
`MissedTooth`, `MissedCamTooth`, `ExtraEdge`, `Stall`, `SpeedChange` and
`onConfigurationChangeTriggerCallback` disturbances, at most `maxFaults` of them.
`triggerShape` holds the tables made by `initializeTriggerWaveform`, including the
simulation that finds the synchronization point.  `verdict` compares the index
handed to the listeners with the angle of the shaft.

**SoftwarePwm.** `safe` is `pwm_config_safe_state_s`, `due` the callback on the timer.
`timerCallback` is one step, as it runs in an interrupt; the same code run by a
thread in `weComplexInit` is split into `firstCallback` to `firstSchedule`, between
which the interrupt of an earlier start may come; a setter's writes are split
likewise.  `requested` is the duty cycle last asked for, `mode` what the code made of it;
`checkSwitchTimes` is the error path of `copyPwmParameters`.  Times are kept relative to now, so behaviours need no time bound.

**MapAveraging.** `mapAveragingTriggerCallback`, `startAveraging` and `endAveraging` are
the interrupts, `adc` the sample of an ADC callback preempted after its test of
`isAveraging`, `refresh` the thread that computes the angles one by one.  A delay is not a
number when the RPM, or the angle, is none: `US2NT` converts it to a 64-bit integer, which in C
is undefined and on the Cortex-M4 and M7 gives 0, so that the record is due at once.  This
is an assumption about the build; `scheduleByAngle` relies on it when it takes every record.

**LoggingCentral, TunerStudio.** `scheduleMsg` is an append under the lock; publishing
the chart is the three steps `publishMeasure`, `publishCopy`, `publishReset`, between
which `addEvent3` may append; several interrupts may add to a chart that each of them found
not full, as the check comes before the lock.  `loop` is `runBinaryProtocolLoop`: the reads of the two
size bytes, the command and the rest, each with its time-out, then one action per
command.  A byte is a token of the packet it was sent in, so a misread one may mean
anything; `handleGetText` is split at publish, swap (where the CRC is computed) and
send.  `handleExecuteCommand` answers and `runConsoleLine` then runs the line, as the code
does; the client may send its next request in between.  A console line is either one that
sets something in the configuration in use (most `set_*` commands) or the reset, which also
copies it to the working copy (`syncTunerStudioCopy`).  How long the line runs, and lines
of other consoles, are left out.

**TuneSession.** The abstract specification of `TunerStudio`: no bytes, no packets, only
requests that are carried out in one step, refused or lost.  Its variable `open` says
whether the last request may still have an effect; the refinement mapping (`Open`) reads it
as: the client waits, and the byte with the command of its request is on the line, in the
queue or in the buffer.  Carrying out a request closes it, so it is not carried out twice, and
so do an answer and a time-out, so that nothing left over is carried out while the client
goes on.  The exception is what the code makes one: a console line is answered first
(`Execute`) and takes effect later (`Run`, with `running` the request it came in), once, and
before any later request is carried out.

## Runs

| Run | Shows |
|---|---|
| `executor` | list duplicate free and consistent with the flags (`FlagsMatchQueue`); timer always armed and in time (`WakeUpArmed`, `AlarmNotLate`), and no delay given to it is refused by `setHardwareUsTimer` (`NoTimerOverflow`); implements `PendingEvents`; every scheduled record is executed |
| `injection_sequential` | simultaneous cranking, sequential running: counters count the pulses, every event in use has its closing callback, end never before start |
| `injection_batch` | two-wire batch: shared injectors are closed by the last pulse only, all injectors close at last, all events are released |
| `ignition` | a charging coil has a spark to come, also the additional ones of a multispark; the list of angle-based events does not loop; a coil is released even if the engine stops before its tooth |
| `lifecycle` | RPM, outputs and starter do not outlive teeth and timeouts; everything settles in the stopped state once teeth cease, the starter too unless its button is pushed again and again |
| `lifecycle_stop` | (no faster spin-up) stop requests are honoured |
| `flash` | the two copies are one cell that outlives losses of power (`ImplementsTuneStore`): it holds the last commit or the one before, never a mixture, the defaults or an older tune, and the first loss of power costs no tune; a valid copy is a whole tune, a finished burn is in both, nested writes included; burns reach flash |
| `trigger` | every wheel, from every (or every 13th) starting edge, on both edges and on rising edges only: two trigger cycles after the last disturbance every index stands for the angle of the shaft (`InStep`); a wrong one is flagged at the next synchronization (`WrongIsFlagged`); a cam sensor settles which revolution it is (`PhaseLocked`); the search for an angle finds its event (`PositionFound`) |
| `pwm` | a PWM always has its next callback, not too far away, whatever starts, stops and settings overlap (`Alive`, `NextToggleSoon`); the pin comes to rest low, high or toggling as the duty cycle last asked for wants it (`OutputSettles`) |
| `map_averaging` | an average holds at most one sample of before its window; the pressure is the minimum of the latest results; every window closes |
| `tunerstudio` | buffers hold what the line announces and threads log; an acknowledged write or burn has been applied; whatever byte is lost, garbled or late, a request is carried out as a whole, once or not at all, and only while its client waits, a console line after its answer and before any later request (`ImplementsTuneSession`); the text sent is the one its CRC was computed of; every request settles |

One run shows a disagreement between the code and what it says of itself:
`logging_chart` lets a chart be published because of its age, not because it is
full.  `scheduleLogging` measures it without the lock ("this could be done without
locking", `loggingcentral.cpp:53`); an event appended by an interrupt before the copy
leaves the buffer without terminator, and `swapOutputBuffers` then reports
"lsize mismatch", a firmware error.  A full chart takes no more events, which is why
the same property holds in `tunerstudio`, where `ChartMayBeOld` is false.

`TypeOK` of the component modules is in no run's list; it is the base of the proofs and
holds in the same instances when it is added to a cfg.

### Known deviations without a run of their own

The passing runs exclude these by the named constant; setting it shows them.

Scheduler clients and life cycle:

- `crankingInjectionMode = "BATCH"` in `InjectionSequential.cfg` violates
  `CounterCountsPulses`: the schedule is rebuilt while a pulse is open, whose end then
  decrements another injector's counter (`rpm_calculator.cpp:169`, against
  `event_registry.h:40`).
- `EngineStartsAfterPrime = FALSE` in `InjectionSequential.cfg` violates `DownNotIgnored`:
  cranking during the priming pulse loses the end of cylinder 0's injection
  (`main_trigger_callback.cpp:503`).
- `setSpinningUp` and the instant RPM change the injection mode without rebuilding the
  schedule (`rpm_calculator.cpp:206`; line 167 says it should be), so that with faster
  spin-up the handler may work from the schedule of the other mode.
- `SteadyTrigger = FALSE` with one cylinder, no multispark, `MaxOffset = 3`,
  `TimeBound = 8` in `Ignition.cfg` violates `CoilWillFire`: a dwell tooth before the last
  spark drops the new spark and the coil charges without one (`spark_logic.cpp:274`).
  `SteadyTrigger` says that a dwell tooth finds the timers of its event free and its coils
  discharged.  The timers alone are not enough, which the proof brought to light: if the
  tooth that a queued spark waits for is missed, the next dwell tooth finds the coil still
  charging and lets it charge again; the queued spark then overtakes that dwell
  (`spark_logic.cpp:220`).
- One coil for both cylinders in `Ignition.cfg` violates `CoilWillFire` when both sparks
  overtake their dwells: the later id overwrites the earlier (`spark_logic.cpp:58`).
- `isFasterEngineSpinUpEnabled = TRUE` in `LifecycleStop.cfg` violates
  `StopRequestHonoured`: the instant RPM ignores the request (`rpm_calculator.cpp:277`,
  against `settings.cpp:1012`).
- `fireSparkAndPrepareNextSchedule` means to leave when the engine has just stopped
  (`spark_logic.cpp:171`), but tests `cisnan` of an int: the additional sparks of a
  multispark go on.  `Ignition` models what the code does.
- The first slow callback after power-up closes the injectors that the priming pulse
  has just opened (`engine.cpp:379`, `main_trigger_callback.cpp:561`).  `EngineLifecycle`
  models what the code does: `charged` may be false while `priming`.
- A second voltage drop in one power cycle requests no stop (`engine.cpp:425`).

Flash:

- `ChangesWhilePending = TRUE`, `ConsoleWrites = FALSE` in `FlashConfig.cfg` violates
  `ValidIsWhole`: a burn interrupted by a pending write gives a valid CRC over a torn
  tune (`tunerstudio.cpp:450`, `flash_main.cpp:147`); a reset that clears the
  configuration before the defaults are in place is exposed likewise
  (`engine_configuration.cpp:699`).
- `NestedPowerLoss = TRUE` violates `ImplementsTuneStore`: the pending write of the slow callback
  erases the first copy while a console write has the second one erased
  (`flash_main.cpp:41`; line 62 admits "technically we need a lock here").
- Power-up does not repair an invalid second copy, and the next write erases the only
  valid one: a loss of power in that write costs the tune.  `TuneStore` says so: from the
  second loss on, one that comes while a commit is being saved may leave any tune.

Trigger (`MCConfigs` leaves these out):

- The counted wheels `TT_3_1_CAM`, `TT_JEEP_4_CYL`, `TT_JEEP_18_2_2_2` and `TT_2JZ_1_12` take
  the first rise for their first event; started at another angle they stay wrong.
- On rising edges only, `TT_MIATA_VVT`, `TT_RENIX_44_2_2` and `TT_RENIX_66_2_2_2` get wrong
  event angles; ten more shapes are refused as defined wrongly (Miata NA and NB1, the
  VVT test wheel, Mazda Z5, Neon 1995, quick start, Mitsubishi, both SR20VE, SOHC 4).
- `TT_RENIX_66_2_2_2` has six trigger cycles per engine cycle, but the divider of its
  index is 4 (`trigger_central.cpp:416`).
- The noise filter drops good edges of wheels whose teeth differ; it is checked with
  the three wheels it works for and no faults.
- Two disturbances may make up for each other in the event count and are not flagged.
- After a configuration change the index is in units of the old tables until the
  next synchronization; the error pin says nothing of that.

PWM, MAP:

- A restart whose thread is interrupted by the callback of the last start may call
  firmwareError ("handleCycleStart").  `SoftwarePwm` has the step; `fatal` ends the
  PWM, and `Alive` claims nothing from there on.
- `dbgNestingLevel` is not decremented when a callback finds the PWM stopped: the
  25th stop reports "PWM nesting issue" (`pwm_generator_logic.cpp:255`).
- `startSimplePwm` after `stop()` ignores its duty cycle: `setSimplePwmDutyCycle` returns
  early (`pwm_generator_logic.cpp:64`), and the mode stays that of the time before.  A restart
  with duty 0 of a PWM that was full on stays high, one that was toggling goes on toggling,
  and a full-duty restart of it ends in the critical error of `checkSwitchTimes`.
  `SoftwarePwm` models all of it; `OutputSettles` claims nothing (`requested` is `None`) until
  the duty cycle is set again.
- A PWM resumed after a pause replays the cycles it missed.
- `currentPressure` is never set back: after a restart the average of the last run is
  used until the first window closes (`map_averaging.cpp:341`).

TunerStudio:

- A chunk that starts in `engine_configuration_s` and reaches into the tables is not
  applied at once (`tunerstudio.cpp:244`); `AckMeansApplied` claims only what starts in
  the tables.
- A bad logger mode is not answered although the comment says "send NAK"
  (`tunerstudio.cpp:819`); a single write is never acknowledged, which `Expected` models.
- A console line is answered before it is run (`tunerstudio.cpp:691`), so its answer says
  nothing of its effect.  Most of them change only the configuration in use: a later burn
  copies the working copy, which does not know of the change, over it.
- The buffer of the tooth logger is sent while the interrupt writes it.

### Bounds

- `TimeBound`, `MaxCalls`, `MaxInjections`, `MaxSparks`, `MaxStarts` end the
  behaviours; they are chosen so that two rounds of an event, an overlap, a stop
  and a restart fit.  Past `TimeBound` nothing new happens, hence
  `CHECK_DEADLOCK FALSE` in these runs; the life cycle never ends and its runs
  check for deadlock.
- Three records in `executor`: head, middle and tail of the list.  One tick per
  microsecond and a `WordSpan` no accepted delay reaches, as on the 168 MHz parts: the run
  does not come to a wrapped difference.  The theorems hold for every resolution and span,
  and a wrapped difference is, like any other short delay, an early alarm.
- Two cylinders for sequential injection and spark, four for batch (two events
  per wire); a pulse of 0, 1 or 3 units of the minimum pulse: rejected, shorter and
  longer than the distance of two handlers.  Two pulses in the batch run are what
  an overlap needs; four in the sequential one let a cylinder be used again.
- `NT_PER_SECOND = 2`, `WatchdogThreshold = 5` (2.4 s rounded up to half seconds) and
  a slow callback each half second keep the order of all timeouts; the theorems
  hold for every other choice.
- Two values per part of the tune, three changes, two losses of power: the second finds
  what the first has left.
- `trigger`: a custom wheel of 4-1 teeth stands for the toothed wheels with faults (60-2
  and 36-1 are in the fault-free part, started at every 13th edge); one disturbance per
  behaviour, two for the toothed wheel.  Five engine cycles of good edges are
  counted, more than `InStep` needs.
- `pwm`: two periods, three duty cycles, an iteration limit of 3 (1000 in the code) so
  that it is reached; one `stop()`.  No time bound; the run checks for deadlock.
- `map_averaging`: one cylinder with the windows of two revolutions, two readings, a
  ring of two; lengths 0 and 2 are below and at its limit.
- `tunerstudio`: twelve requests, three per behaviour, one fault of the line; a chart of
  two events with room for two; a page of one byte before and one behind the border of the
  tables; a buffer that the longest packet just fits.

### Fairness

Weak fairness of the clock, of served interrupts, of code under a lock or in a
handler (it runs to its end), of the periodic slow callback, and of power-up.  For
`BurnReachesFlash` the engine is assumed to be stopped some time.  No fairness for
teeth, commands, stop requests or losses of power.  `pwm`: the clock, the interrupt and
the threads.  `map_averaging`: every record on the timer fires, which is what
`EveryEventExecutes` says of the executor.  `tunerstudio`: the thread runs, late bytes
arrive at last and the client gives up at last.

### Modelling assumptions

- Trigger handlers of two teeth never overlap, and two teeth do not share an
  instant of the model's clock.
- A priming pulse is shorter than a time step of `EngineLifecycle`; callbacks of a
  tooth come within a second of it; the slow callback is not late by a whole step,
  and at most one tooth falls between two of its steps.
- In `Ignition` the watchdog acts only once the timers are idle (its threshold is
  longer than any dwell).
- A sector whose erase or programming is cut off fails its CRC.
- The client of `TunerStudio` is external.  It sends a request only after the answer or
  the time-out of the last one, when the line is quiet, and discards unread answers:
  its time-out (`blockReadTimeout`, 3000 ms in `tunerstudio/*.input`) is longer than that
  of the firmware (`SR5_READ_TIMEOUT`, 1000 ms).  A client that repeats at once after an
  error could take an answer for that of another request, and late bytes of the first attempt
  could mix with the second; `Quiet` in `Send` excludes both.
- A CRC is one token and has no collisions.
- Delays of the windows in `MapAveraging` are open: any record on the timer may fire next.

## Proofs

Every theorem holds for every value of the constants, under the assumptions that the
modules name and TLC evaluates in each run.  They only say what the constants are:
`ExecutorAssumption`, `IgnitionAssumption`, `TunerStudioAssumption` and their like (numbers,
sets, functions of the right kind; for the life cycle also that the cap on ages is
beyond the timeouts and the watchdog slower than the RPM timeouts), `NoneAssumption` (the
value for "no handler call" is none), `FlashValues` (erased or half-programmed words are
no CRC), `PwmAssumption` (periods are multiples of the resolution and have a longest,
the iteration limit is at least 2), `MapAveragingAssumption` (a reading is below
`FLT_MAX`), `RequestsAssumption` (a client's request has a command, an offset and values).
A condition on the configuration or the environment that a result needs is a
hypothesis of that theorem; each one is the constant whose other value is a known
deviation above.

In each module the invariant the runs check is strengthened to one that every action
preserves; TLC has checked the strengthened one on the instance of the run.

| Module | Theorem | States | Hypotheses |
|---|---|---|---|
| `ExecutorProofs` | `TypeCorrect`, `ListConsistent`, `AlwaysArmed`, `WakeUpInTime`, `NeverRefused` | `TypeOK`, `FlagsMatchQueue`, `WakeUpArmed`, `AlarmNotLate`, `NoTimerOverflow` | |
| | `Refinement` | `ImplementsPending` | |
| `InjectionProofs` | `TypeCorrect`, `EndAfterStart` | `TypeOK`, `StartBeforeEnd` | |
| | `ClosingIsScheduled` | `DownNotIgnored` | nobody cranks during the priming pulse (`PrimeApart`) |
| | `CountersCount` | `CounterCountsPulses` | one injection mode, or simultaneous cranking without faster spin-up (`ModesAgree`) |
| | `LastPulseCloses` | `ClosesLast` | one injection mode |
| `IgnitionProofs` | `TypeCorrect`, `EventListedOnce` | `TypeOK`, `ListedOnce` | |
| | `ChargeEndsInSpark` | `CoilWillFire` | `SteadyTrigger`; events do not share coils (`SeparateCoils`) |
| | `WheelPositionsFound` | `PositionsFound` of every wheel, with its first event anywhere | the definition of the wheel is accepted (`AcceptedWheel`); both edges are decoded |
| | `SearchFindsPosition` | `PositionsFound` of every table | the table starts with 0 and never goes back (`TableOK`) |
| `EngineLifecycleProofs` | `TypeCorrect`, `RpmExpires`, `StarterStops`, `OutputsSwitchedOff` | `TypeOK`, `RpmNotStale`, `StarterBounded`, `OutputsNotLeftOn` | |
| | `StopHonoured` | `StopRequestHonoured` | no faster spin-up |
| `FlashConfigProofs` | `TypeCorrect` | `TypeOK` | |
| | `ValidCopiesAreWhole`, `BurnIsSaved` | `ValidIsWhole`, `BurnSaved` | nothing replaces the configuration while a write is pending (`~ChangesWhilePending`) |
| | `TuneSurvivesOneLoss` | `TuneKept`: up to the second loss of power the tune is never reset to defaults | the same; power does not fail in a nested write (`~NestedPowerLoss`) |
| | `FlashRefinement` | `ImplementsTuneStore` | both of these |
| `SoftwarePwmProofs` | `TypeCorrect`, `PwmStaysAlive`, `ToggleComesSoon` | `TypeOK`, `Alive`, `NextToggleSoon` | |
| `MapAveragingProofs` | `TypeCorrect`, `AveragesOfOneWindow`, `PressureIsMinimum` | `TypeOK`, `SamplesOfWindow`, `MinimumOfLatest` | |
| `TunerStudioProofs` | `TypeCorrect`, `NoBufferOverrun`, `OnlySentValues`, `AcknowledgedIsApplied` | `TypeOK`, `BuffersHold`, `TuneWasSent` (working copy and tune only hold initial values and those that a write, or a console line, that was sent puts at that place), `AckMeansApplied` | |
| | `SessionRefinement` | `ImplementsTuneSession` | |
| | `NoSizeMismatch`, `TextArrivesWhole` | `SizeMatches`, `TextIsWhole` | charts are handed over only when full (`~ChartMayBeOld`) |

**Executor.** `IInv` joins `TypeOK`, `FlagsMatchQueue`, `QueueSorted`, `WakeUpArmed`
with three facts that make it inductive: the time handed to `executeAll` is not
ahead of the clock, a schedule call that will not re-arm the timer found it armed
(`ArmedDuringCall`), and a callback runs only under the lock.  Lemmas about
insertion (type, order, members) carry the list through `insertTask`.
`WakeUpInTime` adds `ArmedInTime`: during a call that will not re-arm, the wake-up is in
time for the head as the call found it or for the time stamp the pass works with; what
is left of the list at the end is later than that.  `NeverRefused` follows from
`WithinReach`: a record that was accepted is not too far ahead, and is less so as the clock
advances, so that neither its delay in microseconds nor the wrapped difference exceeds what
`setHardwareUsTimer` takes; in `Refinement` each step is a step of `PendingEvents`
or a stutter.

**Injection.** `PulseInv`: the closing of a pulse is at or after its opening, and the
handler between its two halves holds a later end than the opening it has scheduled.
`PrimeInv` keeps the priming pulse's use of the first event's record apart from the
engine turning.  `OutputInv` says that what a pulse under way was started with is what
its end will find: the outputs of the event have not changed, and simultaneous and
individual pulses do not mix; without it a counter is decremented for a pulse of another
injector.  `CountInv` adds the counts, with cardinality lemmas for a pulse that starts or
ends.

**Ignition.** `CoilInv`: a coil that charges has its spark on the timer, in the list of
angle-based events or in the handler's hands (`ChargeInv`); a pending dwell finds its coils
discharged and its spark not yet fired, or the coil marked out of order (`DwellInv`);
nothing is in the way of a dwell to come (`ToothInv`).  `ListedOnce` needs no hypothesis:
an event is appended only if it is not in the list.

**TriggerPosition.** `SearchInv` holds after each pass: the angles before `left` are not past
the target, and those after `right` are, or the target has been found.  `right`
stays at 0 or above, so the unsigned variable of the code does not wrap around, because the
table starts with 0 and no target is negative.  Each pass halves what is left of the table,
so that nine suffice for every table below `PWM_PHASE_MAX_COUNT`.  That
`calculateTriggerSynchPoint` makes a table in order follows from the order of the events on
the wheel (by the least event out of order) and the arithmetic of an index that runs over
the cycles and around the first event.  For rising edges only `SearchFindsPosition` applies
where the table is in order; that of the wheels with several cycles per revolution is not
(see the deviations).

**EngineLifecycle.** Each bound is inductive only with a slack that depends on
where the slow callback is: the time since its last call while it is idle, a
whole period until it has made its check, none afterwards (`RpmAge`, `StarterAge`,
`OutputAge`, `StopAge`; the last also needs that `SPINNING_UP` is never entered).

**FlashConfig.** `FlashInv`: at each step of a write, what of the copy is erased,
programmed and has which CRC (`WriteInv`), for the interrupt and for the thread, and for a
thread whose write was interrupted which of its copies the interrupt has made good
(`Interrupted`); what is written was committed (`CommittedInv`).  `TuneInv` adds that until
power fails a copy is invalid only while it is written, so that one loss leaves the
other.  For `FlashRefinement`, `StoreInv` adds that what is pending or being written is the
last commit (`SavingInv`) and that until power fails both copies agree except during a
write (`AgreeInv`): erasing the first copy then leaves the cell as it was, its CRC makes it
the last commit, and every other step of a write is a stutter.

**SoftwarePwm.** `PwmInv`: how deep callbacks nest, that a period not read yet will be,
how many iterations a callback may count while a start is under way (one, because no time
passes) and that the callback is at most a period before the iteration it counts.  From
these the bound on the next toggle follows whatever period is set.

**MapAveraging.** `MapInv`: the ring read backwards from its index is the sequence of the
latest results (`RingInv`), and the interrupted ADC callback is the only source of an
early sample.

**TunerStudio.** `PacketInv`: every byte on the line, in the queue or in the buffer is of the
client's last request or corrupt, and its command byte is there at most once; the loop
handles only what a size and a CRC vouch for; hence a handled packet is the whole
request, and it is handled once.  `LogInv` and `SendInv`: a chart that is handed over no
longer grows, the buffers hold whole messages, and the buffer that is being sent is not
the one that is written.  For the refinement `SessionInv` adds where the command byte may
be: with the bytes the loop has read before it, it comes third while the client waits, and
earlier once the client was answered, because every answer before a packet is handled has
taken a byte too many or thrown the rest away (`InTime`).  So the loop never reads the
command of an answered request where it expects a command, and what it handles is that of a
client that waits (`HeldInv`).  `ConsoleInv`: while the loop runs a console line, the line is
that of a request the client sent, and nothing else is in the loop's buffer.

Only model-checked:

- every liveness property (`EveryEventExecutes`, `AllCloseAtLast`, `EventReleased`,
  `CoilReleased`, `SettlesStopped`, `BurnReachesFlash`, `OutputSettles`, `WindowCloses`,
  `RequestSettles`): fairness is beyond the prover;
- the properties of `TriggerDecoder`: `InStep`, `PhaseLocked` and `WrongIsFlagged` hold
  because of the gaps and angles of the particular wheels, not for every wheel, and rest on
  a simulation that feeds the decoder its own wheel; the finite set of wheels is what TLC
  enumerates.  `PositionFound` is checked for each of them too, on rising edges only as well;
  `WheelPositionsFound` proves what it says of both edges for every wheel.

Where a proof needs induction over numbers (the passes of the search, the events of a
wheel, the minimum of a ring) it takes a least counterexample from `WFMin`, which, unlike the
induction theorems, has no operator for a parameter.

## Not modelled

The repository is mostly code this project has no use for: of its implementation
lines the larger part is FatFs with its code pages (`ext/`), generated structures and
fonts, hardware presets of single cars, and register-level drivers.  What is modelled
is what has state that several contexts share; the map names those lines only.

Of the modelled parts: floating-point fuel, advance and PID calculations; the
half-second watchdog of the microsecond timer; the stolen-lock path of `doExecute`
(`single_timer_executor.cpp:147`: no client unlocks in a callback); `EventQueue::clear`;
failing paths of `addFuelEvents` (`main_trigger_callback.cpp:323`, NaN angles); the
bench-test exception of the watchdog; incompatible flash versions and failing flash
hardware (`flash_main.cpp:72`); teeth missed during a flash write
(`engine_controller.cpp:288`); in the trigger decoder the error messages, the VVT angle,
duty cycles and the values of the instant RPM, `movePreSynchTimestamps`
(`trigger_decoder.cpp:188`) and the moment between new event angles and the new table
of `prepareOutputSignals` (`engine.cpp:106`); pages, output channels and the tooth logger
of TunerStudio.  `components` in `PROJECT.json` gives the reason for each part that has no
module.

## Plan

1. Proofs: the table of angles for rising edges only; `StopRequestHonoured` and
   `CounterCountsPulses` for the configurations with faster spin-up in which they hold.
2. Further models: auxiliary valves; the prime pulse counter over power cycles; launch
   control and knock retard; the CJ125 heater; the composition of `EngineLifecycle` and
   `FlashConfig` (a write while teeth arrive); `Ignition` driven by `TriggerDecoder`.
