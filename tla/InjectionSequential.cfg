CONSTANTS
  cylindersCount = 2
  crankingInjectionMode = "SIMULTANEOUS"
  injectionMode = "SEQUENTIAL"
  twoWireBatchInjection = FALSE
  Durations = {0, 1, 3}
  PrimePulses = {2}
  EngineStartsAfterPrime = TRUE
  isFasterEngineSpinUpEnabled = FALSE
  None = None
  MinPulse = 1
  MaxDelay = 1
  MaxLag = 1
  MaxInjections = 4
  TimeBound = 7
SPECIFICATION Spec
CHECK_DEADLOCK FALSE
INVARIANTS
  StartBeforeEnd
  CounterCountsPulses
  DownNotIgnored
