CONSTANTS
  cylindersCount = 4
  crankingInjectionMode = "BATCH"
  injectionMode = "BATCH"
  twoWireBatchInjection = TRUE
  Durations = {1, 3}
  PrimePulses = {}
  EngineStartsAfterPrime = FALSE
  isFasterEngineSpinUpEnabled = TRUE
  None = None
  MinPulse = 1
  MaxDelay = 1
  MaxLag = 0
  MaxInjections = 2
  TimeBound = 5
SPECIFICATION FairSpec
CHECK_DEADLOCK FALSE
PROPERTIES
  ClosesLast
  AllCloseAtLast
  EventReleased
