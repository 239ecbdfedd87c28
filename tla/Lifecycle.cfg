CONSTANTS
  NT_PER_SECOND = 2
  WatchdogThreshold = 5
  SLOW_CALLBACK_PERIOD = 1
  startCrankingDuration = 2
  isFasterEngineSpinUpEnabled = TRUE
  startStopButtonPin = TRUE
  EFI_MAIN_RELAY_CONTROL = TRUE
  startOfCrankingPrimingPulse = TRUE
  None = None
  MaxAge = 7
SPECIFICATION FairSpec
INVARIANTS
  RpmNotStale
  OutputsNotLeftOn
  StarterBounded
PROPERTIES
  SettlesStopped
