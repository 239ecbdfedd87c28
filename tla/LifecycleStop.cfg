CONSTANTS
  NT_PER_SECOND = 2
  WatchdogThreshold = 5
  SLOW_CALLBACK_PERIOD = 1
  startCrankingDuration = 2
  isFasterEngineSpinUpEnabled = FALSE
  startStopButtonPin = FALSE
  EFI_MAIN_RELAY_CONTROL = TRUE
  startOfCrankingPrimingPulse = FALSE
  None = None
  MaxAge = 7
SPECIFICATION Spec
INVARIANTS
  StopRequestHonoured
