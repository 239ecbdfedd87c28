CONSTANTS
  cylindersCount = 2
  coilsOf <- IndividualCoils
  toothCount = 2
  MultisparkCount = 1
  MultisparkDelay = 1
  MultisparkDwell = 1
  SteadyTrigger = TRUE
  None = None
  MaxOffset = 1
  MaxSparks = 3
  MaxStarts = 2
  TimeBound = 5
SPECIFICATION FairSpec
CHECK_DEADLOCK FALSE
INVARIANTS
  CoilWillFire
  ListedOnce
PROPERTIES
  CoilReleased
