CONSTANTS
  t1 = t1
  t2 = t2
  Tunes = {t1, t2}
  Defaults = Defaults
  Zero = Zero
  Erased = Erased
  Garbage = Garbage
  None = None
  ChangesWhilePending = FALSE
  NestedPowerLoss = FALSE
  ConsoleWrites = TRUE
  MaxChanges = 3
  MaxPowerLosses = 2
SPECIFICATION FairSpec
CHECK_DEADLOCK FALSE
INVARIANTS
  ValidIsWhole
  BurnSaved
PROPERTIES
  ImplementsTuneStore
  BurnReachesFlash
