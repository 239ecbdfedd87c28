CONSTANTS
  s1 = s1
  s2 = s2
  s3 = s3
  Sched = {s1, s2, s3}
  None = None
  TicksPerUs = 1
  LateDelay = 3
  TooFarUs = 5
  WordSpan = 12
  TimeBound = 5
  MaxCalls = 3
SPECIFICATION FairSpec
CHECK_DEADLOCK FALSE
INVARIANTS
  FlagsMatchQueue
  WakeUpArmed
  AlarmNotLate
PROPERTIES
  NoTimerOverflow
  ImplementsPending
  EveryEventExecutes
