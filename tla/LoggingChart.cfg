SPECIFICATION Spec
CONSTANTS
  DL_OUTPUT_BUFFER = 11
  MessageLengths = {2}
  engineChartSize = 2
  ChartRoom = 4
  ChartMayBeOld = TRUE
  MaxMessages = 1
  MaxEvents = 3
  Requests <- MCRequests
  crcReadBuffer = 9
  PageSize = 2
  SoftOffset = 1
  InitialValue = 0
  Garbage = 99
  MaxRequests = 3
  MaxFaults = 0
INVARIANT SizeMatches
CHECK_DEADLOCK FALSE
