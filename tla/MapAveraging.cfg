CONSTANTS
  cylindersCount = 1
  Samples = {1, 2}
  MAX_MAP_BUFFER_LENGTH = 2
  Lengths = {0, 2}
  MaxSamples = 2
SPECIFICATION FairSpec
INVARIANTS
  SamplesOfWindow
  MinimumOfLatest
PROPERTY
  WindowCloses
