CONSTANTS
    Periods = {2, 4}
    Duties = {0, 1, 2}
    RESOLUTION = 2
    NAN_FREQUENCY_SLEEP_PERIOD = 3
    ITERATION_LIMIT = 3
    NESTING_LIMIT = 3
    MaxLag = 1
    MaxStops = 1
SPECIFICATION FairSpec
INVARIANTS Alive NextToggleSoon
PROPERTY OutputSettles
