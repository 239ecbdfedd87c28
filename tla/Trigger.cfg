CONSTANTS
    customTotalToothCount = 4
    customSkippedToothCount = 1
    Configs <- MCConfigs
SPECIFICATION Spec
INVARIANTS InStep PhaseLocked PositionFound
PROPERTY WrongIsFlagged

