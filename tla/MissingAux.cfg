CONSTANTS
    U64Max = 127
    FeeRateDenominator = 10
    BpsDenominator = 8
    Worlds <- AuxWorlds
    Givens <- MCGivens
    Amounts = {1, 2, 4, 7, 30}
    MaxSwaps = 2
    MaxTime = 1
    MaxReads = 2
SPECIFICATION Spec
INVARIANT MissingAuxIsRefused
CHECK_DEADLOCK FALSE
