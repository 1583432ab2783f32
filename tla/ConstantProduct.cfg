CONSTANTS
    U64Max = 127
    FeeRateDenominator = 10
    BpsDenominator = 8
    Worlds <- MCWorlds
    Givens <- MCGivens
    Amounts = {1, 2, 4, 7, 30}
    MaxSwaps = 2
    MaxTime = 1
    MaxReads = 2
SPECIFICATION Spec
INVARIANTS TypeOK FeesStayBacked NeverOverdrawn TraderNeverProfits
CHECK_DEADLOCK FALSE
