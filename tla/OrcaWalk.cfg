CONSTANTS
    Q64 = 64
    Q96 = 1024
    MaxU64 = 63
    feeRateMulValue = 20
    MinTickIndex <- MCMin
    MaxTickIndex = 9
    positiveTickMultipliers <- MCPositive
    negativeTickMultipliers <- MCNegative
    TicksPerArray = 2
    TickSpacing = 2
    Initialized <- MCInitialized
    Configs <- MCConfigs
    StartPrices <- MCEveryStart
    Amounts <- MCAmounts
    Lags = {0, 1}
    MaxSwaps = 1
    MaxTime = 3
    volatilityAccumulatorScaleFactor = 2
    reductionFactorDenominator = 2
    adaptiveFeeControlFactorDenominator = 4
    maxReferenceAge = 2
    feeRateHardLimit = 5
SPECIFICATION Spec
INVARIANTS TypeOK TickMatchesPrice LiquidityMatchesTick WalkSearchesItsArrays GroupHoldsPrice StepHasOneRate NeverOverdrawn
