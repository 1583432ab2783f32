CONSTANTS
    Q64 = 64
    Q96 = 1024
    MaxU64 = 63
    feeRateMulValue = 20
    MinTickIndex <- MCMin
    MaxTickIndex = 9
    positiveTickMultipliers <- MCPositive
    negativeTickMultipliers <- MCNegative
    TicksPerArray = 2
    TickSpacing = 2
    Initialized <- MCInitialized
    Configs <- MCRoundTripConfigs
    StartPrices <- MCStart
    Amounts <- MCMixedAmounts
    Lags = {0}
    MaxSwaps = 2
    MaxTime = 0
    volatilityAccumulatorScaleFactor = 2
    reductionFactorDenominator = 2
    adaptiveFeeControlFactorDenominator = 4
    maxReferenceAge = 2
    feeRateHardLimit = 5
SPECIFICATION FairSpec
INVARIANT TraderNeverProfits
PROPERTY QuoteEnds
