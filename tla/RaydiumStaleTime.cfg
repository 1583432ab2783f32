CONSTANTS
    Q = 64
    MaxU64 = 63
    FeeRateDenominator = 20
    MinTick <- MCMinTick
    MaxTick = 5
    SqrtPriceMagics <- MCMagics
    Configs <- MCDynamicConfigs
    HasLiquidity <- MCEdges
    Books <- MCBooks
    StartPrices <- MCStart
    Reaches = {10}
    Amounts <- MCAmounts
    Lags = {0, 1}
    MaxSwaps = 1
    MaxTime = 3
    volatilityAccumulatorScale = 2
    reductionFactorDenominator = 2
    dynamicFeeControlDenominator = 4
    maxFeeRateNumerator = 4
SPECIFICATION Spec
INVARIANTS StaleTimeOverQuotesFee
