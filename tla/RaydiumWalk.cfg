CONSTANTS
    Q = 64
    MaxU64 = 63
    FeeRateDenominator = 20
    MinTick <- MCMinTick
    MaxTick = 5
    SqrtPriceMagics <- MCMagics
    Configs <- MCConfigs
    HasLiquidity <- MCEdges
    Books <- MCBooks
    StartPrices <- MCStart
    Reaches = {3, 10}
    Amounts <- MCAmounts
    Lags = {0}
    MaxSwaps = 1
    MaxTime = 2
    volatilityAccumulatorScale = 2
    reductionFactorDenominator = 2
    dynamicFeeControlDenominator = 4
    maxFeeRateNumerator = 4
SPECIFICATION FairSpec
INVARIANTS TypeOK TickMatchesPrice LiquidityMatchesTick GroupHoldsPrice NeverOverdrawn OrdersFilledOnce TargetIsPaidFor
PROPERTIES WalkGoesOneWay QuoteEnds
