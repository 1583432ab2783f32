CONSTANTS
    Q = 64
    MaxU64 = 63
    FeeRateDenominator = 20
    MinTick <- MCMinTick
    MaxTick = 5
    SqrtPriceMagics <- MCMagics
    Configs <- MCFreeConfigs
    HasLiquidity <- MCEdges
    Books <- MCBooks
    StartPrices <- MCStart
    Reaches = {10}
    Amounts <- MCSmallAmounts
    Lags = {0}
    MaxSwaps = 3
    MaxTime = 1
    volatilityAccumulatorScale = 2
    reductionFactorDenominator = 2
    dynamicFeeControlDenominator = 4
    maxFeeRateNumerator = 4
SPECIFICATION Spec
INVARIANT TraderNeverProfits
