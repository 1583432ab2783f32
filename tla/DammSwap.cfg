CONSTANTS
    Q64 = 256
    Q32 = 16
    FeeDenominator = 20
    MaxBasisPoint = 10
    maxFeeNumeratorV0 = 10
    maxFeeNumeratorV1 = 18
    variableFeeScale = 8
    Pools <- MCPools
    Amounts = {1, 2, 9, 20}
    MaxSwaps = 2
    MaxPoint = 6
    MaxChunks = 16
SPECIFICATION Spec
INVARIANTS VaultsCoverPool TraderNeverProfits ExactOutIsLeast RateLimiterIsPerChunk
PROPERTY FeeOnlyDecays
CHECK_DEADLOCK FALSE
