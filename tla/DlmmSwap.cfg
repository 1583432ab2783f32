CONSTANTS
    U64Max = 63
    Scale = 8
    FeePrecision = 200
    MaxFeeRate = 40
    BasisPointMax = 2
    MaxBinPerArray = 2
    minBinID <- MCMinBinID
    maxBinID = 3
    Price <- MCPrice
    Configs <- MCConfigs
    Books <- MCBooks
    Windows <- MCWindows
    Amounts <- MCAmounts
    Lags = {0, 1}
    VariableFeeScale = 4
    MaxSwaps = 2
    MaxTime = 1
SPECIFICATION Spec
INVARIANTS TypeOK DrainsInOrder IndicesCoverSwap BinPathsAgree TraderNeverProfits
