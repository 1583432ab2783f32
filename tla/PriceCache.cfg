CONSTANTS
    g1 = g1
    g2 = g2
    Nil = Nil
    Overflow = Overflow
    Goroutines <- MCGoroutines
    Inputs <- MCInputs
    Prices <- MCPrices
    ComputePrice <- MCCompute
    Objects = {1, 2, 3, 4}
    HalfInt32 = 2
    MaxStep = 2
    KeyWord = 16
    GoldenRatio = 11
    SlotShift = 8
SPECIFICATION FairSpec
INVARIANTS TypeOK SlotHoldsItsPrice ResultsUnaliased
PROPERTIES ImplementsOracle EveryCallReturns
