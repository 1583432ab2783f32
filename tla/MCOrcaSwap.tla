------------------------------ MODULE MCOrcaSwap ------------------------------
(***************************************************************************)
(* Small Whirlpools: one is 64 instead of 2^64, a tick moves the sqrt      *)
(* price by about a ninth, ticks -9 .. 9, spacing 2, two ticks per array.  *)
(* Two positions around the price, a gap without liquidity below it, a     *)
(* position below the gap, and nothing at either end.                      *)
(***************************************************************************)
EXTENDS OrcaSwap

MCMin      == -9
MCPositive == <<1150, 1292, 1631, 2597>>
MCNegative == <<57, 51, 41, 26>>

MCInitialized == {-8, -4, 0, 2, 6}
MCNet == [t \in MCInitialized |->
             CASE t = -8 -> 20 [] t = -4 -> -20 [] t = 0 -> 35 [] t = 2 -> -15 [] t = 6 -> -20]
MCDeepNet == [t \in MCInitialized |-> 20 * MCNet[t]]

Static(rate) ==
    [feeRate |-> rate, adaptive |-> FALSE, filterPeriod |-> 0, decayPeriod |-> 0,
     reductionFactor |-> 0, controlFactor |-> 0, maxAccumulator |-> 0, tickGroupSize |-> 1,
     majorThreshold |-> 0, tradeEnable |-> 0, unverifiedVortex |-> FALSE, liquidityNet |-> MCNet]
Deep(config) == [config EXCEPT !.liquidityNet = MCDeepNet]

Adaptive(rate, size, cap) ==
    [Static(rate) EXCEPT !.adaptive = TRUE, !.filterPeriod = 1, !.decayPeriod = 2,
        !.reductionFactor = 1, !.controlFactor = 1, !.maxAccumulator = cap,
        !.tickGroupSize = size, !.majorThreshold = 3]

MCConfigs ==
    {Static(1), Adaptive(1, 2, 3), Adaptive(1, 1, 3), Adaptive(0, 2, 0),
     [Adaptive(1, 2, 3) EXCEPT !.controlFactor = 0],
     [Adaptive(1, 2, 3) EXCEPT !.tradeEnable = 2],
     [Static(1) EXCEPT !.unverifiedVortex = TRUE]}
MCRoundTripConfigs == {Static(0), Adaptive(0, 2, 3), Deep(Static(1)), Deep(Adaptive(1, 1, 3))}

MCStart        == {64, 60, 75}
MCEveryStart   == {SqrtPriceFromTickIndex(t) : t \in {-8, -5, -4, -1, 0, 1, 4, 7}}
MCAmounts      == {0, 1, 2, 5, 9, 13, 20, 60}
MCMixedAmounts == {1, 2, 4, 60}

=============================================================================
