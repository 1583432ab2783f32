---------------------------- MODULE MCRaydiumSwap ----------------------------
(***************************************************************************)
(* Small Raydium pools: one is 64 instead of 2^64, a tick moves the sqrt   *)
(* price by about a ninth, ticks -5 .. 5, spacing 2.  A wide position, a   *)
(* narrow one, and limit orders above and below the price, one of them on  *)
(* a tick without liquidity.                                               *)
(***************************************************************************)
EXTENDS RaydiumSwap, TLC

MCMinTick == -5
MCMagics == <<57, 51, 41, 26>>

MCNet == [t \in Ticks |-> CASE t = -4 -> 20 [] t = 4 -> -20
                            [] t = 0 -> 15 [] t = 2 -> -15 [] OTHER -> 0]
MCEdges == {-4, 0, 2, 4}

Config(rate, on) ==
    [feeRate |-> rate, feeOn |-> on, tickSpacing |-> 2, swapDisabled |-> FALSE, noAmmConfig |-> FALSE,
     undecoded |-> FALSE, dynamic |-> FALSE, filterPeriod |-> 0, decayPeriod |-> 0,
     reductionFactor |-> 0, feeControl |-> 0, maxAccumulator |-> 0, liquidityNet |-> MCNet]

Dynamic(config) ==
    [config EXCEPT !.dynamic = TRUE, !.filterPeriod = 1, !.decayPeriod = 2,
                   !.reductionFactor = 1, !.feeControl = 1, !.maxAccumulator = 5]

\* So much liquidity that a tick may cost more than a u64.
Deep(config) == [config EXCEPT !.liquidityNet = [t \in Ticks |-> 20 * MCNet[t]]]

MCConfigs == {Config(1, 0), Config(1, 1), Config(1, 2), Dynamic(Config(1, 0)),
              Dynamic(Config(1, 1)), Deep(Config(1, 1)), Deep(Dynamic(Config(1, 0))),
              [Config(1, 0) EXCEPT !.swapDisabled = TRUE],
              [Config(1, 0) EXCEPT !.noAmmConfig = TRUE],
              [Config(1, 0) EXCEPT !.undecoded = TRUE]}
MCFreeConfigs == {Config(0, 0), Config(1, 1), Dynamic(Config(1, 0))}
MCDynamicConfigs == {Dynamic(Config(1, 0))}

NoOrders == [t \in Ticks |-> 0]
MCBooks  == {NoOrders, [NoOrders EXCEPT ![-2] = 3, ![2] = 4]}

MCStart     == {SqrtPriceFromTick(0), 60, 75}
MCAmounts   == {0, 1, 2, 8, 60}
MCSmallAmounts == 1 .. 6

=============================================================================
