------------------------------- MODULE DlmmMath -------------------------------
(***************************************************************************)
(* quote/dlmm/fees.go, bin_quote.go and swapAtBin of swap_quote.go: what   *)
(* one bin of a Meteora DLMM pool pays, and what it charges.  Amounts are  *)
(* u64: a cast that does not fit is an error, a plain Go + or - wraps.     *)
(* The widths, the price scale and the fee precision are parameters.       *)
(***************************************************************************)
EXTENDS Integers

CONSTANTS U64Max,        \* 2^64 - 1
          Scale,         \* 2^ScaleOffset, one in Q64.64
          FeePrecision,  \* 1_000_000_000
          MaxFeeRate,    \* 100_000_000
          BasisPointMax, \* 10_000
          MaxBinPerArray \* 70

ASSUME DlmmMathAssumption ==
    /\ U64Max \in Nat /\ Scale \in Nat \ {0}
    /\ FeePrecision \in Nat \ {0} /\ MaxFeeRate \in Nat /\ 2 * MaxFeeRate < FeePrecision
    /\ BasisPointMax \in Nat \ {0}
    /\ MaxBinPerArray \in Nat \ {0}

fits(n) == n >= 0 /\ n <= U64Max
wrap(n) == n % (U64Max + 1)

divCeil(a, b) == (a + b - 1) \div b
lesser(a, b)  == IF a <= b THEN a ELSE b

\* Mutant: a truncating division.
BinIDToArrayIndexTruncating(binID) ==
    IF binID >= 0 THEN binID \div MaxBinPerArray ELSE -((-binID) \div MaxBinPerArray)

\* Go's division truncates; the code corrects it to a floor.
BinIDToArrayIndex(binID) ==
    LET idx == IF binID >= 0 THEN binID \div MaxBinPerArray
               ELSE -((-binID) \div MaxBinPerArray)
    IN  IF binID < 0 /\ binID % MaxBinPerArray # 0 THEN idx - 1 ELSE idx

-----------------------------------------------------------------------------
\* fees.go

\* The fee on top of an amount that excludes it, and the fee inside one that includes it.
ComputeFee(amount, totalFeeRate) == divCeil(amount * totalFeeRate, FeePrecision - totalFeeRate)
ComputeFeeFromAmount(amountWithFees, totalFeeRate) ==
    divCeil(amountWithFees * totalFeeRate, FeePrecision)
ComputeProtocolFee(fee, shareBps) == (fee * shareBps) \div BasisPointMax

-----------------------------------------------------------------------------
\* bin_quote.go.  x in for y out multiplies by the price, y in for x out divides.

GetAmountInFromAmountOut(amountOut, price, swapForY) ==
    IF swapForY THEN divCeil(amountOut * Scale, price) ELSE divCeil(amountOut * price, Scale)

\* Mutant: the output is rounded up.
GetAmountOutRoundedUp(amountIn, price, swapForY) ==
    IF swapForY THEN divCeil(amountIn * price, Scale) ELSE divCeil(amountIn * Scale, price)

GetAmountOutFromAmountIn(amountIn, price, swapForY) ==
    IF swapForY THEN (amountIn * price) \div Scale ELSE (amountIn * Scale) \div price

GetMaxAmountOut(reserves, swapForY) == IF swapForY THEN reserves.y ELSE reserves.x

\* QuoteSwapOnBin: Bin::swap on one bin; reserves is [x, y].
QuoteSwapOnBin(amountIn, reserves, price, swapForY, rate, protocolShareBps, hostFeeBps) ==
    LET maxOut      == GetMaxAmountOut(reserves, swapForY)
        maxIn       == GetAmountInFromAmountOut(maxOut, price, swapForY)
        maxFee      == ComputeFee(maxIn, rate)
        all         == amountIn > maxIn + maxFee
        fee         == IF all THEN maxFee ELSE ComputeFeeFromAmount(amountIn, rate)
        withFees    == IF all THEN maxIn + maxFee ELSE amountIn
        out         == IF all THEN maxOut
                       ELSE lesser(GetAmountOutFromAmountIn(amountIn - fee, price, swapForY), maxOut)
        protocolFee == ComputeProtocolFee(fee, protocolShareBps)
        hostFee     == (protocolFee * hostFeeBps) \div BasisPointMax
        into        == withFees - fee
        after       == IF swapForY THEN [x |-> reserves.x + into, y |-> reserves.y - out]
                                   ELSE [x |-> reserves.x - out, y |-> reserves.y + into]
    IN  [ok |-> /\ fits(maxIn) /\ fits(maxFee) /\ fits(maxIn + maxFee)
                /\ fits(protocolFee - hostFee) /\ fits(into)
                /\ all \/ fits(GetAmountOutFromAmountIn(amountIn - fee, price, swapForY))
                /\ fits(after.x) /\ fits(after.y),
         amountInWithFees |-> withFees, amountOut |-> out, fee |-> fee,
         protocolFeeAfterHost |-> protocolFee - hostFee, hostFee |-> hostFee,
         amountIntoBin |-> into, reserves |-> after]

-----------------------------------------------------------------------------
\* swap_quote.go

\* Mutant: an input that exactly empties the bin is priced as a partial fill.
swapAtBinStrict(amountIn, maxOut, price, swapForY, feeOnInput, rate) ==
    LET excludedIn == IF feeOnInput THEN amountIn - ComputeFeeFromAmount(amountIn, rate)
                                    ELSE amountIn
        maxIn      == GetAmountInFromAmountOut(maxOut, price, swapForY)
        out        == IF excludedIn > maxIn THEN maxOut
                      ELSE GetAmountOutFromAmountIn(excludedIn, price, swapForY)
        used       == lesser(excludedIn, maxIn)
    IN  [ok |-> TRUE, gross |-> out, used |-> used, out |-> out,
         consumed |-> IF used < excludedIn THEN used + ComputeFee(used, rate) ELSE amountIn]

\* Mutant: the leftover is taken from the input before its fee.
swapAtBinLeftoverWithFee(amountIn, maxOut, price, swapForY, feeOnInput, rate) ==
    LET excludedIn == IF feeOnInput THEN amountIn - ComputeFeeFromAmount(amountIn, rate)
                                    ELSE amountIn
        maxIn      == GetAmountInFromAmountOut(maxOut, price, swapForY)
        out        == IF excludedIn >= maxIn THEN maxOut
                      ELSE GetAmountOutFromAmountIn(excludedIn, price, swapForY)
        leftover   == IF excludedIn >= maxIn THEN amountIn - maxIn ELSE 0
        used       == wrap(excludedIn - leftover)
    IN  [ok |-> TRUE, gross |-> out, used |-> used, out |-> out,
         consumed |-> IF leftover > 0 THEN wrap(used + ComputeFee(used, rate)) ELSE amountIn]

\* swapAtBin: the input consumed, fee included, and the output without its fee.
\* used and gross, the amounts the bin itself takes and gives, are kept for the pool.
swapAtBin(amountIn, maxOut, price, swapForY, feeOnInput, rate) ==
    LET feeIn      == IF feeOnInput THEN ComputeFeeFromAmount(amountIn, rate) ELSE 0
        excludedIn == wrap(amountIn - feeIn)
        maxIn      == GetAmountInFromAmountOut(maxOut, price, swapForY)
        full       == excludedIn >= maxIn
        out        == IF full THEN maxOut
                      ELSE GetAmountOutFromAmountIn(excludedIn, price, swapForY)
        leftover   == IF full THEN excludedIn - maxIn ELSE 0
        used       == excludedIn - leftover
        feeUsed    == IF feeOnInput /\ leftover > 0 THEN ComputeFee(used, rate) ELSE 0
        feeOut     == IF feeOnInput THEN 0 ELSE ComputeFeeFromAmount(out, rate)
    IN  [ok |-> fits(feeIn) /\ fits(maxIn) /\ fits(out) /\ fits(feeUsed) /\ fits(feeOut),
         consumed |-> IF leftover > 0 THEN wrap(used + feeUsed) ELSE amountIn,
         out |-> wrap(out - feeOut),
         gross |-> out,
         used |-> used]

=============================================================================
