------------------------------- MODULE OrcaMath -------------------------------
(***************************************************************************)
(* math/orca and the step of quote/orca/swap_quote.go: one exact-in step   *)
(* along a Whirlpool's curve in Q64.64.  The code computes in big.Int;     *)
(* the u64 bounds it tests are kept.  The widths, the fee denominator and  *)
(* the tick multipliers are parameters.                                    *)
(***************************************************************************)
EXTENDS Integers, Sequences

CONSTANTS Q64, Q96,                    \* 2^64, 2^96
          MaxU64,                      \* 2^64 - 1
          feeRateMulValue,             \* 1_000_000
          MinTickIndex, MaxTickIndex,  \* -443636, 443636
          positiveTickMultipliers,     \* per-bit ratios of ticks >= 0, over Q96
          negativeTickMultipliers      \* per-bit ratios of ticks < 0, over Q64

ASSUME OrcaMathAssumption ==
    /\ Q64 \in Nat \ {0} /\ Q96 \in Nat \ {0} /\ Q96 % Q64 = 0
    /\ MaxU64 \in Nat
    /\ feeRateMulValue \in Nat \ {0}
    /\ MinTickIndex \in Int /\ MaxTickIndex \in Int /\ MinTickIndex < 0 /\ 0 < MaxTickIndex
    /\ positiveTickMultipliers \in Seq(Nat) /\ negativeTickMultipliers \in Seq(Nat)

divCeil(num, den) == (num \div den) + (IF num % den = 0 THEN 0 ELSE 1)

bigMin(a, b) == IF a <= b THEN a ELSE b
bigMax(a, b) == IF a >= b THEN a ELSE b

\* Go's integer division truncates toward zero, and its remainder has the sign of
\* the dividend.
goQuo(a, b) == IF a >= 0 THEN a \div b ELSE -((-a) \div b)
goRem(a, b) == a - b * goQuo(a, b)

-----------------------------------------------------------------------------
\* tick_math.go

TickIndexes == MinTickIndex .. MaxTickIndex

\* The product, truncated at each factor, of the multipliers of n's bits.
ratioOf(n, multipliers, one) ==
    LET ratio[i \in 0 .. Len(multipliers)] ==
            IF i = 0 THEN one
            ELSE IF (n \div 2^(i - 1)) % 2 = 1 THEN (ratio[i - 1] * multipliers[i]) \div one
            ELSE ratio[i - 1]
    IN  ratio[Len(multipliers)]

\* One tick past each end: a walk down that reaches the first tick moves behind it.
sqrtPrices ==
    [t \in MinTickIndex - 1 .. MaxTickIndex + 1 |->
        IF t >= 0 THEN ratioOf(t, positiveTickMultipliers, Q96) \div (Q96 \div Q64)
                  ELSE ratioOf(-t, negativeTickMultipliers, Q64)]

SqrtPriceFromTickIndex(tick) == sqrtPrices[tick]

\* The tables of ratios give every tick a price of its own, rising with the tick.
ASSUME PriceTableAssumption ==
    \A t \in MinTickIndex - 1 .. MaxTickIndex :
        /\ sqrtPrices[t] \in Nat \ {0} /\ sqrtPrices[t + 1] \in Nat \ {0}
        /\ sqrtPrices[t] < sqrtPrices[t + 1]

\* The greatest tick whose price is at most sqrtPrice; the code finds it from a
\* binary logarithm good to one tick and one comparison.
TickIndexFromSqrtPrice(sqrtPrice) ==
    CHOOSE t \in TickIndexes :
        /\ sqrtPrices[t] <= sqrtPrice
        /\ \A u \in TickIndexes : sqrtPrices[u] <= sqrtPrice => u <= t

MinSqrtPrice == SqrtPriceFromTickIndex(MinTickIndex)
MaxSqrtPrice == SqrtPriceFromTickIndex(MaxTickIndex)

-----------------------------------------------------------------------------
\* curve_math.go, exact-in side

GetDeltaAmountA(sqrtPrice0, sqrtPrice1, liquidity, roundUp) ==
    LET lower       == bigMin(sqrtPrice0, sqrtPrice1)
        upper       == bigMax(sqrtPrice0, sqrtPrice1)
        numerator   == liquidity * (upper - lower) * Q64
    IN  IF roundUp THEN divCeil(numerator, upper * lower) ELSE numerator \div (upper * lower)

GetDeltaAmountB(sqrtPrice0, sqrtPrice1, liquidity, roundUp) ==
    LET product == liquidity * (bigMax(sqrtPrice0, sqrtPrice1) - bigMin(sqrtPrice0, sqrtPrice1))
    IN  IF roundUp THEN divCeil(product, Q64) ELSE product \div Q64

\* NextSqrtPrice with isInput: a falling price is rounded up, a rising one down.
NextSqrtPrice(sqrtPrice, liquidity, amount, aToB) ==
    IF ~aToB THEN sqrtPrice + (amount * Q64) \div liquidity
    ELSE IF amount = 0 THEN sqrtPrice
    ELSE divCeil(liquidity * sqrtPrice * Q64, liquidity * Q64 + sqrtPrice * amount)

-----------------------------------------------------------------------------
\* swap_quote.go: computeSwapStep

fixedDelta(current, target, liquidity, aToB) ==
    IF aToB THEN GetDeltaAmountA(current, target, liquidity, TRUE)
            ELSE GetDeltaAmountB(current, target, liquidity, TRUE)

\* Mutant: the output is rounded like the input.
unfixedDeltaUp(current, next, liquidity, aToB) == fixedDelta(current, next, liquidity, ~aToB)

unfixedDelta(current, next, liquidity, aToB) ==
    IF aToB THEN GetDeltaAmountB(current, next, liquidity, FALSE)
            ELSE GetDeltaAmountA(current, next, liquidity, FALSE)

\* Mutant: a step that stops short charges the rate on what it used, and leaves dust.
stepFeeOnUsed(amountRemaining, amountIn, feeRate, isMaxSwap) ==
    divCeil(amountIn * feeRate, feeRateMulValue - feeRate)

stepFee(amountRemaining, amountIn, feeRate, isMaxSwap) ==
    IF isMaxSwap THEN divCeil(amountIn * feeRate, feeRateMulValue - feeRate)
                 ELSE amountRemaining - amountIn

\* Mutant: the fee is not taken off the input before the curve is run on it.
postFeeAmountWhole(amountRemaining, feeRate) == amountRemaining

postFeeAmount(amountRemaining, feeRate) ==
    (amountRemaining * (feeRateMulValue - feeRate)) \div feeRateMulValue

\* An amount to the target above u64 counts as out of reach.  ok is FALSE where an
\* amount of the step does not fit a u64.
computeSwapStep(amountRemaining, feeRate, liquidity, current, target, aToB) ==
    LET amountCalc == postFeeAmount(amountRemaining, feeRate)
        whole      == fixedDelta(current, target, liquidity, aToB)
        next       == IF whole <= MaxU64 /\ whole <= amountCalc THEN target
                      ELSE NextSqrtPrice(current, liquidity, amountCalc, aToB)
        in         == fixedDelta(current, next, liquidity, aToB)
        out        == unfixedDelta(current, next, liquidity, aToB)
        fee        == stepFee(amountRemaining, in, feeRate, next = target)
    IN  [amountIn |-> in, amountOut |-> out, feeAmount |-> fee, nextPrice |-> next,
         ok |-> in <= MaxU64 /\ out <= MaxU64 /\ fee <= MaxU64]

=============================================================================
