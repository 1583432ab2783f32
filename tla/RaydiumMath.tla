----------------------------- MODULE RaydiumMath -----------------------------
(***************************************************************************)
(* math/raydium: the Q64.64 arithmetic of one concentrated-liquidity step  *)
(* and of a limit-order fill.  The code computes in big.Int, so nothing    *)
(* wraps; only the u64 bounds it tests are kept (MaxU64).  Q, the fee      *)
(* denominator and the tick table are parameters, so that small instances  *)
(* exercise the same roundings as 2^64 does.                               *)
(***************************************************************************)
EXTENDS Integers, Sequences

CONSTANTS Q,                  \* 2^64, one in Q64.64
          MaxU64,             \* 2^64 - 1
          FeeRateDenominator, \* 1_000_000
          MinTick, MaxTick,   \* -443636, 443636
          SqrtPriceMagics     \* the per-bit multipliers of get_sqrt_price_at_tick

ASSUME MathAssumption ==
    /\ Q \in Nat \ {0}
    /\ MaxU64 \in Nat
    /\ FeeRateDenominator \in Nat \ {0}
    /\ MinTick \in Int /\ MaxTick \in Int /\ MinTick < 0 /\ 0 < MaxTick
    /\ SqrtPriceMagics \in Seq(1 .. Q)

Ticks == MinTick .. MaxTick

ceilDiv(num, den) == (num \div den) + (IF num % den = 0 THEN 0 ELSE 1)

minOf(a, b) == IF a <= b THEN a ELSE b
maxOf(a, b) == IF a >= b THEN a ELSE b

\* Go's integer division truncates toward zero.
quo(a, b) == IF a >= 0 THEN a \div b ELSE -((-a) \div b)

-----------------------------------------------------------------------------
\* tick_math.go

bitSet(n, i) == (n \div 2^(i - 1)) % 2 = 1

\* sqrtRatios[n] is 1 / sqrt(1.0001)^n by the bits of n, lowest first, truncated at
\* each product.
sqrtRatios ==
    [n \in 0 .. 1 + maxOf(-MinTick, MaxTick) |->
        LET ratio[i \in 0 .. Len(SqrtPriceMagics)] ==
                IF i = 0 THEN Q
                ELSE IF bitSet(n, i) THEN (ratio[i - 1] * SqrtPriceMagics[i]) \div Q
                                     ELSE ratio[i - 1]
        IN  ratio[Len(SqrtPriceMagics)]]

SqrtPriceFromTick(tick) ==
    IF tick > 0 THEN (Q * Q - 1) \div sqrtRatios[tick] ELSE sqrtRatios[-tick]

\* The greatest tick whose price is at most sqrtPrice; the code finds it from a
\* binary logarithm good to one tick and one comparison.
TickFromSqrtPrice(sqrtPrice) ==
    CHOOSE t \in Ticks :
        /\ SqrtPriceFromTick(t) <= sqrtPrice
        /\ \A u \in Ticks : SqrtPriceFromTick(u) <= sqrtPrice => u <= t

\* A property of the table, one comparison a tick: each tick has a price of its own, one
\* tick beyond either end included.
ASSUME PriceTableAssumption ==
    \A t \in MinTick - 1 .. MaxTick :
        /\ SqrtPriceFromTick(t) \in Nat \ {0} /\ SqrtPriceFromTick(t + 1) \in Nat \ {0}
        /\ SqrtPriceFromTick(t) < SqrtPriceFromTick(t + 1)

MinSqrtPrice == SqrtPriceFromTick(MinTick)
MaxSqrtPrice == SqrtPriceFromTick(MaxTick)

PriceFromSqrtPrice(sqrtPrice, roundUp) ==
    (sqrtPrice * sqrtPrice + (IF roundUp THEN Q - 1 ELSE 0)) \div Q

LimitOrderOutput(amountIn, price, zeroForOne) ==
    IF zeroForOne THEN (amountIn * price) \div Q
    ELSE IF price = 0 THEN 0
    ELSE (amountIn * Q) \div price

LimitOrderInput(amountOut, price, zeroForOne) ==
    IF zeroForOne THEN ceilDiv(amountOut * price, Q)
    ELSE IF price = 0 THEN 0
    ELSE ceilDiv(amountOut * Q, price)

-----------------------------------------------------------------------------
\* liquidity_math.go and sqrt_price_math.go

GetDeltaAmount0Unsigned(sqrtA, sqrtB, liquidity, roundUp) ==
    LET a   == minOf(sqrtA, sqrtB)
        b   == maxOf(sqrtA, sqrtB)
        num == liquidity * Q * (b - a)
    IN  IF roundUp THEN ceilDiv(ceilDiv(num, b), a) ELSE (num \div b) \div a

\* Mutant: the output is rounded up too.
GetDeltaAmount1AlwaysUp(sqrtA, sqrtB, liquidity, roundUp) ==
    ceilDiv(liquidity * (maxOf(sqrtA, sqrtB) - minOf(sqrtA, sqrtB)), Q)

GetDeltaAmount1Unsigned(sqrtA, sqrtB, liquidity, roundUp) ==
    LET product == liquidity * (maxOf(sqrtA, sqrtB) - minOf(sqrtA, sqrtB))
    IN  IF roundUp THEN ceilDiv(product, Q) ELSE product \div Q

\* Mutant: a falling price is rounded down, past what was paid for.
NextSqrtPriceRoundedDown(sqrtPrice, liquidity, amountIn, zeroForOne) ==
    IF amountIn = 0 THEN sqrtPrice
    ELSE IF zeroForOne
    THEN (liquidity * Q * sqrtPrice) \div (liquidity * Q + amountIn * sqrtPrice)
    ELSE sqrtPrice + (amountIn * Q) \div liquidity

NextSqrtPriceFromInput(sqrtPrice, liquidity, amountIn, zeroForOne) ==
    IF amountIn = 0 THEN sqrtPrice
    ELSE IF zeroForOne
    THEN ceilDiv(liquidity * Q * sqrtPrice, liquidity * Q + amountIn * sqrtPrice)
    ELSE sqrtPrice + (amountIn * Q) \div liquidity

-----------------------------------------------------------------------------
\* swap_math.go

\* calcAmountInToTarget without its u64 bound.
amountToTarget(current, target, liquidity, zeroForOne) ==
    IF zeroForOne THEN GetDeltaAmount0Unsigned(target, current, liquidity, TRUE)
                  ELSE GetDeltaAmount1Unsigned(current, target, liquidity, TRUE)

\* The input that moves the price: all of it, or what the fee leaves.
amountForCalc(remaining, feeRate, isFeeOnInput) ==
    IF isFeeOnInput
    THEN (remaining * (FeeRateDenominator - feeRate)) \div FeeRateDenominator
    ELSE remaining

\* An amount above u64 is the None the caller treats as "target not reachable".
reachesTarget(current, target, liquidity, amount, zeroForOne) ==
    LET needed == amountToTarget(current, target, liquidity, zeroForOne)
    IN  needed <= MaxU64 /\ amount >= needed

stepPrice(current, target, liquidity, amount, zeroForOne) ==
    IF reachesTarget(current, target, liquidity, amount, zeroForOne)
    THEN target
    ELSE NextSqrtPriceFromInput(current, liquidity, amount, zeroForOne)

\* Mutant: a partial fee-on-output step leaves the dust of the input unconsumed.
ComputeSwapStepLeavingDust(current, target, liquidity, remaining, feeRate, zeroForOne, isFeeOnInput) ==
    LET next  == stepPrice(current, target, liquidity,
                           amountForCalc(remaining, feeRate, isFeeOnInput), zeroForOne)
        in    == amountToTarget(current, next, liquidity, zeroForOne)
        gross == IF zeroForOne THEN GetDeltaAmount1Unsigned(next, current, liquidity, FALSE)
                               ELSE GetDeltaAmount0Unsigned(current, next, liquidity, FALSE)
        fee   == ceilDiv(gross * feeRate, FeeRateDenominator)
    IN  IF isFeeOnInput
        THEN [sqrtPriceNext |-> next, amountIn |-> in, amountOut |-> gross,
              feeAmount |-> IF next = target
                            THEN ceilDiv(in * feeRate, FeeRateDenominator - feeRate)
                            ELSE remaining - in]
        ELSE [sqrtPriceNext |-> next, amountIn |-> in,
              amountOut |-> gross - fee, feeAmount |-> fee]

\* Where the code reads amountToTarget after the step ended on its target, that amount
\* is not the nil of a u64 overflow: see RaydiumSwap's TargetIsPaidFor.
ComputeSwapStep(current, target, liquidity, remaining, feeRate, zeroForOne, isFeeOnInput) ==
    LET next  == stepPrice(current, target, liquidity,
                           amountForCalc(remaining, feeRate, isFeeOnInput), zeroForOne)
        max   == next = target
        in    == amountToTarget(current, next, liquidity, zeroForOne)
        gross == IF zeroForOne THEN GetDeltaAmount1Unsigned(next, current, liquidity, FALSE)
                               ELSE GetDeltaAmount0Unsigned(current, next, liquidity, FALSE)
        feeIn == IF max THEN ceilDiv(in * feeRate, FeeRateDenominator - feeRate)
                        ELSE remaining - in
        feeOut == ceilDiv(gross * feeRate, FeeRateDenominator)
    IN  IF isFeeOnInput
        THEN [sqrtPriceNext |-> next, amountIn |-> in,
              amountOut |-> gross, feeAmount |-> feeIn]
        ELSE [sqrtPriceNext |-> next, amountIn |-> IF max THEN in ELSE remaining,
              amountOut |-> gross - feeOut, feeAmount |-> feeOut]

=============================================================================
