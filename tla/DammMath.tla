------------------------------- MODULE DammMath -------------------------------
(***************************************************************************)
(* quote/damm and math/damm, and the base-fee schedules of models/damm_*:  *)
(* what a Meteora DAMM v2 pool pays, on its compounding and on its         *)
(* concentrated curve, and the fee it charges at a point in time.          *)
(* Err stands for every error; a u64 operation that Go does not check      *)
(* wraps.  Products of two u64 fit a u128, so MulChecked never refuses.    *)
(***************************************************************************)
EXTENDS Integers

CONSTANTS Q64, Q32,           \* 2^64, 2^32
          FeeDenominator,     \* 1_000_000_000
          MaxBasisPoint,      \* 10_000
          maxFeeNumeratorV0, maxFeeNumeratorV1,  \* 50% and 99%
          variableFeeScale    \* 100_000_000_000

ASSUME DammMathAssumption ==
    /\ Q64 \in Nat \ {0} /\ Q32 \in Nat \ {0} /\ variableFeeScale \in Nat \ {0}
    /\ FeeDenominator \in Nat \ {0} /\ MaxBasisPoint \in Nat \ {0}
    /\ FeeDenominator < Q64 /\ MaxBasisPoint <= Q64
    /\ maxFeeNumeratorV0 \in 0 .. FeeDenominator - 1
    /\ maxFeeNumeratorV1 \in 0 .. FeeDenominator - 1

Err    == -1
Failed == <<>>
U64Max == Q64 - 1
u64    == 0 .. U64Max

wrap(n) == n % Q64
castToUnsigned(n) == IF n \in u64 THEN n ELSE Err
divCeil(a, b)  == (a + b - 1) \div b
lesser(a, b)   == IF a <= b THEN a ELSE b

SafeMulDivCastU64(x, y, denominator, roundUp) ==
    IF denominator = 0 THEN Err
    ELSE castToUnsigned(IF roundUp THEN divCeil(x * y, denominator) ELSE (x * y) \div denominator)

-----------------------------------------------------------------------------
\* quote/damm/fees.go

GetExcludedFeeAmount(tradeFeeNumerator, included) ==
    LET fee == SafeMulDivCastU64(included, tradeFeeNumerator, FeeDenominator, TRUE)
    IN  IF fee = Err THEN Failed ELSE [amount |-> wrap(included - fee), fee |-> fee]

\* Mutant: the fee is taken of the net amount instead of the gross one.
GetIncludedFeeAmountOfNet(tradeFeeNumerator, excluded) ==
    LET fee == SafeMulDivCastU64(excluded, tradeFeeNumerator, FeeDenominator, TRUE)
    IN  IF fee = Err THEN Failed ELSE [amount |-> wrap(excluded + fee), fee |-> fee]

\* The denominator is an unsigned subtraction.
GetIncludedFeeAmount(tradeFeeNumerator, excluded) ==
    LET included == SafeMulDivCastU64(excluded, FeeDenominator,
                                      wrap(FeeDenominator - tradeFeeNumerator), TRUE)
    IN  IF included = Err THEN Failed
        ELSE [amount |-> included, fee |-> wrap(included - excluded)]

\* Mutant: what is compounded is also left to claim.
SplitTradingFeesTwice(fee, split) ==
    LET protocol    == SafeMulDivCastU64(fee, split.protocol, 100, FALSE)
        trading     == wrap(fee - protocol)
        compounding == SafeMulDivCastU64(trading, split.compounding, MaxBasisPoint, FALSE)
    IN  [claiming |-> trading, compounding |-> compounding, protocol |-> protocol, referral |-> 0]

\* split is [protocol, compounding, referral, hasReferral], in percent and basis points.
SplitTradingFees(fee, split) ==
    LET protocol    == SafeMulDivCastU64(fee, split.protocol, 100, FALSE)
        trading     == wrap(fee - protocol)
        compounding == SafeMulDivCastU64(trading, split.compounding, MaxBasisPoint, FALSE)
        referral    == IF split.hasReferral THEN SafeMulDivCastU64(protocol, split.referral, 100, FALSE) ELSE 0
    IN  IF Err \in {protocol, compounding, referral} THEN Failed
        ELSE [claiming |-> wrap(trading - compounding), compounding |-> compounding,
              protocol |-> wrap(protocol - referral), referral |-> referral]

\* The amount without its fee, and the split of the fee.
GetFeeOnAmount(amount, tradeFeeNumerator, split) ==
    LET excluded == GetExcludedFeeAmount(tradeFeeNumerator, amount)
        parts    == IF excluded = Failed THEN Failed ELSE SplitTradingFees(excluded.fee, split)
    IN  IF parts = Failed THEN Failed ELSE [amount |-> excluded.amount, fees |-> parts]

-----------------------------------------------------------------------------
\* quote/damm/compounding_quote.go.  Token i comes in; token 1 is A.

other(i) == 3 - i

\* AtoB and BtoA; the sum of reserve and input is not checked.
compoundingFromAmountIn(reserves, i, amountIn) ==
    SafeMulDivCastU64(reserves[other(i)], amountIn, wrap(reserves[i] + amountIn), FALSE)

\* Mutant: the input is rounded down.
compoundingFromAmountOutDown(reserves, i, amountOut) ==
    SafeMulDivCastU64(reserves[i], amountOut, wrap(reserves[other(i)] - amountOut), FALSE)

compoundingFromAmountOut(reserves, i, amountOut) ==
    SafeMulDivCastU64(reserves[i], amountOut, wrap(reserves[other(i)] - amountOut), TRUE)

compoundingInputForOutput(reserves, i, amountOut) ==
    IF amountOut >= reserves[other(i)] THEN Err ELSE compoundingFromAmountOut(reserves, i, amountOut)

swapResult(included, excluded, out, fees) ==
    [included |-> included, excluded |-> excluded, out |-> out, fees |-> fees]

QuoteExactInCompounding(amountIn, reserves, i, tradeFeeNumerator, onInput, split) ==
    LET onIn  == GetFeeOnAmount(amountIn, tradeFeeNumerator, split)
        net   == IF ~onInput THEN amountIn ELSE IF onIn = Failed THEN Err ELSE onIn.amount
        out   == IF net = Err THEN Err ELSE compoundingFromAmountIn(reserves, i, net)
        onOut == GetFeeOnAmount(out, tradeFeeNumerator, split)
    IN  IF out = Err THEN Failed
        ELSE IF onInput THEN swapResult(amountIn, net, out, onIn.fees)
        ELSE IF onOut = Failed THEN Failed
        ELSE swapResult(amountIn, amountIn, onOut.amount, onOut.fees)

QuoteExactOutCompounding(amountOut, reserves, i, tradeFeeNumerator, onInput, split) ==
    LET gross  == IF onInput THEN [amount |-> amountOut, fee |-> 0]
                  ELSE GetIncludedFeeAmount(tradeFeeNumerator, amountOut)
        net    == IF gross = Failed THEN Err ELSE compoundingInputForOutput(reserves, i, gross.amount)
        paid   == IF net = Err THEN Failed
                  ELSE IF onInput THEN GetIncludedFeeAmount(tradeFeeNumerator, net)
                  ELSE [amount |-> net, fee |-> gross.fee]
        parts  == IF paid = Failed THEN Failed ELSE SplitTradingFees(paid.fee, split)
    IN  IF parts = Failed THEN Failed ELSE swapResult(paid.amount, net, amountOut, parts)

-----------------------------------------------------------------------------
\* math/damm/curve_math.go

\* Both roundings keep the price on the pool's side.
GetNextSqrtPriceFromInput(sqrtPrice, liquidity, amountIn, aForB) ==
    IF sqrtPrice <= 0 \/ liquidity <= 0 THEN Err
    ELSE IF amountIn = 0 THEN sqrtPrice
    ELSE IF aForB THEN divCeil(liquidity * sqrtPrice, liquidity + amountIn * sqrtPrice)
    ELSE sqrtPrice + (amountIn * Q64 * Q64) \div liquidity

GetDeltaAmountA(lower, upper, liquidity, roundUp) ==
    LET n == liquidity * (upper - lower)
    IN  IF lower <= 0 \/ upper <= 0 THEN Err
        ELSE castToUnsigned(IF roundUp THEN divCeil(n, lower * upper) ELSE n \div (lower * upper))

GetDeltaAmountB(lower, upper, liquidity, roundUp) ==
    LET n == liquidity * (upper - lower)
    IN  IF upper < lower THEN Err
        ELSE castToUnsigned(IF roundUp THEN divCeil(n, Q64 * Q64) ELSE n \div (Q64 * Q64))

-----------------------------------------------------------------------------
\* quote/damm/concentrated_quote.go.  pool is a ConcentratedPool.

CollectFeeModeOnlyB       == 1
CollectFeeModeCompounding == 2

feeOnInput(collectFeeMode, aToB) == collectFeeMode = CollectFeeModeOnlyB /\ ~aToB

variableFee(pool) ==
    LET vfaBin == pool.volatilityAccumulator * pool.binStep
    IN  (vfaBin * vfaBin * pool.variableFeeControl + variableFeeScale - 1) \div variableFeeScale

totalTradingFeeNumerator(pool) ==
    lesser(pool.baseFeeNumerator + (IF pool.dynamicFeeInitialized THEN variableFee(pool) ELSE 0),
           IF pool.feeVersion = 0 THEN maxFeeNumeratorV0 ELSE maxFeeNumeratorV1)

\* A price past the pool's range is ErrPriceRangeViolation.
concentratedOutput(amountIn, aToB, pool) ==
    LET next == GetNextSqrtPriceFromInput(pool.sqrtPrice, pool.liquidity, amountIn, aToB)
        past == IF aToB THEN next < pool.sqrtMinPrice ELSE next > pool.sqrtMaxPrice
    IN  IF next = Err \/ past THEN Err
        ELSE IF aToB THEN GetDeltaAmountB(next, pool.sqrtPrice, pool.liquidity, FALSE)
        ELSE GetDeltaAmountA(pool.sqrtPrice, next, pool.liquidity, FALSE)

\* What reaches the curve; with a capped numerator GetFeeOnAmount does not fail.
netInput(amountIn, aToB, pool) ==
    IF feeOnInput(pool.collectFeeMode, aToB)
    THEN GetExcludedFeeAmount(totalTradingFeeNumerator(pool), amountIn).amount ELSE amountIn

QuoteConcentratedExactIn(amountIn, aToB, pool) ==
    LET gross == concentratedOutput(netInput(amountIn, aToB, pool), aToB, pool)
    IN  IF pool.collectFeeMode = CollectFeeModeCompounding \/ gross = Err THEN Err
        ELSE IF feeOnInput(pool.collectFeeMode, aToB) THEN gross
        ELSE GetExcludedFeeAmount(totalTradingFeeNumerator(pool), gross).amount

=============================================================================
