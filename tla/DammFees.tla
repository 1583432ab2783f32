------------------------------- MODULE DammFees -------------------------------
(***************************************************************************)
(* The base fee of a DAMM v2 pool: models/damm_base_fee.go (the blob),     *)
(* damm_base_fee_schedule.go and math/damm/fee_math.go (schedules in       *)
(* time), damm_rate_limiter.go (a fee that grows with the input).          *)
(***************************************************************************)
EXTENDS DammMath

TimeLinear == 0
TimeExponential == 1
RateLimiter == 2
Mcap == {3, 4}

\* The 32-byte blob: a u64, the mode, a u16 at 14, two u32 at 16 and 20 that the time
\* schedulers read as one u64, a u64 at 24.
ParseDAMMBaseFee(b) ==
    CASE b.mode = RateLimiter ->
             [mode |-> b.mode, cliff |-> b.cliff, feeIncrementBps |-> b.at14,
              maxLimiterDuration |-> b.at16, maxFeeBps |-> b.at20, referenceAmount |-> b.at24]
      [] b.mode \in Mcap ->
             [mode |-> b.mode, cliff |-> b.cliff, numberOfPeriod |-> b.at14,
              sqrtPriceStepBps |-> b.at16, expirationDuration |-> b.at20, reductionFactor |-> b.at24]
      [] OTHER ->
             [mode |-> b.mode, cliff |-> b.cliff, numberOfPeriod |-> b.at14,
              periodFrequency |-> b.at16 + Q32 * b.at20, reductionFactor |-> b.at24]

\* Asked only of the time schedulers; any other mode is not static.
IsStatic(f) == f.periodFrequency = 0 \/ f.numberOfPeriod = 0 \/ f.reductionFactor = 0

\* Mutant: the periods are cut to a narrow integer before the cap.
timeSchedulerPeriodNarrow(f, point, activation) ==
    IF point <= activation THEN 0
    ELSE lesser(((point - activation) \div f.periodFrequency) % 4, f.numberOfPeriod)

timeSchedulerPeriod(f, point, activation) ==
    IF point <= activation \/ f.periodFrequency = 0 THEN 0
    ELSE lesser((point - activation) \div f.periodFrequency, f.numberOfPeriod)

GetFeeInPeriodLinear(cliff, reductionFactor, period) ==
    IF reductionFactor * period >= cliff THEN 0 ELSE cliff - reductionFactor * period

\* The loop of Pow in Q64.64, each product rounded down: the base squared k times, and
\* the product of the squares that the k low bits of the exponent select.
squares(base) ==
    LET squared[k \in 0 .. 18] ==
            IF k = 0 THEN base ELSE (squared[k - 1] * squared[k - 1]) \div Q64
    IN  squared

powers(squared, exp) ==
    LET result[k \in 0 .. 19] ==
            IF k = 0 THEN Q64
            ELSE IF (exp \div 2 ^ (k - 1)) % 2 = 1 THEN (result[k - 1] * squared[k - 1]) \div Q64
            ELSE result[k - 1]
    IN  result

\* A base of one or more, and a negative exponent, go through the inverse.  A result of
\* zero is an error.
Pow(base, exp) ==
    LET u128Max == Q64 * Q64 - 1
        absExp == IF exp < 0 THEN -exp ELSE exp
        start  == IF base >= Q64 THEN u128Max \div base ELSE base
        invert == (exp < 0) # (base >= Q64)
        result == powers(squares(start), absExp)[19]
    IN  IF exp = 0 THEN Q64
        ELSE IF absExp >= 2 ^ 19 \/ result = 0 THEN Err
        ELSE IF invert THEN u128Max \div result ELSE result

GetFeeInPeriod(cliff, reductionFactor, period) ==
    LET base == Q64 - (reductionFactor * Q64) \div MaxBasisPoint
        rate == IF base < 0 THEN Err ELSE Pow(base, period)
    IN  IF reductionFactor = 0 THEN cliff
        ELSE IF rate = Err THEN Err
        ELSE castToUnsigned((rate * cliff) \div Q64)

\* A rate limiter has no one numerator, and the market-cap schedules are not known.
CurrentBaseFeeNumerator(f, point, activation) ==
    LET period == timeSchedulerPeriod(f, point, activation)
    IN  IF f.mode \notin {TimeLinear, TimeExponential} THEN Err
        ELSE IF IsStatic(f) THEN f.cliff
        ELSE IF f.mode = TimeLinear THEN GetFeeInPeriodLinear(f.cliff, f.reductionFactor, period)
        ELSE GetFeeInPeriod(f.cliff, f.reductionFactor, period)

-----------------------------------------------------------------------------
bpsToFeeNumerator == FeeDenominator \div MaxBasisPoint

RateLimiterApplies(f, point, activation, isBtoA) ==
    /\ f.mode = RateLimiter /\ isBtoA
    /\ f.referenceAmount # 0 /\ f.maxLimiterDuration # 0
    /\ point >= activation /\ point - activation <= f.maxLimiterDuration

ceilDivFeeDenominator(n) == castToUnsigned(divCeil(n, FeeDenominator))

\* Mutant: the chunk in which the cap is reached is charged the cap.
maxIndexRoundedUp(c, incr, maxFee) == divCeil(maxFee - c, incr)

\* The last chunk before the cap.
maxIndex(c, incr, maxFee) == (maxFee - c) \div incr

\* The rates of the chunks 0 .. n, added up.
chunkSum(c, incr, n) == c + c * n + incr * ((n * (n + 1)) \div 2)

RateLimiterFee(f, inputAmount) ==
    LET c      == f.cliff
        x0     == f.referenceAmount
        incr   == f.feeIncrementBps * bpsToFeeNumerator
        maxFee == f.maxFeeBps * bpsToFeeNumerator
        a      == (inputAmount - x0) \div x0
        b      == (inputAmount - x0) % x0
        m      == maxIndex(c, incr, maxFee)
    IN  IF f.mode # RateLimiter THEN Err
        ELSE IF x0 = 0 \/ incr = 0 \/ maxFee <= c \/ inputAmount <= x0
        THEN ceilDivFeeDenominator(inputAmount * c)
        ELSE IF a < m
        THEN ceilDivFeeDenominator(x0 * chunkSum(c, incr, a) + b * (c + incr * (a + 1)))
        ELSE ceilDivFeeDenominator(x0 * chunkSum(c, incr, m) + ((a - m) * x0 + b) * maxFee)

=============================================================================
