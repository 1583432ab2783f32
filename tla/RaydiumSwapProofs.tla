--------------------------- MODULE RaydiumSwapProofs ---------------------------
(***************************************************************************)
(* The Raydium walk for every pool, tick table and amount: price, tick,    *)
(* liquidity, tick-spacing group and resting orders stay together through  *)
(* every path of stepToBoundary, and no refusal of apply's for an          *)
(* over-drawn input is ever met.                                           *)
(***************************************************************************)
EXTENDS RaydiumSwap, ArithmeticLemmas

-----------------------------------------------------------------------------
\* ceilDiv is the least quotient that covers: n <= m * d exactly when ceilDiv <= m.
LEMMA CeilIsLeast ==
    ASSUME NEW n \in Nat, NEW d \in Pos, NEW m \in Nat
    PROVE  /\ ceilDiv(n, d) \in Nat
           /\ n <= m * d <=> ceilDiv(n, d) <= m
BY RoundedUpIsLeast DEF ceilDiv

-----------------------------------------------------------------------------
\* The price a partial step ends on.

\* An input that does not cover the way down to the target leaves the price above it
\* (NextSqrtPriceFromInput rounds a falling price up).
LEMMA FallStopsShort ==
    ASSUME NEW p \in Pos, NEW t \in Pos, NEW L \in Pos, NEW a \in Nat,
           t <= p, a < amountToTarget(p, t, L, TRUE)
    PROVE  t < NextSqrtPriceFromInput(p, L, a, TRUE)
<1> DEFINE X   == L * Q
           num == X * (p - t)
           c   == ceilDiv(num, p)
<1>1. X \in Pos /\ num \in Nat /\ a * t \in Nat /\ a * p \in Nat
      /\ X * p \in Nat /\ X + a * p \in Pos
  BY MathAssumption DEF Pos
<1>2. amountToTarget(p, t, L, TRUE) = ceilDiv(c, t)
  BY <1>1 DEF amountToTarget, GetDeltaAmount0Unsigned, minOf, maxOf, Pos
<1>3. c \in Nat /\ (num <= (a * t) * p <=> c <= a * t)
  BY <1>1, CeilIsLeast
<1>4. ~ (c <= a * t)
  <2> HIDE DEF c
  <2>1. ceilDiv(c, t) \in Nat /\ (c <= a * t <=> ceilDiv(c, t) <= a)
    BY <1>3, CeilIsLeast
  <2>2. a < ceilDiv(c, t)
    BY <1>2, Zenon
  <2> QED
    BY <2>1, <2>2
<1>5. ~ (num <= (a * t) * p)
  BY <1>3, <1>4
<1>6. num = X * p - X * t /\ (a * t) * p = t * (a * p) /\ t * (X + a * p) = X * t + t * (a * p)
  BY <1>1 DEF Pos
<1>7. ~ (X * p <= t * (X + a * p))
  BY <1>1, <1>5, <1>6 DEF Pos
<1>8. CASE a = 0
  <2>1. t # p
    BY <1>1, <1>5, <1>8 DEF Pos
  <2> QED
    BY <2>1, <1>8 DEF NextSqrtPriceFromInput, Pos
<1>9. CASE a # 0
  <2> DEFINE n == ceilDiv(X * p, X + a * p)
  <2>1. NextSqrtPriceFromInput(p, L, a, TRUE) = n
    BY <1>9 DEF NextSqrtPriceFromInput
  <2>2. n \in Nat /\ ~ (n <= t)
    BY <1>1, <1>7, CeilIsLeast DEF Pos
  <2> HIDE DEF n
  <2>3. t < n
    BY <2>2 DEF Pos
  <2> QED
    BY <2>1, <2>3
<1> QED
  BY <1>8, <1>9

\* An input that does not cover the way up to the target leaves the price below it
\* (NextSqrtPriceFromInput rounds a rising price down).
LEMMA RiseStopsShort ==
    ASSUME NEW p \in Pos, NEW t \in Pos, NEW L \in Pos, NEW a \in Nat,
           p <= t, a < amountToTarget(p, t, L, FALSE)
    PROVE  NextSqrtPriceFromInput(p, L, a, FALSE) < t
<1> DEFINE k == (a * Q) \div L
<1>1. Q \in Pos /\ L * (t - p) \in Nat /\ a * Q \in Nat /\ t - p \in Nat
      /\ (t - p) * L = L * (t - p)
  BY MathAssumption DEF Pos
<1>2. amountToTarget(p, t, L, FALSE) = ceilDiv(L * (t - p), Q)
  BY DEF amountToTarget, GetDeltaAmount1Unsigned, minOf, maxOf, Pos
<1>3. ~ (L * (t - p) <= a * Q)
  <2>1. /\ ceilDiv(L * (t - p), Q) \in Nat
        /\ L * (t - p) <= a * Q <=> ceilDiv(L * (t - p), Q) <= a
    BY <1>1, CeilIsLeast
  <2>2. a < ceilDiv(L * (t - p), Q)
    BY <1>2, Zenon
  <2> QED
    BY <2>1, <2>2
<1>4. k \in Nat /\ ~ (t - p <= k)
  BY <1>1, <1>3, FloorIsGreatest, DivFacts
<1>5. a = 0 => t # p
  BY <1>3, <1>1 DEF Pos
<1>6. NextSqrtPriceFromInput(p, L, a, FALSE) = IF a = 0 THEN p ELSE p + k
  BY DEF NextSqrtPriceFromInput
<1> HIDE DEF k
<1>7. (IF a = 0 THEN p ELSE p + k) < t
  BY <1>4, <1>5 DEF Pos
<1> QED
  BY <1>6, <1>7

\* What a falling price moves for is at most the input that moved it.
LEMMA FallIsPaid ==
    ASSUME NEW p \in Pos, NEW L \in Pos, NEW a \in Nat
    PROVE  LET n == NextSqrtPriceFromInput(p, L, a, TRUE)
           IN  /\ n \in Pos /\ n <= p
               /\ amountToTarget(p, n, L, TRUE) \in Nat
               /\ amountToTarget(p, n, L, TRUE) <= a
<1> DEFINE n   == NextSqrtPriceFromInput(p, L, a, TRUE)
           X   == L * Q
           num == X * (p - n)
           c   == ceilDiv(num, p)
<1>1. X \in Pos /\ a * p \in Nat /\ X * p \in Pos /\ X + a * p \in Pos
  BY MathAssumption DEF Pos
<1>2. n \in Pos /\ n <= p /\ X * p <= n * (X + a * p)
  <2>1. CASE a = 0
    <3>1. n = p
      BY <2>1 DEF NextSqrtPriceFromInput
    <3>2. X * p <= p * (X + a * p)
      BY <1>1, <2>1 DEF Pos
    <3> HIDE DEF n
    <3> QED
      BY <3>1, <3>2 DEF Pos
  <2>2. CASE a # 0
    <3>1. n = ceilDiv(X * p, X + a * p)
      BY <2>2 DEF NextSqrtPriceFromInput
    <3> DEFINE d == X + a * p
    <3> HIDE DEF n
    <3>2. n \in Nat
      BY <1>1, <3>1, CeilIsLeast DEF Pos
    <3>3. p * (X + a * p) = X * p + p * (a * p) /\ p * (a * p) \in Nat
      BY <1>1 DEF Pos
    <3>4. X * p <= p * (X + a * p)
      BY <1>1, <3>3 DEF Pos
    <3>5. n <= p
      BY <1>1, <3>1, <3>4, CeilIsLeast DEF Pos
    <3>6. X * p <= n * d
      <4>1. d \in Pos /\ X * p \in Nat /\ n = ceilDiv(X * p, d)
        BY <1>1, <3>1 DEF Pos
      <4> HIDE DEF d, X
      <4>2. X * p <= n * d <=> ceilDiv(X * p, d) <= n
        BY <4>1, <3>2, CeilIsLeast
      <4> QED
        BY <4>1, <4>2, <3>2
    <3>7. n # 0
      <4>1. 0 * d = 0 /\ ~ (X * p <= 0)
        BY <1>1 DEF Pos
      <4> QED
        BY <4>1, <3>6, Zenon
    <3> QED
      BY <3>2, <3>5, <3>6, <3>7 DEF Pos
  <2> QED
    BY <2>1, <2>2
<1> HIDE DEF n
<1>3. num \in Nat /\ a * n \in Nat
  BY <1>1, <1>2 DEF Pos
<1>4. num = X * p - X * n /\ (a * n) * p = n * (a * p) /\ n * (X + a * p) = X * n + n * (a * p)
  BY <1>1, <1>2 DEF Pos
<1>5. num <= (a * n) * p
  BY <1>1, <1>2, <1>4 DEF Pos
<1>6. c \in Nat /\ c <= a * n
  BY <1>3, <1>5, CeilIsLeast
<1>7. ceilDiv(c, n) \in Nat /\ ceilDiv(c, n) <= a
  BY <1>2, <1>6, CeilIsLeast
<1>8. amountToTarget(p, n, L, TRUE) = ceilDiv(c, n)
  BY <1>2 DEF amountToTarget, GetDeltaAmount0Unsigned, minOf, maxOf, Pos
<1> QED
  BY <1>2, <1>7, <1>8 DEF n

\* What a rising price moves for is at most the input that moved it.
LEMMA RiseIsPaid ==
    ASSUME NEW p \in Pos, NEW L \in Pos, NEW a \in Nat
    PROVE  LET n == NextSqrtPriceFromInput(p, L, a, FALSE)
           IN  /\ n \in Pos /\ p <= n
               /\ amountToTarget(p, n, L, FALSE) \in Nat
               /\ amountToTarget(p, n, L, FALSE) <= a
<1> DEFINE n == NextSqrtPriceFromInput(p, L, a, FALSE)
           k == IF a = 0 THEN 0 ELSE (a * Q) \div L
<1>1. Q \in Pos /\ a * Q \in Nat
  BY MathAssumption DEF Pos
<1>2. k \in Nat /\ k * L <= a * Q
  <2>1. CASE a = 0
    BY <1>1, <2>1 DEF Pos
  <2>2. CASE a # 0
    <3>1. (a * Q) \div L \in Nat
      BY <1>1, DivFacts
    <3>2. ((a * Q) \div L) * L <= a * Q
      BY <1>1, <3>1, FloorIsGreatest
    <3> QED
      BY <2>2, <3>1, <3>2
  <2> QED
    BY <2>1, <2>2
<1>3. n = p + k
  BY DEF NextSqrtPriceFromInput, Pos
<1> HIDE DEF n, k
<1>4. n \in Pos /\ p <= n /\ L * (n - p) = k * L /\ k * L \in Nat
  BY <1>2, <1>3 DEF Pos
<1>5. amountToTarget(p, n, L, FALSE) = ceilDiv(k * L, Q)
  BY <1>4 DEF amountToTarget, GetDeltaAmount1Unsigned, minOf, maxOf, Pos
<1> QED
  BY <1>1, <1>2, <1>4, <1>5, CeilIsLeast DEF n

-----------------------------------------------------------------------------
\* One step, in either direction.

\* The target lies where the direction leads: below or at the price, above or at it.
Ahead(p, t, z) == IF z THEN t <= p ELSE p <= t

\* The way to any price ahead costs a natural number of input.
LEMMA AmountToTargetIsNat ==
    ASSUME NEW p \in Pos, NEW t \in Pos, NEW L \in Pos, NEW z \in BOOLEAN, Ahead(p, t, z)
    PROVE  amountToTarget(p, t, L, z) \in Nat
<1>1. CASE z = TRUE
  <2> DEFINE num == L * Q * (p - t)
             c   == ceilDiv(num, p)
  <2>1. t <= p
    BY <1>1 DEF Ahead
  <2>2. num \in Nat
    BY <2>1, MathAssumption DEF Pos
  <2>3. c \in Nat
    BY <2>2, CeilIsLeast
  <2>4. ceilDiv(c, t) \in Nat
    BY <2>3, CeilIsLeast
  <2>5. amountToTarget(p, t, L, z) = ceilDiv(c, t)
    BY <1>1, <2>1 DEF amountToTarget, GetDeltaAmount0Unsigned, minOf, maxOf, Pos
  <2> QED
    BY <2>4, <2>5
<1>2. CASE z = FALSE
  <2>1. p <= t
    BY <1>2 DEF Ahead
  <2>2. L * (t - p) \in Nat /\ Q \in Pos
    BY <2>1, MathAssumption DEF Pos
  <2>3. amountToTarget(p, t, L, z) = ceilDiv(L * (t - p), Q)
    BY <1>2, <2>1 DEF amountToTarget, GetDeltaAmount1Unsigned, minOf, maxOf, Pos
  <2> QED
    BY <2>2, <2>3, CeilIsLeast
<1> QED
  BY <1>1, <1>2

\* A step ends on its target exactly when the input covers the way there, for every
\* u64 amount: the roundings of NextSqrtPriceFromInput never carry an unpaid step to
\* the target, so the amount ComputeSwapStep reads there (swap_math.go:44, 53, 58) is
\* never the nil that stands for "more than a u64".
THEOREM StepEndsOnPaidTarget ==
    ASSUME NEW p \in Pos, NEW t \in Pos, NEW L \in Pos, NEW a \in 0 .. MaxU64,
           NEW z \in BOOLEAN, Ahead(p, t, z)
    PROVE  stepPrice(p, t, L, a, z) = t <=> reachesTarget(p, t, L, a, z)
<1>1. a \in Nat /\ a <= MaxU64
  BY MathAssumption
<1> DEFINE needed == amountToTarget(p, t, L, z)
           n      == NextSqrtPriceFromInput(p, L, a, z)
<1>2. ASSUME ~ reachesTarget(p, t, L, a, z) PROVE a < needed
  <2>1. ~ (needed <= MaxU64 /\ a >= needed)
    BY <1>2 DEF reachesTarget
  <2> HIDE DEF needed
  <2>2. needed \in Nat
    BY AmountToTargetIsNat DEF needed
  <2> QED
    BY <1>1, <2>1, <2>2, MathAssumption
<1>3. ASSUME a < needed PROVE n # t
  <2>1. CASE z = TRUE
    <3>1. t <= p
      BY <2>1 DEF Ahead
    <3>2. a < amountToTarget(p, t, L, TRUE)
      BY <1>3, <2>1, Zenon
    <3>3. t < NextSqrtPriceFromInput(p, L, a, TRUE)
      BY <1>1, <3>1, <3>2, FallStopsShort
    <3>4. t < n
      BY <2>1, <3>3, Zenon
    <3> HIDE DEF n
    <3> QED
      BY <3>4 DEF Pos
  <2>2. CASE z = FALSE
    <3>1. p <= t
      BY <2>2 DEF Ahead
    <3>2. a < amountToTarget(p, t, L, FALSE)
      BY <1>3, <2>2, Zenon
    <3>3. NextSqrtPriceFromInput(p, L, a, FALSE) < t
      BY <1>1, <3>1, <3>2, RiseStopsShort
    <3>4. n < t
      BY <2>2, <3>3, Zenon
    <3> HIDE DEF n
    <3> QED
      BY <3>4 DEF Pos
  <2> QED
    BY <2>1, <2>2
<1> QED
  BY <1>2, <1>3, Zenon DEF stepPrice

\* Reaching the target or not, the step stays ahead of the price and costs at most
\* the input it was given.
LEMMA StepIsPaid ==
    ASSUME NEW p \in Pos, NEW t \in Pos, NEW L \in Pos, NEW a \in Nat,
           NEW z \in BOOLEAN, Ahead(p, t, z)
    PROVE  LET n == stepPrice(p, t, L, a, z)
           IN  /\ n \in Pos /\ Ahead(p, n, z)
               /\ amountToTarget(p, n, L, z) \in Nat
               /\ amountToTarget(p, n, L, z) <= a
<1> DEFINE needed == amountToTarget(p, t, L, z)
           m      == NextSqrtPriceFromInput(p, L, a, z)
<1>1. CASE reachesTarget(p, t, L, a, z)
  <2>1. stepPrice(p, t, L, a, z) = t
    BY <1>1 DEF stepPrice
  <2>2. needed \in Nat
    BY AmountToTargetIsNat
  <2>3. a >= needed
    BY <1>1 DEF reachesTarget
  <2> HIDE DEF needed
  <2>4. needed <= a
    BY <2>2, <2>3
  <2> QED
    BY <2>1, <2>2, <2>4, Zenon DEF needed
<1>2. CASE ~ reachesTarget(p, t, L, a, z)
  <2>1. stepPrice(p, t, L, a, z) = m
    BY <1>2 DEF stepPrice
  <2>2. CASE z = TRUE
    <3>1. LET n == NextSqrtPriceFromInput(p, L, a, TRUE)
          IN  /\ n \in Pos /\ n <= p
              /\ amountToTarget(p, n, L, TRUE) \in Nat
              /\ amountToTarget(p, n, L, TRUE) <= a
      BY FallIsPaid
    <3> QED
      BY <2>1, <2>2, <3>1, Zenon DEF Ahead
  <2>3. CASE z = FALSE
    <3>1. LET n == NextSqrtPriceFromInput(p, L, a, FALSE)
          IN  /\ n \in Pos /\ p <= n
              /\ amountToTarget(p, n, L, FALSE) \in Nat
              /\ amountToTarget(p, n, L, FALSE) <= a
      BY RiseIsPaid
    <3> QED
      BY <2>1, <2>3, <3>1, Zenon DEF Ahead
  <2> QED
    BY <2>2, <2>3
<1> QED
  BY <1>1, <1>2

\* Reserving the fee from the input and then charging it on what the step used comes
\* to no more than the input.
LEMMA FeeFitsRemaining ==
    ASSUME NEW remaining \in Nat, NEW f \in 0 .. FeeRateDenominator - 1, NEW in \in Nat,
           NEW onInput \in BOOLEAN, in <= amountForCalc(remaining, f, onInput)
    PROVE  /\ in <= remaining
           /\ onInput => /\ ceilDiv(in * f, FeeRateDenominator - f) \in Nat
                         /\ in + ceilDiv(in * f, FeeRateDenominator - f) <= remaining
<1> DEFINE D == FeeRateDenominator
           g == D - f
<1>1. D \in Pos /\ g \in Pos /\ g <= D /\ f \in Nat /\ g + f = D
  BY MathAssumption DEF Pos
<1>2. CASE onInput = FALSE
  BY <1>2 DEF amountForCalc
<1>3. CASE onInput = TRUE
  <2> HIDE DEF D, g
  <2>1. remaining * g \in Nat /\ in * f \in Nat /\ in * D \in Nat
    BY <1>1 DEF Pos
  <2>2. in <= (remaining * g) \div D
    BY <1>3 DEF amountForCalc, D, g
  <2>3. in * D <= remaining * g
    BY <1>1, <2>1, <2>2, FloorIsGreatest
  <2>4. remaining * g <= remaining * D
    BY <1>1, MulMonotone DEF Pos
  <2>5. in <= remaining
    <3>1. ASSUME remaining < in PROVE FALSE
      <4>1. remaining * D < in * D
        BY <1>1, <3>1, MulStrict
      <4> QED
        BY <4>1, <2>1, <2>3, <2>4, <1>1 DEF Pos
    <3> QED
      BY <3>1
  <2>6. in * D = in * g + in * f /\ (remaining - in) * g = remaining * g - in * g
    BY <1>1 DEF Pos
  <2>7. in * f <= (remaining - in) * g
    BY <2>1, <2>3, <2>6, <1>1 DEF Pos
  <2>8. ceilDiv(in * f, g) \in Nat /\ ceilDiv(in * f, g) <= remaining - in
    BY <2>1, <2>5, <2>7, <1>1, CeilIsLeast
  <2>9. in + ceilDiv(in * f, g) <= remaining
    BY <2>8
  <2> QED
    BY <2>5, <2>8, <2>9 DEF g, D
<1> QED
  BY <1>2, <1>3

\* ComputeSwapStep never takes more than remains, with the fee on either side: the
\* "consumed > amountRemaining" refusal of swap.go's apply cannot be met, whatever
\* the liquidity, the prices, the fee rate and the amount.
THEOREM StepNeverOverdraws ==
    ASSUME NEW p \in Pos, NEW t \in Pos, NEW L \in Pos, NEW remaining \in Nat,
           NEW f \in 0 .. FeeRateDenominator - 1, NEW z \in BOOLEAN, NEW onInput \in BOOLEAN,
           Ahead(p, t, z)
    PROVE  LET st == ComputeSwapStep(p, t, L, remaining, f, z, onInput)
           IN  st.amountIn + (IF onInput THEN st.feeAmount ELSE 0) <= remaining
<1> DEFINE a   == amountForCalc(remaining, f, onInput)
           n   == stepPrice(p, t, L, a, z)
           in  == amountToTarget(p, n, L, z)
           fee == ceilDiv(in * f, FeeRateDenominator - f)
           st  == ComputeSwapStep(p, t, L, remaining, f, z, onInput)
<1>1. a \in Nat
  <2>1. remaining * (FeeRateDenominator - f) \in Nat /\ FeeRateDenominator \in Pos
    BY MathAssumption DEF Pos
  <2>2. (remaining * (FeeRateDenominator - f)) \div FeeRateDenominator \in Nat
    BY <2>1, DivFacts
  <2> QED
    BY <2>2 DEF amountForCalc
<1>2. in \in Nat /\ in <= a
  BY <1>1, StepIsPaid
<1>3. in <= remaining /\ (onInput => fee \in Nat /\ in + fee <= remaining)
  <2> HIDE DEF in
  <2> QED
    BY <1>2, FeeFitsRemaining
<1>4. CASE onInput = TRUE
  <2>1. st.amountIn = in /\ st.feeAmount = IF n = t THEN fee ELSE remaining - in
    BY <1>4 DEF ComputeSwapStep
  <2> HIDE DEF in, fee, n, st
  <2>2. st.amountIn + st.feeAmount <= remaining
    BY <1>2, <1>3, <1>4, <2>1
  <2> QED
    BY <1>4, <2>2 DEF st
<1>5. CASE onInput = FALSE
  <2>1. st.amountIn = IF n = t THEN in ELSE remaining
    BY <1>5 DEF ComputeSwapStep
  <2> HIDE DEF in, n, st
  <2>2. st.amountIn + 0 <= remaining
    BY <1>2, <1>3, <2>1
  <2> QED
    BY <1>5, <2>2 DEF st
<1> QED
  BY <1>4, <1>5

-----------------------------------------------------------------------------
\* Ticks and prices

\* Ticks that have a price, the neighbours of the range included.
PricedTicks == MinTick - 1 .. MaxTick + 1

LEMMA TicksAreInts ==
    /\ MinTick \in Int /\ MaxTick \in Int /\ MinTick < 0 /\ 0 < MaxTick
    /\ Ticks = MinTick .. MaxTick /\ MaxU64 \in Nat /\ FeeRateDenominator \in Pos
BY MathAssumption DEF Ticks, Pos

LEMMA PriceIsPositive ==
    ASSUME NEW t \in PricedTicks
    PROVE  SqrtPriceFromTick(t) \in Pos
<1>1. t \in MinTick - 1 .. MaxTick \/ (t = MaxTick + 1 /\ MaxTick \in MinTick - 1 .. MaxTick)
  BY TicksAreInts DEF PricedTicks
<1> QED
  BY <1>1, PriceTableAssumption DEF Pos

\* The price rises with the tick.
LEMMA PricesRise ==
    ASSUME NEW t \in PricedTicks, NEW u \in PricedTicks, t < u
    PROVE  SqrtPriceFromTick(t) < SqrtPriceFromTick(u)
<1> DEFINE bound == u - t - 1
           S == {k \in Nat : t + 1 + k <= MaxTick + 1 => SqrtPriceFromTick(t) < SqrtPriceFromTick(t + 1 + k)}
<1>1. t \in Int /\ u \in Int /\ MinTick \in Int /\ MaxTick \in Int /\ bound \in Nat
  BY TicksAreInts DEF PricedTicks
<1>2. 0 \in S
  <2>1. t \in MinTick - 1 .. MaxTick /\ t + 1 + 0 = t + 1
    BY <1>1 DEF PricedTicks
  <2> QED
    BY <2>1, PriceTableAssumption
<1>3. ASSUME NEW k \in 0 .. bound - 1, k \in S PROVE k + 1 \in S
  <2> SUFFICES ASSUME t + 1 + (k + 1) <= MaxTick + 1
               PROVE  SqrtPriceFromTick(t) < SqrtPriceFromTick(t + 1 + (k + 1))
    BY <1>1
  <2> DEFINE v == t + 1 + k
  <2>1. v \in MinTick - 1 .. MaxTick /\ t + 1 + (k + 1) = v + 1 /\ t + 1 + k <= MaxTick + 1
    BY <1>1 DEF PricedTicks
  <2>2. SqrtPriceFromTick(t) < SqrtPriceFromTick(v)
    BY <1>3, <2>1
  <2>3. SqrtPriceFromTick(v) < SqrtPriceFromTick(v + 1)
        /\ SqrtPriceFromTick(v) \in Pos /\ SqrtPriceFromTick(v + 1) \in Pos
    BY <2>1, PriceTableAssumption DEF Pos
  <2>4. SqrtPriceFromTick(t) \in Pos
    BY PriceIsPositive
  <2> HIDE DEF v
  <2> QED
    BY <2>1, <2>2, <2>3, <2>4 DEF Pos
<1> HIDE DEF S
<1>4. 0 .. bound \subseteq S
  BY <1>1, <1>2, <1>3, Induction
<1>5. bound \in S /\ t + 1 + bound = u /\ u <= MaxTick + 1
  BY <1>1, <1>4 DEF PricedTicks
<1> QED
  BY <1>5 DEF S

LEMMA PriceOrder ==
    ASSUME NEW t \in PricedTicks, NEW u \in PricedTicks
    PROVE  /\ SqrtPriceFromTick(t) \in Pos /\ SqrtPriceFromTick(u) \in Pos
           /\ t <= u <=> SqrtPriceFromTick(t) <= SqrtPriceFromTick(u)
           /\ t < u <=> SqrtPriceFromTick(t) < SqrtPriceFromTick(u)
           /\ t = u <=> SqrtPriceFromTick(t) = SqrtPriceFromTick(u)
<1>1. t \in Int /\ u \in Int
  BY TicksAreInts DEF PricedTicks
<1>2. SqrtPriceFromTick(t) \in Pos /\ SqrtPriceFromTick(u) \in Pos
  BY PriceIsPositive
<1>3. t < u => SqrtPriceFromTick(t) < SqrtPriceFromTick(u)
  BY PricesRise
<1>4. u < t => SqrtPriceFromTick(u) < SqrtPriceFromTick(t)
  BY PricesRise
<1> QED
  BY <1>1, <1>2, <1>3, <1>4 DEF Pos

\* TickFromSqrtPrice is the tick whose interval holds the price.
LEMMA TickOfPrice ==
    ASSUME NEW p \in MinSqrtPrice .. MaxSqrtPrice
    PROVE  /\ TickFromSqrtPrice(p) \in Ticks
           /\ SqrtPriceFromTick(TickFromSqrtPrice(p)) <= p
           /\ p < SqrtPriceFromTick(TickFromSqrtPrice(p) + 1)
<1> DEFINE T == {n \in Nat : MaxTick - n \in Ticks /\ SqrtPriceFromTick(MaxTick - n) <= p}
<1>1. MinTick \in Int /\ MaxTick \in Int /\ MinTick < MaxTick /\ Ticks = MinTick .. MaxTick
  BY TicksAreInts
<1>2. \A t \in Ticks : t \in PricedTicks /\ t + 1 \in PricedTicks /\ t \in Int
  BY <1>1 DEF PricedTicks
<1>3. \A t \in Ticks : SqrtPriceFromTick(t) \in Pos /\ SqrtPriceFromTick(t + 1) \in Pos
  BY <1>2, PriceIsPositive
<1>4. p \in Int /\ MinSqrtPrice <= p /\ p <= MaxSqrtPrice /\ MinTick \in Ticks /\ MaxTick \in Ticks
  BY <1>1, <1>3 DEF MinSqrtPrice, MaxSqrtPrice, Pos
<1>5. MaxTick - MinTick \in T
  <2>1. MaxTick - (MaxTick - MinTick) = MinTick /\ MaxTick - MinTick \in Nat
    BY <1>1
  <2> QED
    BY <2>1, <1>4 DEF MinSqrtPrice
<1>6. PICK n \in T : \A m \in T : n <= m
  <2>1. T \in SUBSET Nat /\ T # {}
    BY <1>5
  <2> HIDE DEF T
  <2> QED
    BY <2>1, LeastNatural
<1> DEFINE t == MaxTick - n
<1>7. t \in Ticks /\ SqrtPriceFromTick(t) <= p
  BY <1>6
<1>8. \A u \in Ticks : SqrtPriceFromTick(u) <= p => u <= t
  <2> SUFFICES ASSUME NEW u \in Ticks, SqrtPriceFromTick(u) <= p PROVE u <= t
    OBVIOUS
  <2>1. MaxTick - u \in Nat /\ MaxTick - (MaxTick - u) = u
    BY <1>1
  <2>2. MaxTick - u \in T
    BY <2>1
  <2>3. n <= MaxTick - u /\ n \in Nat
    BY <1>6, <2>2
  <2> QED
    BY <1>1, <2>3
<1> HIDE DEF t, T
<1> DEFINE c == TickFromSqrtPrice(p)
<1>9. c \in Ticks /\ SqrtPriceFromTick(c) <= p /\ \A u \in Ticks : SqrtPriceFromTick(u) <= p => u <= c
  BY <1>7, <1>8 DEF TickFromSqrtPrice
<1> HIDE DEF c
<1>10. p < SqrtPriceFromTick(c + 1)
  <2>1. CASE c = MaxTick
    <3>1. SqrtPriceFromTick(c) < SqrtPriceFromTick(c + 1)
      BY <1>1, <1>2, <1>9, PricesRise
    <3> QED
      BY <1>3, <1>4, <1>9, <2>1, <3>1 DEF MaxSqrtPrice, Pos
  <2>2. CASE c # MaxTick
    <3>1. c + 1 \in Ticks /\ ~(c + 1 <= c)
      BY <1>1, <1>9, <2>2
    <3> QED
      BY <1>3, <1>4, <1>9, <3>1 DEF Pos
  <2> QED
    BY <2>1, <2>2
<1> QED
  BY <1>9, <1>10 DEF c

-----------------------------------------------------------------------------
\* Tick-spacing groups

\* The group of a tick is the floor of its quotient, ticks below zero included.
LEMMA GroupOfTick ==
    ASSUME NEW tick \in Int, NEW sp \in Pos
    PROVE  LET i == tickSpacingIndexFromTick(tick, sp)
           IN  i \in Int /\ i * sp <= tick /\ tick < i * sp + sp
<1> DEFINE n == IF tick >= 0 THEN tick \div sp
                ELSE IF tick % sp # 0 THEN -((-tick) \div sp) - 1 ELSE -((-tick) \div sp)
<1>1. tickSpacingIndexFromTick(tick, sp) = n
  BY DEF tickSpacingIndexFromTick, quo
<1>2. n \in Int /\ n * sp <= tick /\ tick < (n + 1) * sp
  BY CorrectedTruncation
<1> HIDE DEF n
<1>3. (n + 1) * sp = n * sp + sp
  BY <1>2 DEF Pos
<1> QED
  BY <1>1, <1>2, <1>3

LEMMA NextGroups ==
    ASSUME NEW i \in Int, NEW sp \in Pos
    PROVE  i * sp \in Int /\ (i + 1) * sp = i * sp + sp /\ (i - 1) * sp = i * sp - sp
BY DEF Pos

\* No multiple of the spacing lies inside a group.
LEMMA AlignedOutside ==
    ASSUME NEW t \in Int, NEW i \in Int, NEW sp \in Pos, t % sp = 0
    PROVE  /\ t < i * sp + sp => t <= i * sp
           /\ i * sp < t => i * sp + sp <= t
<1> DEFINE k == t \div sp
<1>1. k \in Int /\ t = sp * k + (t % sp)
  BY DEF Pos
<1> HIDE DEF k
<1>2. t = k * sp /\ i * sp \in Int
  BY <1>1 DEF Pos
<1>3. k <= i => k * sp <= i * sp
  BY <1>1, MulMonotone DEF Pos
<1>4. i + 1 <= k => (i + 1) * sp <= k * sp
  BY <1>1, MulMonotone DEF Pos
<1>5. (i + 1) * sp = i * sp + sp
  BY DEF Pos
<1> QED
  BY <1>1, <1>2, <1>3, <1>4, <1>5 DEF Pos

\* A tick is in one group only.
LEMMA GroupIsUnique ==
    ASSUME NEW t \in Int, NEW i \in Int, NEW j \in Int, NEW sp \in Pos,
           i * sp <= t, t < i * sp + sp, j * sp <= t, t < j * sp + sp
    PROVE  i = j
<1>1. /\ i + 1 <= j => (i + 1) * sp <= j * sp
      /\ j + 1 <= i => (j + 1) * sp <= i * sp
  BY MulMonotone DEF Pos
<1>2. (i + 1) * sp = i * sp + sp /\ (j + 1) * sp = j * sp + sp /\ i * sp \in Int /\ j * sp \in Int
  BY NextGroups
<1> QED
  BY <1>1, <1>2 DEF Pos

-----------------------------------------------------------------------------
\* Liquidity

\* The sum over the ticks up to one is that up to the tick below and its own.
LEMMA LiquidityAdds ==
    ASSUME NEW net \in [Ticks -> Int]
    PROVE  /\ LiquidityOf(net, MinTick - 1) = 0
           /\ \A t \in Ticks : LiquidityOf(net, t) = LiquidityOf(net, t - 1) + net[t]
           /\ \A t \in MinTick - 1 .. MaxTick : LiquidityOf(net, t) \in Int
<1> DEFINE N == MaxTick - MinTick + 1
           step0 == [k \in 1 .. N |-> [v \in Int |-> v + net[MinTick - 1 + k]]]
           D == MinTick - 1 .. MaxTick
<1>1. MinTick \in Int /\ MaxTick \in Int /\ MinTick < MaxTick /\ Ticks = MinTick .. MaxTick /\ N \in Nat
  BY TicksAreInts
<1>2. step0 \in [1 .. N -> [Int -> Int]]
  <2>1. \A k \in 1 .. N : net[MinTick - 1 + k] \in Int
    BY <1>1
  <2> QED
    BY <2>1
<1>3. PICK g : Trace(g, Int, 0, N, step0)
  <2>1. 0 \in Int /\ N \in Nat
    BY <1>1
  <2> HIDE DEF step0, N
  <2> QED
    BY <2>1, <1>2, LoopHasTrace, Zenon
<1> DEFINE u == [t \in D |-> g[t - MinTick + 1]]
<1>4. \A t \in D : t - MinTick + 1 \in 0 .. N
  BY <1>1
<1>5. \A t \in D : u[t] \in Int
  BY <1>3, <1>4 DEF Trace
<1>6. u = [t \in D |-> IF t < MinTick THEN 0 ELSE u[t - 1] + net[t]]
  <2>1. ASSUME NEW t \in D PROVE u[t] = IF t < MinTick THEN 0 ELSE u[t - 1] + net[t]
    <3>1. CASE t < MinTick
      <4>1. t - MinTick + 1 = 0
        BY <1>1, <3>1
      <4> QED
        BY <3>1, <4>1, <1>3 DEF Trace
    <3>2. CASE ~(t < MinTick)
      <4> DEFINE k == t - MinTick + 1
      <4>1. k \in 1 .. N /\ t - 1 \in D /\ k - 1 = (t - 1) - MinTick + 1 /\ MinTick - 1 + k = t
        BY <1>1, <3>2
      <4>2. g[k] = step0[k][g[k - 1]] /\ g[k - 1] \in Int
        BY <1>3, <4>1, <1>4 DEF Trace
      <4>3. step0[k][g[k - 1]] = g[k - 1] + net[MinTick - 1 + k]
        BY <4>1, <4>2
      <4> QED
        BY <4>1, <4>2, <4>3, <3>2
    <3> QED
      BY <3>1, <3>2
  <2> QED
    BY <2>1
<1> DEFINE P(f) == f = [t \in D |-> IF t < MinTick THEN 0 ELSE f[t - 1] + net[t]]
           c == CHOOSE f : P(f)
<1>7. P(c)
  BY <1>6
<1>8. \A t \in D : LiquidityOf(net, t) = c[t]
  BY DEF LiquidityOf
<1> HIDE DEF c, u
<1>9. \A t \in D : c[t] = IF t < MinTick THEN 0 ELSE c[t - 1] + net[t]
  BY <1>7
<1> DEFINE S == {k \in Nat : k \in 0 .. N => c[MinTick - 1 + k] \in Int}
<1>10. 0 .. N \subseteq S
  <2>1. 0 \in S
    BY <1>1, <1>9
  <2>2. ASSUME NEW k \in 0 .. N - 1, k \in S PROVE k + 1 \in S
    <3>1. c[MinTick - 1 + k] \in Int /\ MinTick + k \in D /\ ~(MinTick + k < MinTick)
          /\ (MinTick + k) - 1 = MinTick - 1 + k /\ MinTick - 1 + (k + 1) = MinTick + k
          /\ net[MinTick + k] \in Int
      BY <1>1, <2>2
    <3>2. c[MinTick + k] = c[MinTick - 1 + k] + net[MinTick + k]
      BY <3>1, <1>9
    <3> QED
      BY <3>1, <3>2
  <2> HIDE DEF S
  <2> QED
    BY <1>1, <2>1, <2>2, Induction
<1>11. \A t \in D : c[t] \in Int
  <2> TAKE t \in D
  <2>1. t - (MinTick - 1) \in 0 .. N /\ MinTick - 1 + (t - (MinTick - 1)) = t
    BY <1>1
  <2> QED
    BY <2>1, <1>10
<1>12. MinTick - 1 \in D /\ MinTick - 1 < MinTick
  BY <1>1
<1>13. \A t \in Ticks : t \in D /\ t - 1 \in D /\ ~(t < MinTick)
  BY <1>1
<1> HIDE DEF D
<1> QED
  BY <1>8, <1>9, <1>11, <1>12, <1>13 DEF D

\* Between two ticks with no position's edge after the one and up to the other, the
\* liquidity is one.
LEMMA LiquidityStays ==
    ASSUME NEW net \in [Ticks -> Int], NEW t \in MinTick - 1 .. MaxTick, NEW u \in MinTick - 1 .. MaxTick,
           \A v \in Ticks : t < v /\ v <= u => net[v] = 0, t <= u
    PROVE  LiquidityOf(net, t) = LiquidityOf(net, u)
<1> DEFINE L(v) == LiquidityOf(net, v)
           N == u - t
           S == {k \in Nat : k <= N => L(t + k) = L(t)}
<1>1. MinTick \in Int /\ MaxTick \in Int /\ t \in Int /\ u \in Int /\ Ticks = MinTick .. MaxTick /\ N \in Nat
  BY TicksAreInts
<1>2. /\ \A v \in Ticks : L(v) = L(v - 1) + net[v]
      /\ \A v \in MinTick - 1 .. MaxTick : L(v) \in Int
  BY LiquidityAdds
<1> HIDE DEF L
<1>3. 0 \in S
  BY <1>1
<1>4. ASSUME NEW k \in 0 .. N - 1, k \in S PROVE k + 1 \in S
  <2> DEFINE v == t + k + 1
  <2>1. v \in Ticks /\ t < v /\ v <= u /\ v - 1 = t + k /\ t + (k + 1) = v /\ t + k \in MinTick - 1 .. MaxTick
    BY <1>1
  <2>2. net[v] = 0 /\ L(t + k) = L(t) /\ L(t + k) \in Int
    BY <1>1, <1>2, <1>4, <2>1
  <2>3. L(v) = L(v - 1) + net[v]
    BY <1>2, <2>1
  <2> HIDE DEF v
  <2> QED
    BY <2>1, <2>2, <2>3
<1> HIDE DEF S
<1>5. 0 .. N \subseteq S
  BY <1>1, <1>3, <1>4, Induction
<1>6. N \in S /\ t + N = u
  BY <1>1, <1>5
<1>7. L(u) = L(t)
  BY <1>1, <1>6 DEF S
<1> QED
  BY <1>7 DEF L

-----------------------------------------------------------------------------
\* One step along the curve

LEMMA CeilOfZero ==
    ASSUME NEW d \in Pos
    PROVE  ceilDiv(0, d) = 0
<1>1. ceilDiv(0, d) \in Nat /\ (0 <= 0 * d <=> ceilDiv(0, d) <= 0)
  BY CeilIsLeast
<1>2. 0 * d = 0
  BY DEF Pos
<1> HIDE DEF Pos
<1> QED
  BY <1>1, <1>2

\* Without liquidity the price moves for nothing.
LEMMA EmptyRangeIsFree ==
    ASSUME NEW p \in Pos, NEW t \in Pos, NEW z \in BOOLEAN
    PROVE  amountToTarget(p, t, 0, z) = 0
<1>1. Q \in Pos /\ minOf(t, p) \in Pos /\ maxOf(t, p) \in Pos /\ minOf(p, t) \in Pos /\ maxOf(p, t) \in Pos
  BY MathAssumption DEF minOf, maxOf, Pos
<1>2. 0 * Q * (maxOf(t, p) - minOf(t, p)) = 0 /\ 0 * (maxOf(p, t) - minOf(p, t)) = 0
  BY <1>1 DEF Pos
<1>3. GetDeltaAmount0Unsigned(t, p, 0, TRUE) = ceilDiv(ceilDiv(0, maxOf(t, p)), minOf(t, p))
  BY <1>2 DEF GetDeltaAmount0Unsigned
<1>4. GetDeltaAmount1Unsigned(p, t, 0, TRUE) = ceilDiv(0, Q)
  BY <1>2 DEF GetDeltaAmount1Unsigned
<1>5. ceilDiv(0, maxOf(t, p)) = 0 /\ ceilDiv(0, minOf(t, p)) = 0 /\ ceilDiv(0, Q) = 0
  BY <1>1, CeilOfZero
<1> QED
  BY <1>3, <1>4, <1>5 DEF amountToTarget

\* What a step gives out, before a fee on the output, is a natural number.
LEMMA OutputIsNat ==
    ASSUME NEW p \in Pos, NEW n \in Pos, NEW L \in Nat
    PROVE  GetDeltaAmount1Unsigned(n, p, L, FALSE) \in Nat /\ GetDeltaAmount0Unsigned(p, n, L, FALSE) \in Nat
<1> DEFINE lo == minOf(n, p)  hi == maxOf(n, p)
<1>1. lo \in Pos /\ hi \in Pos /\ hi - lo \in Nat /\ lo = minOf(p, n) /\ hi = maxOf(p, n)
  BY DEF minOf, maxOf, Pos
<1>2. GetDeltaAmount1Unsigned(n, p, L, FALSE) = (L * (hi - lo)) \div Q
  BY DEF GetDeltaAmount1Unsigned
<1>3. GetDeltaAmount0Unsigned(p, n, L, FALSE) = ((L * Q * (hi - lo)) \div hi) \div lo
  BY <1>1 DEF GetDeltaAmount0Unsigned
<1> HIDE DEF lo, hi
<1>4. Q \in Pos /\ L * (hi - lo) \in Nat /\ L * Q \in Nat
  BY <1>1, MathAssumption, MulIsNat DEF Pos
<1>5. L * Q * (hi - lo) \in Nat
  BY <1>1, <1>4, MulIsNat
<1>6. (L * Q * (hi - lo)) \div hi \in Nat
  BY <1>1, <1>5, DivFacts
<1>7. (L * (hi - lo)) \div Q \in Nat
  BY <1>4, DivFacts
<1>8. ((L * Q * (hi - lo)) \div hi) \div lo \in Nat
  BY <1>1, <1>6, DivFacts
<1> QED
  BY <1>2, <1>3, <1>7, <1>8

\* A fee on an amount is a part of it.
LEMMA FeeIsPart ==
    ASSUME NEW a \in Nat, NEW f \in 0 .. FeeRateDenominator - 1
    PROVE  ceilDiv(a * f, FeeRateDenominator) \in 0 .. a
<1>1. FeeRateDenominator \in Pos /\ f \in Nat /\ f <= FeeRateDenominator
  BY TicksAreInts DEF Pos
<1>2. a * f \in Nat /\ f * a <= FeeRateDenominator * a /\ f * a = a * f
      /\ FeeRateDenominator * a = a * FeeRateDenominator
  BY <1>1, MulMonotone, MulIsNat DEF Pos
<1> QED
  BY <1>1, <1>2, CeilIsLeast

LEMMA AmountForCalcFits ==
    ASSUME NEW remaining \in Nat, NEW f \in 0 .. FeeRateDenominator - 1, NEW onInput \in BOOLEAN
    PROVE  amountForCalc(remaining, f, onInput) \in 0 .. remaining
<1> DEFINE D == FeeRateDenominator
           g == D - f
           k == (remaining * g) \div D
<1>1. D \in Pos /\ g \in Nat /\ g <= D
  BY TicksAreInts DEF Pos
<1> HIDE DEF D, g
<1>2. remaining * g \in Nat /\ g * remaining <= D * remaining /\ remaining * g = g * remaining
      /\ D * remaining = remaining * D /\ remaining * D \in Nat
  BY <1>1, MulIsNat, MulMonotone DEF Pos
<1>3. k \in Nat /\ k * D <= remaining * g
  <2>1. k \in Nat
    BY <1>1, <1>2, DivFacts
  <2> QED
    BY <2>1, <1>1, <1>2, FloorIsGreatest
<1> HIDE DEF k
<1>4. k <= remaining
  <2>1. remaining < k => remaining * D < k * D
    BY <1>1, <1>3, MulStrict
  <2>2. k * D \in Nat
    BY <1>1, <1>3, MulIsNat DEF Pos
  <2> QED
    BY <2>1, <2>2, <1>2, <1>3
<1>5. amountForCalc(remaining, f, onInput) = IF onInput THEN k ELSE remaining
  BY DEF amountForCalc, k, g, D
<1> QED
  BY <1>3, <1>4, <1>5

\* A step ends between its price and its target, takes at most what remains, and all of
\* it when it ends short of the target.
LEMMA StepArrives ==
    ASSUME NEW p \in Pos, NEW t \in Pos, NEW L \in Nat, NEW remaining \in 0 .. MaxU64,
           NEW f \in 0 .. FeeRateDenominator - 1, NEW z \in BOOLEAN, NEW onInput \in BOOLEAN,
           Ahead(p, t, z)
    PROVE  LET r    == ComputeSwapStep(p, t, L, remaining, f, z, onInput)
               cost == r.amountIn + (IF onInput THEN r.feeAmount ELSE 0)
           IN  /\ r.sqrtPriceNext \in Pos
               /\ Ahead(p, r.sqrtPriceNext, z) /\ Ahead(r.sqrtPriceNext, t, z)
               /\ r.amountIn \in Nat /\ r.amountOut \in Nat /\ r.feeAmount \in Nat
               /\ cost <= remaining
               /\ r.sqrtPriceNext # t => cost = remaining
<1> DEFINE a   == amountForCalc(remaining, f, onInput)
           n   == stepPrice(p, t, L, a, z)
           in  == amountToTarget(p, n, L, z)
           fee == ceilDiv(in * f, FeeRateDenominator - f)
           gross == IF z THEN GetDeltaAmount1Unsigned(n, p, L, FALSE)
                         ELSE GetDeltaAmount0Unsigned(p, n, L, FALSE)
           feeOut == ceilDiv(gross * f, FeeRateDenominator)
           r   == ComputeSwapStep(p, t, L, remaining, f, z, onInput)
<1>1. remaining \in Nat /\ remaining <= MaxU64 /\ a \in Nat /\ a <= remaining
  <2>1. remaining \in Nat /\ remaining <= MaxU64
    BY TicksAreInts
  <2>2. a \in 0 .. remaining
    BY <2>1, AmountForCalcFits
  <2> QED
    BY <2>1, <2>2
<1>2. reachesTarget(p, t, L, a, z) => n = t
  BY DEF stepPrice
<1>3. L = 0 => reachesTarget(p, t, L, a, z) /\ in = 0
  <2> SUFFICES ASSUME L = 0 PROVE reachesTarget(p, t, L, a, z) /\ in = 0
    OBVIOUS
  <2>1. amountToTarget(p, t, L, z) = 0
    BY EmptyRangeIsFree
  <2>2. reachesTarget(p, t, L, a, z)
    BY <2>1, <1>1, TicksAreInts DEF reachesTarget
  <2> QED
    BY <2>1, <2>2, <1>2, Zenon
<1>4. n \in Pos /\ Ahead(p, n, z) /\ in \in Nat /\ in <= a
  <2>1. CASE L = 0
    BY <2>1, <1>1, <1>2, <1>3
  <2>2. CASE L # 0
    <3>1. L \in Pos
      BY <2>2 DEF Pos
    <3> QED
      BY <3>1, <1>1, StepIsPaid
  <2> QED
    BY <2>1, <2>2
<1>5. Ahead(n, t, z)
  <2>1. CASE reachesTarget(p, t, L, a, z)
    BY <2>1, <1>2 DEF Ahead, Pos
  <2>2. CASE ~ reachesTarget(p, t, L, a, z)
    <3>1. L \in Pos
      BY <2>2, <1>3 DEF Pos
    <3> DEFINE needed == amountToTarget(p, t, L, z)
               x == NextSqrtPriceFromInput(p, L, a, z)
    <3>2. needed \in Nat /\ ~(needed <= MaxU64 /\ a >= needed)
      BY <2>2, <3>1, AmountToTargetIsNat DEF reachesTarget
    <3>3. a < needed
      <4> HIDE DEF needed, a
      <4> QED
        BY <3>2, <1>1, TicksAreInts
    <3>4. n = x
      BY <2>2 DEF stepPrice
    <3>5. CASE z = TRUE
      <4>1. t <= p /\ a < amountToTarget(p, t, L, TRUE)
        BY <3>3, <3>5, Zenon DEF Ahead
      <4>2. t < NextSqrtPriceFromInput(p, L, a, TRUE)
        BY <1>1, <3>1, <4>1, FallStopsShort
      <4>3. t < n
        BY <3>4, <3>5, <4>2, Zenon
      <4> HIDE DEF n
      <4> QED
        BY <4>3, <3>5, <1>4 DEF Ahead, Pos
    <3>6. CASE z = FALSE
      <4>1. p <= t /\ a < amountToTarget(p, t, L, FALSE)
        BY <3>3, <3>6, Zenon DEF Ahead
      <4>2. NextSqrtPriceFromInput(p, L, a, FALSE) < t
        BY <1>1, <3>1, <4>1, RiseStopsShort
      <4>3. n < t
        BY <3>4, <3>6, <4>2, Zenon
      <4> HIDE DEF n
      <4> QED
        BY <4>3, <3>6, <1>4 DEF Ahead, Pos
    <3> QED
      BY <3>5, <3>6
  <2> QED
    BY <2>1, <2>2
<1>6. gross \in Nat /\ feeOut \in 0 .. gross
  <2>1. gross \in Nat
    <3> HIDE DEF n
    <3> QED
      BY <1>4, OutputIsNat
  <2> HIDE DEF gross
  <2> QED
    BY <2>1, FeeIsPart
<1>7. in <= remaining /\ (onInput => fee \in Nat /\ in + fee <= remaining)
  <2> HIDE DEF in
  <2> QED
    BY <1>1, <1>4, FeeFitsRemaining
<1>8. CASE onInput = TRUE
  <2>1. r = [sqrtPriceNext |-> n, amountIn |-> in, amountOut |-> gross,
             feeAmount |-> IF n = t THEN fee ELSE remaining - in]
    BY <1>8 DEF ComputeSwapStep
  <2> HIDE DEF in, fee, n, r, gross, a
  <2>2. r.sqrtPriceNext = n /\ r.amountIn = in /\ r.amountOut = gross
        /\ r.feeAmount = IF n = t THEN fee ELSE remaining - in
    BY <2>1
  <2> QED
    BY <2>2, <1>1, <1>4, <1>5, <1>6, <1>7, <1>8 DEF r
<1>9. CASE onInput = FALSE
  <2>1. r = [sqrtPriceNext |-> n, amountIn |-> IF n = t THEN in ELSE remaining,
             amountOut |-> gross - feeOut, feeAmount |-> feeOut]
    BY <1>9 DEF ComputeSwapStep
  <2> HIDE DEF in, fee, n, r, gross, a, feeOut
  <2>2. r.sqrtPriceNext = n /\ r.amountIn = (IF n = t THEN in ELSE remaining)
        /\ r.amountOut = gross - feeOut /\ r.feeAmount = feeOut
    BY <2>1
  <2> QED
    BY <2>2, <1>1, <1>4, <1>5, <1>6, <1>7, <1>9 DEF r
<1> QED
  BY <1>8, <1>9

-----------------------------------------------------------------------------
\* The invariant

Dyns   == [indexReference : Int, volatilityReference : Nat, accumulator : Nat, lastUpdate : Int]
Errors == {"none", "ErrOverdrawn", "ErrAmountOverflow", "ErrNegativeLiquidity"}
States == [amountRemaining : 0 .. MaxU64, amountOut : 0 .. MaxU64, sqrtPrice : Nat, liquidity : Nat,
           tick : Int, tickSpacingIdx : Int, err : Errors, dyn : Dyns]
Steps  == [tickIndex : Int, unfilled : 0 .. MaxU64, liquidityNext : Nat,
           feeRate : 0 .. FeeRateDenominator - 1, skipped : BOOLEAN, next : Nat, landing : Int]

Types ==
    /\ cfg \in Configs
    /\ pool \in [sqrtPrice : MinSqrtPrice .. MaxSqrtPrice, tick : Ticks, liquidity : Nat, dyn : Dyns]
    /\ orders \in [Ticks -> 0 .. MaxU64]
    /\ now \in Nat
    /\ pc \in {"idle", "walk", "curve", "arrive", "done", "failed", "refused"}
    /\ q \in [zeroForOne : BOOLEAN, amountIn : 0 .. MaxU64, timestamp : Int, reach : Nat]
    /\ s \in States /\ step \in Steps /\ fills \in [Ticks -> 0 .. MaxU64]

\* A pool a walk may start from: its tick is where its price is, its liquidity is that
\* of its tick, and the orders above it sell token_0.
PoolInv ==
    /\ Holds(pool.tick, pool.sqrtPrice)
    /\ pool.liquidity = LiquidityAt(pool.tick)
    /\ \A t \in Ticks : orders[t] > 0 => /\ t % cfg.tickSpacing = 0
                                         /\ t \in asks <=> t > pool.tick

AtRest == pc = "idle" => fills = NoFills

\* The walk is where its price is, on the swap's side of the pool, with that place's
\* liquidity; orders are filled behind it, and only ahead of it once the input is gone.
WalkInv ==
    /\ s.err = "none"
    /\ s.sqrtPrice \in MinSqrtPrice .. MaxSqrtPrice /\ s.tick \in MinTick - 1 .. MaxTick
    /\ Holds(s.tick, s.sqrtPrice)
    /\ IF q.zeroForOne THEN s.tick <= pool.tick ELSE pool.tick <= s.tick
    /\ s.liquidity = LiquidityAt(s.tick)
    /\ \A t \in Ticks :
          /\ fills[t] <= orders[t]
          /\ fills[t] > 0 /\ s.amountRemaining > 0 =>
                IF q.zeroForOne THEN s.tick < t ELSE t <= s.tick
          /\ fills[t] < orders[t] => (t \in asks <=> t > s.tick)

\* From u, which lies ahead of the walk, t is on its way back to the walk's tick.
OnTheWay(t, u) == IF q.zeroForOne THEN u < t /\ t <= s.tick ELSE s.tick < t /\ t < u

\* The boundary of a step is the next stop, and nothing of it has been matched.
BoundaryInv ==
    /\ step.tickIndex \in Ticks /\ step.tickIndex % cfg.tickSpacing = 0
    /\ IF q.zeroForOne THEN step.tickIndex <= s.tick ELSE s.tick < step.tickIndex
    /\ \A t \in Ticks :
          OnTheWay(t, step.tickIndex) => t \notin HasLiquidity /\ orders[t] = 0
    /\ step.unfilled = orders[step.tickIndex] /\ fills[step.tickIndex] = 0
    /\ step.liquidityNext = s.liquidity

low  == s.tickSpacingIdx * cfg.tickSpacing
high == low + cfg.tickSpacing

\* A group's edge in the swap's direction is at or before the boundary, and on the way.
EdgeOnTheWay ==
    IF q.zeroForOne THEN step.tickIndex <= low /\ low <= MaxTick
                    ELSE MinTick <= high /\ high <= step.tickIndex

\* The group of the walk is the one its tick is in; within a step, one that holds its
\* price.
GroupInv ==
    /\ pc = "walk" => low <= s.tick /\ s.tick < high
    /\ pc = "curve" => EdgeOnTheWay /\ GroupHoldsPrice

\* A step that has been paid for ends between the price and the boundary: on the boundary,
\* on the edge of the group, or where the input ran out.
ArrivalInv ==
    LET target == SqrtPriceFromTick(step.tickIndex)
    IN  /\ Ahead(s.sqrtPrice, step.next, q.zeroForOne) /\ Ahead(step.next, target, q.zeroForOne)
        /\ ~cfg.dynamic => step.skipped
        /\ s.amountRemaining > 0 /\ step.skipped => step.next = target
        /\ s.amountRemaining > 0 /\ ~step.skipped =>
              EdgeOnTheWay /\ step.next = SqrtPriceFromTick(IF q.zeroForOne THEN low ELSE high)
        /\ step.next # target =>
              /\ Holds(step.landing, step.next)
              /\ IF q.zeroForOne THEN step.tickIndex <= step.landing /\ step.landing <= s.tick
                                 ELSE s.tick <= step.landing /\ step.landing < step.tickIndex

SwapInv ==
    /\ Types /\ PoolInv /\ AtRest /\ NeverOverdrawn /\ OrdersFilledOnce
    /\ Quoting => WalkInv
    /\ pc \in {"curve", "arrive"} => BoundaryInv
    /\ pc = "curve" => s.amountRemaining > 0
    /\ cfg.dynamic /\ s.amountRemaining > 0 => GroupInv
    /\ pc = "arrive" => ArrivalInv

\* What WalkGoesOneWay asks of a step.
OneWay ==
    /\ s'.amountRemaining <= s.amountRemaining
    /\ s'.amountOut >= s.amountOut
    /\ IF q.zeroForOne THEN s'.sqrtPrice <= s.sqrtPrice /\ s'.tick <= s.tick
                       ELSE s'.sqrtPrice >= s.sqrtPrice /\ s'.tick >= s.tick

-----------------------------------------------------------------------------
\* Configurations and fees

\* The amounts of a walk's state are u64s.
LEMMA StateAmounts ==
    ASSUME NEW st \in States
    PROVE  /\ st.amountRemaining \in Nat /\ st.amountRemaining <= MaxU64
           /\ st.amountOut \in Nat /\ st.amountOut <= MaxU64 /\ MaxU64 \in Nat
<1>1. st.amountRemaining \in 0 .. MaxU64 /\ st.amountOut \in 0 .. MaxU64
  BY DEF States
<1>2. MaxU64 \in Nat
  BY TicksAreInts
<1> QED
  BY <1>1, <1>2

LEMMA ConfigFacts ==
    ASSUME cfg \in Configs
    PROVE  /\ cfg \in ConfigTypes /\ cfg.tickSpacing \in Pos /\ cfg.dynamic \in BOOLEAN
           /\ cfg.feeRate \in 0 .. FeeRateDenominator - 1
           /\ cfg.maxAccumulator \in Nat /\ cfg.feeControl \in Nat /\ cfg.reductionFactor \in Nat
           /\ cfg.filterPeriod \in Nat /\ cfg.decayPeriod \in Nat
           /\ cfg.liquidityNet \in [Ticks -> Int]
BY PoolAssumption DEF ConfigTypes, Pos

LEMMA FeeRateFits ==
    ASSUME cfg \in Configs, NEW acc \in Nat
    PROVE  totalFeeRateAt(acc) \in 0 .. FeeRateDenominator - 1
<1> DEFINE crossed == acc * cfg.tickSpacing
           den == dynamicFeeControlDenominator * volatilityAccumulatorScale * volatilityAccumulatorScale
           num == cfg.feeControl * crossed * crossed
<1>1. /\ cfg.tickSpacing \in Pos /\ cfg.feeControl \in Nat /\ cfg.feeRate \in 0 .. FeeRateDenominator - 1
      /\ maxFeeRateNumerator \in 0 .. FeeRateDenominator - 1 /\ FeeRateDenominator \in Nat
  BY ConfigFacts, PoolAssumption, TicksAreInts DEF Pos
<1>2. num \in Nat
  <2>1. crossed \in Nat
    BY <1>1, MulIsNat DEF Pos
  <2> HIDE DEF crossed
  <2>2. cfg.feeControl * crossed \in Nat
    BY <2>1, <1>1, MulIsNat
  <2> QED
    BY <2>1, <2>2, MulIsNat
<1>3. den \in Pos
  BY PoolAssumption DEF Pos
<1> HIDE DEF num, den
<1>4. ceilDiv(num, den) \in Nat
  BY <1>2, <1>3, CeilIsLeast
<1>5. dynamicFeeRate(acc) \in 0 .. FeeRateDenominator - 1
  <2>1. dynamicFeeRate(acc) = minOf(ceilDiv(num, den), maxFeeRateNumerator)
    BY DEF dynamicFeeRate, num, den
  <2> QED
    BY <2>1, <1>1, <1>4 DEF minOf
<1> QED
  BY <1>1, <1>5 DEF totalFeeRateAt, minOf

-----------------------------------------------------------------------------
\* What the steps do to a swapState

\* Nothing of the walk's place differs.
SamePlace(a, b) ==
    /\ a.sqrtPrice = b.sqrtPrice /\ a.tick = b.tick /\ a.liquidity = b.liquidity
    /\ a.tickSpacingIdx = b.tickSpacingIdx

LEMMA AccumulatorUpdates ==
    ASSUME cfg \in Configs, NEW st \in States
    PROVE  LET a == updateVolatilityAccumulator(st)
           IN  /\ a \in States /\ SamePlace(a, st) /\ a.err = st.err
               /\ a.amountRemaining = st.amountRemaining /\ a.amountOut = st.amountOut
<1>1. cfg.maxAccumulator \in Nat /\ volatilityAccumulatorScale \in Nat
  BY ConfigFacts, PoolAssumption
<1>2. st.dyn \in Dyns /\ st.tickSpacingIdx \in Int
  BY DEF States
<1>3. accumulatorAt(st.dyn, st.tickSpacingIdx) \in Nat
  <2>1. abs(st.dyn.indexReference - st.tickSpacingIdx) \in Nat
    BY <1>2 DEF Dyns, abs
  <2>2. abs(st.dyn.indexReference - st.tickSpacingIdx) * volatilityAccumulatorScale \in Nat
    BY <1>1, <2>1, MulIsNat
  <2> QED
    BY <1>1, <1>2, <2>2 DEF accumulatorAt, minOf, Dyns
<1>4. [st.dyn EXCEPT !.accumulator = accumulatorAt(st.dyn, st.tickSpacingIdx)] \in Dyns
  BY <1>2, <1>3 DEF Dyns
<1> DEFINE d == [st.dyn EXCEPT !.accumulator = accumulatorAt(st.dyn, st.tickSpacingIdx)]
<1>5. updateVolatilityAccumulator(st) = IF cfg.dynamic THEN [st EXCEPT !.dyn = d] ELSE st
  BY <1>2 DEF updateVolatilityAccumulator, States, Dyns
<1> HIDE DEF d
<1> QED
  BY <1>4, <1>5 DEF States, SamePlace, d

\* apply takes what is asked of what remains, or refuses for an overflow.
LEMMA ApplyBooks ==
    ASSUME NEW st \in States, st.err = "none", NEW in \in Int, NEW out \in Int, NEW fee \in Int,
           NEW onInput \in BOOLEAN, in + (IF onInput THEN fee ELSE 0) <= st.amountRemaining
    PROVE  LET a == apply(st, in, out, fee, onInput)
           IN  /\ a \in States /\ SamePlace(a, st) /\ a.dyn = st.dyn /\ a.err # "ErrOverdrawn"
               /\ a.err = "none" =>
                     /\ a.amountRemaining = st.amountRemaining - (in + (IF onInput THEN fee ELSE 0))
                     /\ a.amountOut = st.amountOut + out
                     /\ a.amountRemaining <= st.amountRemaining /\ st.amountOut <= a.amountOut
<1> DEFINE c == IF onInput THEN in + fee ELSE in
           a == apply(st, in, out, fee, onInput)
<1>1. c \in Int /\ c <= st.amountRemaining /\ c = in + (IF onInput THEN fee ELSE 0)
  OBVIOUS
<1>2. st.amountRemaining \in 0 .. MaxU64 /\ st.amountOut \in 0 .. MaxU64 /\ MaxU64 \in Nat
  BY TicksAreInts DEF States
<1>3. CASE \/ ~isU64(in)
           \/ onInput /\ ~(isU64(fee) /\ isU64(c))
           \/ ~isU64(out) \/ ~isU64(st.amountOut + out)
  <2>1. a = [st EXCEPT !.err = "ErrAmountOverflow"]
    BY <1>1, <1>2, <1>3 DEF apply
  <2> HIDE DEF a
  <2>2. a \in States
    BY <2>1 DEF States, Errors
  <2>3. SamePlace(a, st) /\ a.dyn = st.dyn /\ a.err = "ErrAmountOverflow"
    BY <2>1 DEF States, SamePlace
  <2> QED
    BY <2>2, <2>3 DEF a
<1>4. CASE /\ isU64(in) /\ isU64(out) /\ isU64(st.amountOut + out)
           /\ onInput => isU64(fee) /\ isU64(c)
  <2>1. a = [st EXCEPT !.amountRemaining = @ - c, !.amountOut = @ + out]
    BY <1>1, <1>2, <1>4 DEF apply
  <2>2. st.amountRemaining - c \in 0 .. st.amountRemaining /\ st.amountRemaining - c \in 0 .. MaxU64
        /\ st.amountOut + out \in 0 .. MaxU64 /\ st.amountOut <= st.amountOut + out
    BY <1>1, <1>2, <1>4 DEF isU64
  <2> HIDE DEF a, c
  <2>3. a \in States
    BY <2>1, <2>2 DEF States
  <2>4. SamePlace(a, st) /\ a.dyn = st.dyn /\ a.err = "none"
        /\ a.amountRemaining = st.amountRemaining - c /\ a.amountOut = st.amountOut + out
    BY <2>1 DEF States, SamePlace
  <2> QED
    BY <1>1, <2>2, <2>3, <2>4 DEF a
<1> QED
  BY <1>3, <1>4

-----------------------------------------------------------------------------
\* The orders of a tick

\* What an input leaves after its fee is at most what a step moves the price with.
LEMMA NetFitsReserve ==
    ASSUME NEW remaining \in Nat, NEW f \in 0 .. FeeRateDenominator - 1
    PROVE  LET fee == ceilDiv(remaining * f, FeeRateDenominator)
           IN  fee \in 0 .. remaining /\ remaining - fee <= amountForCalc(remaining, f, TRUE)
<1> DEFINE D   == FeeRateDenominator
           fee == ceilDiv(remaining * f, D)
           x   == remaining - fee
<1>1. D \in Pos /\ f \in Nat /\ D - f \in Nat
  BY TicksAreInts DEF Pos
<1>2. fee \in 0 .. remaining
  BY FeeIsPart
<1>3. amountForCalc(remaining, f, TRUE) = (remaining * (D - f)) \div D
  BY DEF amountForCalc
<1>4. remaining * f <= fee * D
  <2>1. remaining * f \in Nat /\ fee \in Nat
    BY <1>1, <1>2, MulIsNat
  <2> HIDE DEF D
  <2>2. remaining * f <= fee * D <=> ceilDiv(remaining * f, D) <= fee
    BY <2>1, <1>1, CeilIsLeast
  <2> QED
    BY <2>1, <2>2
<1> HIDE DEF D, fee
<1>5. x * D = remaining * D - fee * D /\ remaining * (D - f) = remaining * D - remaining * f
      /\ remaining * D \in Nat /\ fee * D \in Nat /\ remaining * f \in Nat
  BY <1>1, <1>2 DEF Pos
<1>6. x \in Nat /\ x * D <= remaining * (D - f) /\ remaining * (D - f) \in Nat
  BY <1>1, <1>2, <1>4, <1>5, MulIsNat
<1>7. x <= (remaining * (D - f)) \div D
  BY <1>1, <1>6, FloorIsGreatest
<1> QED
  BY <1>2, <1>3, <1>7 DEF fee, D

\* An input whose output exceeds the orders covers what the orders ask for.
LEMMA OrdersAreCovered ==
    ASSUME NEW x \in Nat, NEW unfilled \in Nat, NEW price \in Nat, NEW z \in BOOLEAN
    PROVE  /\ LimitOrderOutput(x, price, z) \in Nat
           /\ LimitOrderOutput(x, price, z) > unfilled =>
                 LimitOrderInput(unfilled, price, ~z) \in 0 .. x
<1>1. Q \in Pos /\ x * price \in Nat /\ x * Q \in Nat /\ unfilled * price \in Nat /\ unfilled * Q \in Nat
  BY MathAssumption, MulIsNat DEF Pos
<1>2. CASE z = TRUE
  <2> DEFINE k == (x * price) \div Q
             n == ceilDiv(unfilled * Q, price)
  <2>1. LimitOrderOutput(x, price, z) = k
    BY <1>2 DEF LimitOrderOutput
  <2>2. LimitOrderInput(unfilled, price, ~z) = IF price = 0 THEN 0 ELSE n
    BY <1>2 DEF LimitOrderInput
  <2>3. k \in Nat
    BY <1>1, DivFacts
  <2>4. unfilled * Q <= x * price <=> unfilled <= k
    BY <1>1, FloorIsGreatest
  <2>5. price # 0 => n \in Nat /\ (unfilled * Q <= x * price <=> n <= x)
    BY <1>1, CeilIsLeast DEF Pos
  <2> HIDE DEF k, n
  <2> QED
    BY <2>1, <2>2, <2>3, <2>4, <2>5
<1>3. CASE z = FALSE
  <2> DEFINE k == (x * Q) \div price
             n == ceilDiv(unfilled * price, Q)
  <2>1. LimitOrderOutput(x, price, z) = IF price = 0 THEN 0 ELSE k
    BY <1>3 DEF LimitOrderOutput
  <2>2. LimitOrderInput(unfilled, price, ~z) = n
    BY <1>3 DEF LimitOrderInput
  <2>3. price # 0 => k \in Nat /\ (unfilled * price <= x * Q <=> unfilled <= k)
    BY <1>1, FloorIsGreatest, DivFacts DEF Pos
  <2>4. n \in Nat /\ (unfilled * price <= x * Q <=> n <= x)
    BY <1>1, CeilIsLeast
  <2> HIDE DEF k, n
  <2> QED
    BY <2>1, <2>2, <2>3, <2>4
<1> QED
  BY <1>2, <1>3

\* A fill asks for at most what remains, and for all of it unless it takes every order.
LEMMA FillFits ==
    ASSUME NEW remaining \in Nat, NEW unfilled \in Nat, NEW tickSqrtPrice \in Pos,
           NEW f \in 0 .. FeeRateDenominator - 1, NEW z \in BOOLEAN, NEW onInput \in BOOLEAN
    PROVE  LET fill == orderFill(remaining, unfilled, tickSqrtPrice, f, z, onInput)
               cost == fill.in + (IF onInput THEN fill.fee ELSE 0)
           IN  /\ fill.out \in 0 .. unfilled /\ fill.in \in Nat /\ fill.fee \in Nat
               /\ cost <= remaining
               /\ fill.out < unfilled => cost = remaining
<1> DEFINE price == PriceFromSqrtPrice(tickSqrtPrice, ~z)
           fee   == IF onInput THEN ceilDiv(remaining * f, FeeRateDenominator) ELSE 0
           x     == remaining - fee
           out   == LimitOrderOutput(x, price, z)
           in    == LimitOrderInput(unfilled, price, ~z)
           on    == ceilDiv(in * f, FeeRateDenominator - f)
           fill  == orderFill(remaining, unfilled, tickSqrtPrice, f, z, onInput)
<1>1. price \in Nat
  <2>1. tickSqrtPrice * tickSqrtPrice \in Nat /\ Q \in Pos
    BY MathAssumption, MulIsNat DEF Pos
  <2>2. tickSqrtPrice * tickSqrtPrice + (IF ~z THEN Q - 1 ELSE 0) \in Nat
    BY <2>1 DEF Pos
  <2> QED
    BY <2>1, <2>2, DivFacts DEF PriceFromSqrtPrice
<1> HIDE DEF price
<1>2. fee \in 0 .. remaining /\ x \in Nat /\ x <= amountForCalc(remaining, f, onInput)
  <2>1. CASE onInput = TRUE
    <3> DEFINE c == ceilDiv(remaining * f, FeeRateDenominator)
    <3>1. c \in 0 .. remaining /\ remaining - c <= amountForCalc(remaining, f, TRUE)
      BY NetFitsReserve
    <3>2. fee = c
      BY <2>1
    <3>3. amountForCalc(remaining, f, onInput) = amountForCalc(remaining, f, TRUE)
      BY <2>1, Zenon
    <3>4. c \in 0 .. remaining /\ remaining - c \in Nat
      BY <3>1
    <3> HIDE DEF c, fee
    <3> QED
      BY <3>1, <3>2, <3>3, <3>4, Zenon
  <2>2. CASE onInput = FALSE
    BY <2>2 DEF amountForCalc
  <2> QED
    BY <2>1, <2>2
<1>3. fill = IF out <= unfilled THEN [out |-> out, in |-> x, fee |-> fee]
             ELSE [out |-> unfilled, in |-> in, fee |-> IF onInput THEN on ELSE 0]
  BY DEF orderFill, price
<1> HIDE DEF fee
<1>4. out \in Nat /\ (out > unfilled => in \in 0 .. x)
  <2> HIDE DEF x
  <2> QED
    BY <1>1, <1>2, OrdersAreCovered
<1>5. CASE out <= unfilled
  <2>1. fill = [out |-> out, in |-> x, fee |-> fee]
    BY <1>3, <1>5
  <2>2. onInput = FALSE => fee = 0
    BY DEF fee
  <2> HIDE DEF fill, out, in
  <2>3. fill.out = out /\ fill.in = x /\ fill.fee = fee
    BY <2>1
  <2> QED
    BY <2>2, <2>3, <1>2, <1>4, <1>5 DEF fill
<1>6. CASE ~(out <= unfilled)
  <2>1. fill = [out |-> unfilled, in |-> in, fee |-> IF onInput THEN on ELSE 0]
    BY <1>3, <1>6
  <2>2. in \in 0 .. x
    <3> HIDE DEF out, in, x
    <3> QED
      BY <1>4, <1>6
  <2> HIDE DEF in
  <2>3. in \in Nat /\ in <= amountForCalc(remaining, f, onInput)
    <3>1. amountForCalc(remaining, f, onInput) \in 0 .. remaining
      BY AmountForCalcFits
    <3> QED
      BY <2>2, <3>1, <1>2
  <2>4. in <= remaining /\ (onInput => on \in Nat /\ in + on <= remaining)
    BY <2>3, FeeFitsRemaining
  <2> HIDE DEF fill, on
  <2>5. fill.out = unfilled /\ fill.in = in /\ fill.fee = IF onInput THEN on ELSE 0
    BY <2>1
  <2> QED
    BY <2>3, <2>4, <2>5 DEF fill
<1> QED
  BY <1>5, <1>6

\* matchLimitOrders leaves orders only when it leaves no input.
LEMMA MatchBooks ==
    ASSUME NEW st \in States, st.err = "none", NEW unfilled \in 0 .. MaxU64, NEW tickSqrtPrice \in Pos,
           NEW f \in 0 .. FeeRateDenominator - 1, NEW z \in BOOLEAN, NEW onInput \in BOOLEAN
    PROVE  LET m == matchLimitOrders(st, unfilled, tickSqrtPrice, f, z, onInput)
           IN  /\ m.st \in States /\ SamePlace(m.st, st) /\ m.st.dyn = st.dyn
               /\ m.st.err # "ErrOverdrawn" /\ m.unfilled \in 0 .. unfilled
               /\ m.st.err = "none" =>
                     /\ m.st.amountRemaining <= st.amountRemaining
                     /\ st.amountOut <= m.st.amountOut
                     /\ m.unfilled > 0 => m.st.amountRemaining = 0
<1> DEFINE fill   == orderFill(st.amountRemaining, unfilled, tickSqrtPrice, f, z, onInput)
           outFee == ceilDiv(fill.out * f, FeeRateDenominator)
           cost   == fill.in + (IF onInput THEN fill.fee ELSE 0)
           m      == matchLimitOrders(st, unfilled, tickSqrtPrice, f, z, onInput)
           a      == IF onInput THEN apply(st, fill.in, fill.out, fill.fee, TRUE)
                     ELSE apply(st, fill.in, fill.out - outFee, outFee, FALSE)
<1>1. st.amountRemaining \in 0 .. MaxU64 /\ st.amountRemaining \in Nat /\ unfilled \in Nat /\ MaxU64 \in Nat
  BY TicksAreInts DEF States
<1>2. CASE st.amountRemaining = 0 \/ unfilled = 0
  <2>1. m = [st |-> st, unfilled |-> unfilled]
    BY <1>2 DEF matchLimitOrders
  <2>2. st.amountOut \in Int
    BY <1>1 DEF States
  <2> QED
    BY <2>1, <2>2, <1>1, <1>2 DEF SamePlace
<1>3. CASE ~(st.amountRemaining = 0 \/ unfilled = 0)
  <2>1. /\ fill.out \in 0 .. unfilled /\ fill.in \in Nat /\ fill.fee \in Nat
        /\ cost <= st.amountRemaining /\ (fill.out < unfilled => cost = st.amountRemaining)
    <3> DEFINE r == st.amountRemaining
    <3>1. r \in Nat
      BY <1>1
    <3> HIDE DEF r
    <3>2. LET g == orderFill(r, unfilled, tickSqrtPrice, f, z, onInput)
          IN  /\ g.out \in 0 .. unfilled /\ g.in \in Nat /\ g.fee \in Nat
              /\ g.in + (IF onInput THEN g.fee ELSE 0) <= r
              /\ g.out < unfilled => g.in + (IF onInput THEN g.fee ELSE 0) = r
      BY <1>1, <3>1, FillFits
    <3> QED
      BY <3>2 DEF r
  <2>2. m = [st |-> a, unfilled |-> unfilled - fill.out]
    <3>1. isU64(fill.out) /\ ~(fill.out > unfilled)
      BY <1>1, <2>1 DEF isU64
    <3> HIDE DEF fill
    <3> QED
      BY <1>3, <3>1 DEF matchLimitOrders, fill
  <2>3. outFee \in 0 .. fill.out
    <3>1. fill.out \in Nat
      BY <2>1
    <3> HIDE DEF fill
    <3> QED
      BY <3>1, FeeIsPart
  <2> DEFINE after(b) == /\ b \in States /\ SamePlace(b, st) /\ b.dyn = st.dyn /\ b.err # "ErrOverdrawn"
                         /\ b.err = "none" =>
                               /\ b.amountRemaining = st.amountRemaining - cost
                               /\ b.amountRemaining <= st.amountRemaining /\ st.amountOut <= b.amountOut
  <2>4. after(a)
    <3> HIDE DEF fill, outFee
    <3>1. CASE onInput = TRUE
      <4>1. fill.in \in Int /\ fill.out \in Int /\ fill.fee \in Int
            /\ fill.in + (IF TRUE THEN fill.fee ELSE 0) <= st.amountRemaining
        BY <2>1, <3>1
      <4> DEFINE b == apply(st, fill.in, fill.out, fill.fee, TRUE)
      <4>2. /\ b \in States /\ SamePlace(b, st) /\ b.dyn = st.dyn /\ b.err # "ErrOverdrawn"
            /\ b.err = "none" =>
                  /\ b.amountRemaining = st.amountRemaining - (fill.in + (IF TRUE THEN fill.fee ELSE 0))
                  /\ b.amountOut = st.amountOut + fill.out
                  /\ b.amountRemaining <= st.amountRemaining /\ st.amountOut <= b.amountOut
        BY <4>1, ApplyBooks
      <4>3. a = b /\ cost = fill.in + (IF TRUE THEN fill.fee ELSE 0)
        BY <3>1
      <4> HIDE DEF a, b, cost
      <4> QED
        BY <4>2, <4>3
    <3>2. CASE onInput = FALSE
      <4>1. fill.in \in Int /\ fill.out - outFee \in Int /\ outFee \in Int
            /\ fill.in + (IF FALSE THEN outFee ELSE 0) <= st.amountRemaining
        BY <2>1, <2>3, <3>2
      <4> DEFINE b == apply(st, fill.in, fill.out - outFee, outFee, FALSE)
      <4>2. /\ b \in States /\ SamePlace(b, st) /\ b.dyn = st.dyn /\ b.err # "ErrOverdrawn"
            /\ b.err = "none" =>
                  /\ b.amountRemaining = st.amountRemaining - (fill.in + (IF FALSE THEN outFee ELSE 0))
                  /\ b.amountOut = st.amountOut + (fill.out - outFee)
                  /\ b.amountRemaining <= st.amountRemaining /\ st.amountOut <= b.amountOut
        BY <4>1, ApplyBooks
      <4>3. a = b /\ cost = fill.in + (IF FALSE THEN outFee ELSE 0)
        BY <3>2
      <4> HIDE DEF a, b, cost
      <4> QED
        BY <4>2, <4>3
    <3> QED
      BY <3>1, <3>2
  <2> HIDE DEF a, fill, m, cost
  <2>5. m.st = a /\ m.unfilled = unfilled - fill.out
    BY <2>2
  <2>6. m.unfilled \in 0 .. unfilled /\ (m.unfilled > 0 => fill.out < unfilled)
    BY <2>1, <2>5, <1>1
  <2>7. a.err = "none" /\ m.unfilled > 0 => a.amountRemaining = 0
    BY <2>1, <2>4, <2>6, <1>1
  <2> QED
    BY <2>4, <2>5, <2>6, <2>7 DEF m
<1> QED
  BY <1>2, <1>3

-----------------------------------------------------------------------------
\* Where a step leaves the group and the reference

\* The group moves by one, from the one it was in or, after a step over several, from the
\* one that ends on the boundary; nothing else of the walk moves.
GroupMoves(m, st, z, skipped, tickNext) ==
    LET index == tickSpacingIndexFromTick(tickNext, cfg.tickSpacing)
                     - (IF ~z /\ tickNext % cfg.tickSpacing = 0 THEN 1 ELSE 0)
        one   == IF z THEN -1 ELSE 1
    IN  /\ m \in States /\ m.err = st.err
        /\ m.amountRemaining = st.amountRemaining /\ m.amountOut = st.amountOut
        /\ m.sqrtPrice = st.sqrtPrice /\ m.tick = st.tick /\ m.liquidity = st.liquidity
        /\ cfg.dynamic /\ ~skipped => m.tickSpacingIdx = st.tickSpacingIdx + one
        /\ cfg.dynamic /\ skipped /\ st.sqrtPrice = SqrtPriceFromTick(tickNext) =>
              m.tickSpacingIdx = index + one

LEMMA IndexMoves ==
    ASSUME cfg \in Configs, NEW st \in States, NEW z \in BOOLEAN, NEW skipped \in BOOLEAN,
           NEW tickNext \in Int
    PROVE  GroupMoves(updateDynamicFeeIndex(st, z, skipped, tickNext), st, z, skipped, tickNext)
<1> DEFINE landed == IF st.sqrtPrice = SqrtPriceFromTick(tickNext) THEN tickNext ELSE st.tick
           index  == tickSpacingIndexFromTick(landed, cfg.tickSpacing)
                         - (IF ~z /\ landed % cfg.tickSpacing = 0 THEN 1 ELSE 0)
           moved  == IF skipped THEN [st EXCEPT !.tickSpacingIdx = index] ELSE st
           again  == IF skipped /\ st.dyn.accumulator # cfg.maxAccumulator
                     THEN updateVolatilityAccumulator(moved) ELSE moved
           m      == updateDynamicFeeIndex(st, z, skipped, tickNext)
<1>1. landed \in Int /\ cfg.tickSpacing \in Pos
  BY ConfigFacts DEF States
<1>2. index \in Int
  <2> HIDE DEF landed
  <2>1. tickSpacingIndexFromTick(landed, cfg.tickSpacing) \in Int
    BY <1>1, GroupOfTick
  <2> QED
    BY <2>1
<1>3. m = IF cfg.dynamic
          THEN [again EXCEPT !.tickSpacingIdx = IF z THEN @ - 1 ELSE @ + 1] ELSE st
  BY DEF updateDynamicFeeIndex
<1> HIDE DEF index
<1>4. /\ moved \in States /\ moved.err = st.err
      /\ moved.amountRemaining = st.amountRemaining /\ moved.amountOut = st.amountOut
      /\ moved.sqrtPrice = st.sqrtPrice /\ moved.tick = st.tick /\ moved.liquidity = st.liquidity
      /\ moved.tickSpacingIdx = IF skipped THEN index ELSE st.tickSpacingIdx
  BY <1>2 DEF States
<1> HIDE DEF moved
<1>5. /\ again \in States /\ again.err = st.err
      /\ again.amountRemaining = st.amountRemaining /\ again.amountOut = st.amountOut
      /\ again.sqrtPrice = st.sqrtPrice /\ again.tick = st.tick /\ again.liquidity = st.liquidity
      /\ again.tickSpacingIdx = IF skipped THEN index ELSE st.tickSpacingIdx
  <2>1. CASE skipped /\ st.dyn.accumulator # cfg.maxAccumulator
    <3>1. again = updateVolatilityAccumulator(moved)
      BY <2>1
    <3> QED
      BY <3>1, <1>4, AccumulatorUpdates DEF SamePlace
  <2>2. CASE ~(skipped /\ st.dyn.accumulator # cfg.maxAccumulator)
    BY <2>2, <1>4
  <2> QED
    BY <2>1, <2>2
<1> HIDE DEF again
<1>6. CASE cfg.dynamic = FALSE
  BY <1>3, <1>6 DEF GroupMoves
<1>7. CASE cfg.dynamic = TRUE
  <2>1. m = [again EXCEPT !.tickSpacingIdx = IF z THEN @ - 1 ELSE @ + 1]
    BY <1>3, <1>7
  <2> HIDE DEF m
  <2>2. m \in States
    BY <2>1, <1>5 DEF States
  <2>3. /\ m.err = st.err /\ m.amountRemaining = st.amountRemaining /\ m.amountOut = st.amountOut
        /\ m.sqrtPrice = st.sqrtPrice /\ m.tick = st.tick /\ m.liquidity = st.liquidity
        /\ m.tickSpacingIdx = again.tickSpacingIdx + (IF z THEN -1 ELSE 1)
    BY <2>1, <1>5 DEF States
  <2>4. skipped /\ st.sqrtPrice = SqrtPriceFromTick(tickNext) =>
           index = tickSpacingIndexFromTick(tickNext, cfg.tickSpacing)
                       - (IF ~z /\ tickNext % cfg.tickSpacing = 0 THEN 1 ELSE 0)
    BY DEF index
  <2> QED
    BY <2>2, <2>3, <2>4, <1>5, <1>7 DEF m, GroupMoves
<1> QED
  BY <1>6, <1>7, ConfigFacts

LEMMA ReferenceUpdates ==
    ASSUME cfg \in Configs, NEW dyn \in Dyns, NEW index \in Int, NEW timestamp \in Int
    PROVE  updateReference(dyn, index, timestamp) \in Dyns
<1>1. cfg.filterPeriod \in Nat /\ cfg.decayPeriod \in Nat /\ cfg.reductionFactor \in Nat
      /\ reductionFactorDenominator \in Pos
  BY ConfigFacts, PoolAssumption DEF Pos
<1> DEFINE k == (dyn.accumulator * cfg.reductionFactor) \div reductionFactorDenominator
<1>2. k \in Nat
  <2>1. dyn.accumulator * cfg.reductionFactor \in Nat
    BY <1>1, MulIsNat DEF Dyns
  <2> QED
    BY <1>1, <2>1, DivFacts
<1> HIDE DEF k
<1> DEFINE elapsed == maxOf(timestamp - dyn.lastUpdate, 0)
           v == IF elapsed < cfg.decayPeriod THEN k ELSE 0
           moved == [dyn EXCEPT !.indexReference = index, !.lastUpdate = timestamp,
                                !.volatilityReference = v]
<1>3. updateReference(dyn, index, timestamp) = IF elapsed < cfg.filterPeriod THEN dyn ELSE moved
  BY DEF updateReference, k
<1>4. v \in Nat
  BY <1>2
<1> HIDE DEF v, elapsed
<1>5. moved \in Dyns
  BY <1>4 DEF Dyns
<1> HIDE DEF moved
<1> QED
  BY <1>3, <1>5

LEMMA LiquidityIsNat ==
    ASSUME cfg \in Configs, NEW t \in MinTick - 1 .. MaxTick
    PROVE  LiquidityAt(t) \in Nat
<1>1. cfg.liquidityNet \in [Ticks -> Int]
  BY ConfigFacts
<1>2. LiquidityOf(cfg.liquidityNet, MinTick - 1) = 0
      /\ LiquidityOf(cfg.liquidityNet, t) \in Int
  BY <1>1, LiquidityAdds
<1>3. t = MinTick - 1 \/ t \in Ticks
  BY TicksAreInts
<1>4. t \in Ticks => LiquidityOf(cfg.liquidityNet, t) >= 0
  BY PoolAssumption
<1> QED
  BY <1>2, <1>3, <1>4 DEF LiquidityAt

-----------------------------------------------------------------------------
\* The invariant holds at first, and each action keeps it

LEMMA NothingIsTyped ==
    NoState \in States /\ NoStep \in Steps /\ NoFills \in [Ticks -> 0 .. MaxU64]
    /\ NoQuote \in [zeroForOne : BOOLEAN, amountIn : 0 .. MaxU64, timestamp : Int, reach : Nat]
    /\ NoState.dyn \in Dyns /\ NoState.err = "none"
<1>1. MaxU64 \in Nat /\ FeeRateDenominator \in Pos
  BY TicksAreInts
<1>2. NoState.dyn \in Dyns
  BY DEF NoState, Dyns
<1>3. NoState \in States
  BY <1>1, <1>2 DEF NoState, States, Errors
<1>4. NoStep \in Steps
  BY <1>1 DEF NoStep, Steps, Pos
<1> QED
  BY <1>1, <1>2, <1>3, <1>4 DEF NoState, NoFills, NoQuote

LEMMA InitSwapInv == Init => SwapInv
<1> SUFFICES ASSUME Init PROVE SwapInv
  OBVIOUS
<1>1. cfg \in Configs /\ orders \in Books /\ now = 0 /\ pc = "idle" /\ q = NoQuote /\ s = NoState
      /\ step = NoStep /\ fills = NoFills /\ asks = {t \in Ticks : t > pool.tick}
  BY DEF Init
<1>2. PICK p \in StartPrices :
         pool = [sqrtPrice |-> p, tick |-> TickFromSqrtPrice(p),
                 liquidity |-> LiquidityAt(TickFromSqrtPrice(p)),
                 dyn |-> IF cfg.dynamic
                         THEN [NoState.dyn EXCEPT !.indexReference =
                                  tickSpacingIndexFromTick(TickFromSqrtPrice(p), cfg.tickSpacing)]
                         ELSE NoState.dyn]
  BY DEF Init
<1> DEFINE c == TickFromSqrtPrice(p)
           i == tickSpacingIndexFromTick(c, cfg.tickSpacing)
<1>3. p \in MinSqrtPrice .. MaxSqrtPrice
  BY PoolAssumption
<1>4. c \in Ticks /\ SqrtPriceFromTick(c) <= p /\ p < SqrtPriceFromTick(c + 1)
  BY <1>3, TickOfPrice
<1> HIDE DEF c
<1>5. c \in Int /\ c \in MinTick - 1 .. MaxTick /\ c + 1 \in PricedTicks /\ MinTick \in PricedTicks
      /\ MaxTick \in PricedTicks
  BY <1>4, TicksAreInts DEF PricedTicks
<1>6. i \in Int
  BY <1>1, <1>5, ConfigFacts, GroupOfTick
<1> HIDE DEF i
<1>7. LiquidityAt(c) \in Nat
  BY <1>1, <1>5, LiquidityIsNat
<1>8. pool.sqrtPrice = p /\ pool.tick = c /\ pool.liquidity = LiquidityAt(c) /\ pool.dyn \in Dyns
      /\ pool \in [sqrtPrice : MinSqrtPrice .. MaxSqrtPrice, tick : Ticks, liquidity : Nat, dyn : Dyns]
  <2> DEFINE d == IF cfg.dynamic THEN [NoState.dyn EXCEPT !.indexReference = i] ELSE NoState.dyn
  <2>1. d \in Dyns
    BY <1>6, NothingIsTyped DEF Dyns
  <2> HIDE DEF d
  <2>2. pool = [sqrtPrice |-> p, tick |-> c, liquidity |-> LiquidityAt(c), dyn |-> d]
    BY <1>2 DEF c, i, d
  <2> QED
    BY <2>1, <2>2, <1>3, <1>4, <1>7
<1>9. Types
  <2>1. orders \in [Ticks -> 0 .. MaxU64]
    BY <1>1, PoolAssumption
  <2> QED
    BY <2>1, <1>1, <1>8, NothingIsTyped DEF Types
<1>10. Holds(pool.tick, pool.sqrtPrice)
  <2>1. SqrtPriceFromTick(c + 1) \in Pos /\ SqrtPriceFromTick(MinTick) \in Pos /\ SqrtPriceFromTick(MaxTick) \in Pos
    BY <1>5, PriceIsPositive
  <2>2. p \in Int
    BY <1>3, <2>1 DEF MinSqrtPrice, MaxSqrtPrice, Pos
  <2> QED
    BY <1>4, <1>8, <2>1, <2>2 DEF Holds, Pos
<1>11. PoolInv
  <2>1. \A t \in Ticks : orders[t] > 0 => t % cfg.tickSpacing = 0
    BY <1>1, PoolAssumption
  <2> QED
    BY <1>1, <1>8, <1>10, <2>1 DEF PoolInv
<1>12. OrdersFilledOnce
  BY <1>1 DEF OrdersFilledOnce, NoFills
<1> QED
  BY <1>1, <1>9, <1>11, <1>12, NothingIsTyped DEF SwapInv, AtRest, NeverOverdrawn, Quoting, GroupInv

LEMMA StartsSwapInv ==
    ASSUME SwapInv, NEW z \in BOOLEAN, NEW a \in Amounts, NEW l \in Lags, NEW r \in Reaches,
           QuoteExactIn(z, a, l, r)
    PROVE  SwapInv'
<1> DEFINE timestamp == maxOf(now - l, 0)
<1>1. Types /\ PoolInv /\ pc = "idle" /\ fills = NoFills /\ NeverOverdrawn
  BY DEF SwapInv, QuoteExactIn, AtRest
<1>2. a \in 0 .. MaxU64 /\ l \in Nat /\ r \in Nat /\ now \in Nat
  BY <1>1, PoolAssumption DEF Types
<1>3. q' = [zeroForOne |-> z, amountIn |-> a, timestamp |-> timestamp, reach |-> r]
  BY DEF QuoteExactIn
<1>4. timestamp \in Int
  BY <1>2 DEF maxOf
<1> HIDE DEF timestamp
<1>5. q' \in [zeroForOne : BOOLEAN, amountIn : 0 .. MaxU64, timestamp : Int, reach : Nat]
  BY <1>2, <1>3, <1>4
<1>6. cfg' = cfg /\ pool' = pool /\ orders' = orders /\ now' = now /\ asks' = asks
      /\ step' = step /\ fills' = fills
  BY DEF QuoteExactIn, poolVars
<1>7. PoolInv'
  BY <1>1, <1>6 DEF PoolInv, LiquidityAt
<1>8. OrdersFilledOnce'
  BY <1>1, <1>6 DEF OrdersFilledOnce, NoFills
<1>9. CASE Refused \/ cfg.undecoded
  <2>1. pc' = "refused" /\ s' = s
    BY <1>9 DEF QuoteExactIn
  <2>2. Types'
    BY <1>1, <1>5, <1>6, <2>1 DEF Types
  <2>3. cfg.dynamic /\ s.amountRemaining > 0 => GroupInv'
    BY <2>1 DEF GroupInv
  <2> QED
    BY <1>1, <1>6, <1>7, <1>8, <2>1, <2>2, <2>3 DEF SwapInv, AtRest, NeverOverdrawn, Quoting
<1>10. CASE ~(Refused \/ cfg.undecoded)
  <2> DEFINE index == IF cfg.dynamic THEN tickSpacingIndexFromTick(pool.tick, cfg.tickSpacing) ELSE 0
             d == IF cfg.dynamic THEN updateReference(pool.dyn, index, timestamp) ELSE pool.dyn
  <2>1. pc' = "walk" /\ s' = newSwapState(a, timestamp)
    BY <1>10 DEF QuoteExactIn, timestamp
  <2>2. cfg \in Configs /\ pool.tick \in Int /\ pool.dyn \in Dyns /\ pool.liquidity \in Nat
        /\ pool.sqrtPrice \in MinSqrtPrice .. MaxSqrtPrice /\ pool.tick \in Ticks
        /\ orders \in [Ticks -> 0 .. MaxU64]
    <3>1. /\ cfg \in Configs /\ pool.dyn \in Dyns /\ pool.liquidity \in Nat
          /\ pool.sqrtPrice \in MinSqrtPrice .. MaxSqrtPrice /\ pool.tick \in Ticks
          /\ orders \in [Ticks -> 0 .. MaxU64]
      BY <1>1 DEF Types
    <3>2. Ticks \subseteq Int
      BY TicksAreInts
    <3> QED
      BY <3>1, <3>2, Zenon
  <2>3. index \in Int /\ (cfg.dynamic => /\ index * cfg.tickSpacing <= pool.tick
                                         /\ pool.tick < index * cfg.tickSpacing + cfg.tickSpacing)
    BY <2>2, ConfigFacts, GroupOfTick
  <2>4. d \in Dyns
    <3> HIDE DEF index
    <3> QED
      BY <1>4, <2>2, <2>3, ReferenceUpdates
  <2> HIDE DEF d, index
  <2>5. s' = [NoState EXCEPT !.amountRemaining = a, !.sqrtPrice = pool.sqrtPrice,
                             !.liquidity = pool.liquidity, !.tick = pool.tick,
                             !.tickSpacingIdx = index, !.dyn = d]
    BY <2>1 DEF newSwapState, index, d
  <2>6. pool.sqrtPrice \in Nat
    <3>1. MinTick \in PricedTicks
      BY TicksAreInts DEF PricedTicks
    <3>2. MaxTick \in PricedTicks
      BY TicksAreInts DEF PricedTicks
    <3> QED
      BY <2>2, <3>1, <3>2, PriceIsPositive DEF MinSqrtPrice, MaxSqrtPrice, Pos
  <2>7. /\ s' \in States /\ s'.err = "none" /\ s'.sqrtPrice = pool.sqrtPrice
        /\ s'.liquidity = pool.liquidity /\ s'.tick = pool.tick /\ s'.tickSpacingIdx = index
    BY <1>2, <2>2, <2>3, <2>4, <2>5, <2>6, NothingIsTyped DEF States
  <2> HIDE DEF newSwapState
  <2>8. Types'
    BY <1>1, <1>5, <1>6, <2>1, <2>7 DEF Types
  <2>9. WalkInv'
    <3>1. \A t \in Ticks : fills'[t] = 0 /\ orders'[t] \in 0 .. MaxU64
      BY <1>1, <1>6, <2>2 DEF NoFills
    <3>2. LiquidityAt(pool.tick)' = LiquidityAt(pool.tick)
      BY <1>6 DEF LiquidityAt
    <3>3. s'.liquidity = LiquidityOf(cfg'.liquidityNet, s'.tick)
      BY <1>1, <1>6, <2>7 DEF PoolInv, LiquidityAt
    <3>4. pool.tick \in MinTick - 1 .. MaxTick /\ (pool.tick <= pool.tick) /\ MaxU64 \in Nat
      BY <2>2, TicksAreInts
    <3>5. Holds(s'.tick, s'.sqrtPrice)
      BY <1>1, <2>7 DEF PoolInv
    <3>6. \A t \in Ticks : fills'[t] < orders'[t] => (t \in asks' <=> t > s'.tick)
      BY <1>1, <1>6, <2>7, <3>1 DEF PoolInv
    <3> QED
      BY <1>6, <2>2, <2>7, <3>1, <3>3, <3>4, <3>5, <3>6 DEF WalkInv, LiquidityAt
  <2>10. cfg.dynamic => GroupInv'
    BY <1>6, <2>1, <2>3, <2>7 DEF GroupInv, low, high
  <2> QED
    BY <1>1, <1>6, <1>7, <1>8, <2>1, <2>7, <2>8, <2>9, <2>10 DEF SwapInv, AtRest, NeverOverdrawn, Quoting
<1> QED
  BY <1>9, <1>10

\* The group of the walk's tick holds its price.
LEMMA GroupOfWalk ==
    ASSUME Types, WalkInv, low <= s.tick, s.tick < high
    PROVE  GroupHoldsPrice
<1> DEFINE i  == s.tickSpacingIdx
           sp == cfg.tickSpacing
<1>1. Holds(s.tick, s.sqrtPrice) /\ s.tick \in MinTick - 1 .. MaxTick /\ s.sqrtPrice \in Nat
      /\ s.tick \in Int /\ cfg \in Configs /\ i \in Int
  BY TicksAreInts DEF WalkInv, States, Types
<1>2. sp \in Pos /\ i * sp \in Int /\ low = i * sp /\ high = i * sp + sp
  <2>1. sp \in Pos
    BY <1>1, ConfigFacts
  <2> QED
    BY <1>1, <2>1, NextGroups DEF low, high
<1> HIDE DEF i, sp
<1>3. low \in Int /\ high \in Int
  BY <1>2 DEF Pos
<1>4. s.tick \in PricedTicks /\ s.tick + 1 \in PricedTicks /\ MinTick \in Int /\ MaxTick \in Int
  BY <1>1, TicksAreInts DEF PricedTicks
<1>5. low >= MinTick => SqrtPriceFromTick(low) <= s.sqrtPrice
  <2> SUFFICES ASSUME low >= MinTick PROVE SqrtPriceFromTick(low) <= s.sqrtPrice
    OBVIOUS
  <2>1. low \in PricedTicks
    BY <1>1, <1>3, <1>4 DEF PricedTicks
  <2>2. SqrtPriceFromTick(low) <= SqrtPriceFromTick(s.tick)
        /\ SqrtPriceFromTick(low) \in Pos /\ SqrtPriceFromTick(s.tick) \in Pos
    BY <1>4, <2>1, PriceOrder
  <2> QED
    BY <1>1, <2>2 DEF Holds, Pos
<1>6. high <= MaxTick => s.sqrtPrice <= SqrtPriceFromTick(high)
  <2> SUFFICES ASSUME high <= MaxTick PROVE s.sqrtPrice <= SqrtPriceFromTick(high)
    OBVIOUS
  <2>1. high \in PricedTicks /\ s.tick + 1 <= high
    BY <1>1, <1>3, <1>4 DEF PricedTicks
  <2>2. SqrtPriceFromTick(s.tick + 1) <= SqrtPriceFromTick(high)
        /\ SqrtPriceFromTick(s.tick + 1) \in Pos /\ SqrtPriceFromTick(high) \in Pos
    BY <1>4, <2>1, PriceOrder
  <2> QED
    BY <1>1, <2>2 DEF Holds, Pos
<1> QED
  BY <1>5, <1>6 DEF GroupHoldsPrice, low, high

LEMMA BoundarySwapInv ==
    ASSUME SwapInv, NextBoundary
    PROVE  SwapInv'
<1>1. Types /\ PoolInv /\ WalkInv /\ NeverOverdrawn /\ OrdersFilledOnce /\ pc = "walk"
  BY DEF SwapInv, NextBoundary, Quoting
<1>2. PICK t \in boundaries(s.tick, q.zeroForOne, q.reach) :
         step' = [NoStep EXCEPT !.tickIndex = t, !.unfilled = orders[t], !.liquidityNext = s.liquidity]
  BY DEF NextBoundary
<1>3. pc' = "curve" /\ s.amountRemaining # 0
  BY DEF NextBoundary, WalkOver
<1>4. cfg' = cfg /\ pool' = pool /\ orders' = orders /\ now' = now /\ asks' = asks
      /\ q' = q /\ s' = s /\ fills' = fills
  BY DEF NextBoundary, poolVars
<1>5. /\ t \in Stops(q.reach) /\ IF q.zeroForOne THEN t <= s.tick ELSE t > s.tick
      /\ \A u \in Stops(q.reach) : (IF q.zeroForOne THEN u <= s.tick ELSE u > s.tick) =>
            IF q.zeroForOne THEN u <= t ELSE u >= t
  BY DEF boundaries
<1>6. /\ t \in Ticks /\ abs(t - pool.tick) <= q.reach /\ (t \in HasLiquidity \/ orders[t] > 0)
  BY <1>5 DEF Stops
<1>7. /\ cfg \in Configs /\ s \in States /\ orders \in [Ticks -> 0 .. MaxU64] /\ q.zeroForOne \in BOOLEAN
      /\ q.reach \in Nat /\ fills \in [Ticks -> 0 .. MaxU64] /\ Ticks \subseteq Int
      /\ s.tick \in Int /\ pool.tick \in Int /\ s.liquidity \in Nat /\ s.amountRemaining \in 0 .. MaxU64
      /\ MaxU64 \in Nat
  <2>1. /\ cfg \in Configs /\ s \in States /\ orders \in [Ticks -> 0 .. MaxU64] /\ q.zeroForOne \in BOOLEAN
        /\ q.reach \in Nat /\ fills \in [Ticks -> 0 .. MaxU64] /\ pool.tick \in Ticks
    BY <1>1 DEF Types
  <2>2. Ticks \subseteq Int /\ MaxU64 \in Nat
    BY TicksAreInts
  <2>3. s.tick \in Int /\ s.liquidity \in Nat /\ s.amountRemaining \in 0 .. MaxU64
    BY <2>1 DEF States
  <2> QED
    BY <2>1, <2>2, <2>3
<1>8. s.amountRemaining > 0
  BY <1>3, <1>7
<1>9. /\ step' \in Steps /\ step'.tickIndex = t /\ step'.unfilled = orders[t]
      /\ step'.liquidityNext = s.liquidity
  BY <1>2, <1>6, <1>7, NothingIsTyped DEF Steps
<1>10. t % cfg.tickSpacing = 0
  BY <1>1, <1>6, <1>7, PoolAssumption DEF PoolInv
<1>11. ASSUME NEW u \in Ticks, OnTheWay(u, t)
       PROVE  u \notin HasLiquidity /\ orders[u] = 0
  <2>1. u \in Int /\ t \in Int /\ orders[u] \in 0 .. MaxU64
    BY <1>6, <1>7
  <2>2. abs(u - pool.tick) <= q.reach
    <3>1. IF q.zeroForOne THEN t < u /\ u <= s.tick ELSE s.tick < u /\ u < t
      BY <1>11 DEF OnTheWay
    <3>2. IF q.zeroForOne THEN s.tick <= pool.tick ELSE pool.tick <= s.tick
      BY <1>1 DEF WalkInv
    <3> QED
      BY <1>6, <1>7, <2>1, <3>1, <3>2 DEF abs
  <2>3. u \notin Stops(q.reach)
    BY <1>5, <1>7, <1>11, <2>1 DEF OnTheWay
  <2> QED
    BY <2>1, <2>2, <2>3 DEF Stops
<1>12. Types'
  BY <1>1, <1>3, <1>4, <1>9 DEF Types
<1>13. PoolInv'
  BY <1>1, <1>4 DEF PoolInv, LiquidityAt
<1>14. WalkInv'
  BY <1>1, <1>4 DEF WalkInv, LiquidityAt
<1>15. BoundaryInv'
  <2>1. fills[t] = 0
    <3>1. fills[t] \in 0 .. MaxU64 /\ t \in Int
      BY <1>6, <1>7
    <3>2. ~(fills[t] > 0)
      BY <1>1, <1>5, <1>6, <1>7, <1>8, <3>1 DEF WalkInv
    <3> QED
      BY <3>1, <3>2, <1>7
  <2>2. \A u \in Ticks : (IF q'.zeroForOne THEN t < u /\ u <= s'.tick ELSE s'.tick < u /\ u < t)
                            => u \notin HasLiquidity /\ orders'[u] = 0
    BY <1>4, <1>11 DEF OnTheWay
  <2>3. IF q'.zeroForOne THEN t <= s'.tick ELSE s'.tick < t
    BY <1>4, <1>5, <1>6, <1>7
  <2> QED
    BY <1>4, <1>6, <1>9, <1>10, <2>1, <2>2, <2>3 DEF BoundaryInv, OnTheWay
<1>16. cfg.dynamic => GroupInv'
  <2> SUFFICES ASSUME cfg.dynamic PROVE GroupInv'
    OBVIOUS
  <2>1. low <= s.tick /\ s.tick < high
    BY <1>1, <1>8 DEF SwapInv, GroupInv
  <2> DEFINE i == s.tickSpacingIdx
             sp == cfg.tickSpacing
  <2>2. i \in Int /\ sp \in Pos /\ i * sp \in Int /\ low = i * sp /\ high = i * sp + sp
    <3>1. i \in Int /\ sp \in Pos
      BY <1>7, ConfigFacts DEF States
    <3> QED
      BY <3>1, NextGroups DEF low, high
  <2>3. /\ t < low + sp => t <= low
        /\ low < t => low + sp <= t
    BY <2>2, <1>6, <1>7, <1>10, AlignedOutside
  <2>4. IF q.zeroForOne THEN t <= low /\ low <= MaxTick ELSE MinTick <= high /\ high <= t
    <3>1. t \in Int /\ s.tick <= MaxTick /\ MinTick - 1 <= s.tick /\ MinTick \in Int /\ MaxTick \in Int
      <4>1. s.tick \in MinTick - 1 .. MaxTick
        BY <1>1 DEF WalkInv
      <4>2. MinTick \in Int /\ MaxTick \in Int /\ t \in Int
        BY <1>6, <1>7, TicksAreInts
      <4> HIDE DEF i, sp
      <4> QED
        BY <4>1, <4>2
    <3>2. low \in Int /\ sp \in Int /\ high = low + sp
      BY <2>2 DEF Pos
    <3>3. (t <= s.tick => t <= low) /\ (s.tick < t => high <= t)
      <4> HIDE DEF i, sp
      <4> QED
        BY <1>7, <2>1, <2>3, <3>1, <3>2
    <3> QED
      BY <1>5, <1>7, <2>1, <3>1, <3>2, <3>3
  <2>5. GroupHoldsPrice'
    <3>1. GroupHoldsPrice
      BY <1>1, <2>1, GroupOfWalk
    <3> QED
      BY <1>1, <1>3, <1>4, <3>1 DEF GroupHoldsPrice
  <2>6. EdgeOnTheWay'
    BY <1>4, <1>9, <2>4 DEF EdgeOnTheWay, low, high
  <2> QED
    BY <1>3, <2>5, <2>6 DEF GroupInv
<1>17. OrdersFilledOnce' /\ NeverOverdrawn'
  BY <1>1, <1>4 DEF OrdersFilledOnce, NeverOverdrawn
<1> QED
  BY <1>3, <1>4, <1>8, <1>12, <1>13, <1>14, <1>15, <1>16, <1>17 DEF SwapInv, AtRest, Quoting

LEMMA EndSwapInv ==
    ASSUME SwapInv, EndOfWalk
    PROVE  SwapInv'
<1>1. Types /\ PoolInv /\ WalkInv /\ NeverOverdrawn /\ OrdersFilledOnce /\ pc = "walk"
  BY DEF SwapInv, EndOfWalk, Quoting
<1>2. /\ pc' = "done" /\ cfg' = cfg /\ pool' = pool /\ orders' = orders /\ now' = now /\ asks' = asks
      /\ q' = q /\ s' = s /\ step' = step /\ fills' = fills
  BY DEF EndOfWalk, poolVars
<1>3. Types'
  BY <1>1, <1>2 DEF Types
<1>4. PoolInv' /\ WalkInv'
  BY <1>1, <1>2 DEF PoolInv, WalkInv, LiquidityAt
<1>5. OrdersFilledOnce' /\ NeverOverdrawn' /\ GroupInv'
  BY <1>1, <1>2 DEF OrdersFilledOnce, NeverOverdrawn, GroupInv
<1> QED
  BY <1>2, <1>3, <1>4, <1>5 DEF SwapInv, AtRest

\* The price of a tick of the range needs no clamping.
LEMMA TargetIsBoundary ==
    ASSUME NEW t \in Ticks, NEW z \in BOOLEAN
    PROVE  clampTarget(SqrtPriceFromTick(t), z) = SqrtPriceFromTick(t)
<1>1. t \in PricedTicks /\ MinTick \in PricedTicks /\ MaxTick \in PricedTicks /\ MinTick <= t /\ t <= MaxTick
  BY TicksAreInts DEF PricedTicks
<1>2. /\ SqrtPriceFromTick(t) \in Pos /\ MinSqrtPrice \in Pos /\ MaxSqrtPrice \in Pos
      /\ MinSqrtPrice <= SqrtPriceFromTick(t)
  BY <1>1, PriceOrder DEF MinSqrtPrice, MaxSqrtPrice
<1>3. SqrtPriceFromTick(t) <= MaxSqrtPrice
  BY <1>1, PriceOrder DEF MaxSqrtPrice
<1> QED
  BY <1>2, <1>3 DEF clampTarget, limit, minOf, maxOf, Pos

\* Where a step along the curve heads: the boundary, or the edge of the group before it.
LEMMA CurveBounds ==
    ASSUME SwapInv, pc = "curve"
    PROVE  LET st      == updateVolatilityAccumulator(s)
               z       == q.zeroForOne
               target  == SqrtPriceFromTick(step.tickIndex)
               edge    == IF z THEN low ELSE high
               bounded == spacingBoundedPrice(st, target, z)
           IN  /\ clampTarget(target, z) = target /\ target \in Pos
               /\ s.sqrtPrice \in Pos /\ bounded \in Pos
               /\ Ahead(s.sqrtPrice, bounded, z) /\ Ahead(bounded, target, z)
               /\ ~cfg.dynamic => skipsGroups(st)
               /\ skipsGroups(st) => bounded = target /\ ~stopsAtGroup(st, target, z)
               /\ ~skipsGroups(st) =>
                     /\ EdgeOnTheWay /\ edge \in Ticks
                     /\ groupEdge(st, z) = edge /\ bounded = SqrtPriceFromTick(edge)
                     /\ stopsAtGroup(st, target, z)
<1> DEFINE st      == updateVolatilityAccumulator(s)
           z       == q.zeroForOne
           target  == SqrtPriceFromTick(step.tickIndex)
           edge    == IF z THEN low ELSE high
           bounded == spacingBoundedPrice(st, target, z)
           p       == s.sqrtPrice
<1>1. Types /\ WalkInv /\ BoundaryInv /\ (cfg.dynamic => GroupInv)
  BY DEF SwapInv, Quoting
<1>2. cfg \in Configs /\ s \in States /\ z \in BOOLEAN /\ cfg.dynamic \in BOOLEAN
  BY <1>1, ConfigFacts DEF Types
<1>3. s.tick \in MinTick - 1 .. MaxTick /\ step.tickIndex \in Ticks /\ p \in MinSqrtPrice .. MaxSqrtPrice
      /\ Holds(s.tick, p)
  BY <1>1 DEF WalkInv, BoundaryInv
<1>4. /\ s.tick \in PricedTicks /\ s.tick + 1 \in PricedTicks /\ step.tickIndex \in PricedTicks
      /\ MinTick \in PricedTicks /\ MaxTick \in PricedTicks
  BY <1>3, TicksAreInts DEF PricedTicks
<1>5. p \in Pos /\ target \in Pos /\ SqrtPriceFromTick(s.tick) \in Pos /\ SqrtPriceFromTick(s.tick + 1) \in Pos
  <2>1. MinSqrtPrice \in Pos /\ MaxSqrtPrice \in Pos
    BY <1>4, PriceIsPositive DEF MinSqrtPrice, MaxSqrtPrice
  <2>2. p \in Pos
    BY <1>3, <2>1 DEF Pos
  <2> QED
    BY <1>4, <2>2, PriceIsPositive
<1>6. Ahead(p, target, z)
  <2>1. CASE z = TRUE
    <3>1. SqrtPriceFromTick(step.tickIndex) <= SqrtPriceFromTick(s.tick)
      BY <1>1, <1>4, <2>1, PriceOrder DEF BoundaryInv
    <3> QED
      BY <1>3, <1>5, <2>1, <3>1 DEF Ahead, Holds, Pos
  <2>2. CASE z = FALSE
    <3>1. s.tick < step.tickIndex /\ s.tick \in Int /\ step.tickIndex \in Int
      BY <1>1, <1>3, <2>2, TicksAreInts DEF BoundaryInv
    <3>2. SqrtPriceFromTick(s.tick + 1) <= SqrtPriceFromTick(step.tickIndex)
      BY <1>4, <3>1, PriceOrder
    <3> QED
      BY <1>3, <1>5, <2>2, <3>2 DEF Ahead, Holds, Pos
  <2> QED
    BY <1>2, <2>1, <2>2
<1>7. st.tickSpacingIdx = s.tickSpacingIdx
  BY <1>2, AccumulatorUpdates DEF SamePlace
<1>8. clampTarget(target, z) = target
  BY <1>2, <1>3, TargetIsBoundary
<1>9. ~cfg.dynamic => skipsGroups(st)
  BY DEF skipsGroups
<1>10. Ahead(target, target, z)
  BY <1>5 DEF Ahead, Pos
<1>11. CASE skipsGroups(st)
  <2>1. ~stopsAtGroup(st, target, z)
    BY <1>11 DEF stopsAtGroup
  <2>2. bounded = target
    BY <2>1 DEF spacingBoundedPrice
  <2> HIDE DEF st, bounded, target, edge, z, p
  <2> QED
    BY <1>5, <1>6, <1>8, <1>9, <1>10, <1>11, <2>1, <2>2 DEF st, bounded, target, edge, z, p
<1>12. CASE ~skipsGroups(st)
  <2>1. cfg.dynamic /\ EdgeOnTheWay /\ GroupHoldsPrice
    BY <1>1, <1>2, <1>12 DEF skipsGroups, GroupInv
  <2> DEFINE i == s.tickSpacingIdx
             sp == cfg.tickSpacing
  <2>2. low \in Int /\ sp \in Pos /\ high = low + sp /\ high \in Int /\ (i + 1) * sp = high /\ i * sp = low
    <3>1. i \in Int /\ sp \in Pos
      BY <1>2, ConfigFacts DEF States
    <3>2. i * sp \in Int /\ (i + 1) * sp = i * sp + sp
      BY <3>1, NextGroups
    <3> QED
      BY <3>1, <3>2 DEF low, high, Pos
  <2>3. edge \in Ticks /\ MinTick <= edge /\ edge <= MaxTick /\ edge \in Int
        /\ IF z THEN step.tickIndex <= edge ELSE edge <= step.tickIndex
    <3>1. MinTick <= step.tickIndex /\ step.tickIndex <= MaxTick /\ MinTick \in Int /\ MaxTick \in Int
          /\ step.tickIndex \in Int /\ Ticks = MinTick .. MaxTick
      BY <1>3, TicksAreInts
    <3>2. IF z THEN step.tickIndex <= low /\ low <= MaxTick ELSE MinTick <= high /\ high <= step.tickIndex
      BY <2>1 DEF EdgeOnTheWay
    <3>3. CASE z = TRUE
      BY <2>2, <3>1, <3>2, <3>3
    <3>4. CASE z = FALSE
      BY <2>2, <3>1, <3>2, <3>4
    <3> QED
      BY <1>2, <3>3, <3>4
  <2>4. groupEdge(st, z) = edge
    <3>1. groupEdge(st, z) = minOf(maxOf(edge, MinTick), MaxTick)
      BY <1>7, <2>2 DEF groupEdge
    <3> HIDE DEF edge
    <3> QED
      BY <2>3, <3>1, TicksAreInts DEF minOf, maxOf
  <2>5. edge \in PricedTicks /\ edge + 1 \in PricedTicks
    BY <2>3, TicksAreInts DEF PricedTicks
  <2>6. SqrtPriceFromTick(edge) \in Pos /\ Ahead(SqrtPriceFromTick(edge), target, z)
    <3> HIDE DEF edge
    <3> QED
      BY <1>2, <1>4, <2>3, <2>5, PriceOrder DEF Ahead
  <2>7. stopsAtGroup(st, target, z)
    BY <1>2, <1>12, <2>4, <2>6 DEF stopsAtGroup, Ahead, Pos
  <2>8. bounded = SqrtPriceFromTick(edge)
    BY <2>4, <2>7 DEF spacingBoundedPrice
  <2>9. Ahead(p, SqrtPriceFromTick(edge), z)
    <3>1. s.amountRemaining > 0
      BY DEF SwapInv
    <3>2. /\ low >= MinTick => SqrtPriceFromTick(low) <= p
          /\ high <= MaxTick => p <= SqrtPriceFromTick(high)
      BY <2>1, <3>1 DEF GroupHoldsPrice, low, high
    <3>3. CASE z = TRUE
      BY <2>3, <3>2, <3>3, TicksAreInts DEF Ahead
    <3>4. CASE z = FALSE
      BY <2>3, <3>2, <3>4, TicksAreInts DEF Ahead
    <3> QED
      BY <1>2, <3>3, <3>4
  <2> HIDE DEF st, bounded, target, edge, z, p
  <2> QED
    BY <1>5, <1>8, <1>9, <1>12, <2>1, <2>3, <2>4, <2>6, <2>7, <2>8, <2>9 DEF st, bounded, target, edge, z, p
<1> QED
  BY <1>11, <1>12

\* A step toward the bound ends between the price and the bound, and costs what remains
\* when it ends short of it.
LEMMA CurveStepArrives ==
    ASSUME SwapInv, pc = "curve"
    PROVE  LET st      == updateVolatilityAccumulator(s)
               z       == q.zeroForOne
               target  == SqrtPriceFromTick(step.tickIndex)
               bounded == spacingBoundedPrice(st, target, z)
               r       == curveStep(st, bounded)
               cost    == r.amountIn + (IF IsFeeOnInput(z) THEN r.feeAmount ELSE 0)
           IN  /\ r.sqrtPriceNext \in Pos
               /\ Ahead(s.sqrtPrice, r.sqrtPriceNext, z) /\ Ahead(r.sqrtPriceNext, bounded, z)
               /\ r.amountIn \in Nat /\ r.amountOut \in Nat /\ r.feeAmount \in Nat
               /\ cost <= s.amountRemaining
               /\ r.sqrtPriceNext # bounded => cost = s.amountRemaining
<1> DEFINE st      == updateVolatilityAccumulator(s)
           z       == q.zeroForOne
           target  == SqrtPriceFromTick(step.tickIndex)
           bounded == spacingBoundedPrice(st, target, z)
           onInput == IsFeeOnInput(z)
           f       == totalFeeRateAt(st.dyn.accumulator)
           r       == curveStep(st, bounded)
<1>1. cfg \in Configs /\ s \in States /\ z \in BOOLEAN
  BY DEF SwapInv, Types
<1>2. /\ st \in States /\ st.sqrtPrice = s.sqrtPrice /\ st.liquidity = s.liquidity
      /\ st.amountRemaining = s.amountRemaining
  BY <1>1, AccumulatorUpdates DEF SamePlace
<1>3. s.sqrtPrice \in Pos /\ bounded \in Pos /\ Ahead(s.sqrtPrice, bounded, z)
  BY CurveBounds
<1>4. onInput \in BOOLEAN
  BY <1>1 DEF IsFeeOnInput
<1>5. f \in 0 .. FeeRateDenominator - 1
  <2>1. st.dyn.accumulator \in Nat
    BY <1>2 DEF States, Dyns
  <2> HIDE DEF st
  <2> QED
    BY <1>1, <2>1, FeeRateFits
<1>6. s.liquidity \in Nat /\ s.amountRemaining \in 0 .. MaxU64 /\ s.amountRemaining \in Nat /\ MaxU64 \in Nat
  BY <1>1, TicksAreInts DEF States
<1> HIDE DEF bounded, f, onInput, z, st
<1>7. CASE s.sqrtPrice = bounded
  <2>1. r = [sqrtPriceNext |-> bounded, amountIn |-> 0, amountOut |-> 0, feeAmount |-> 0]
    BY <1>2, <1>7 DEF curveStep
  <2>2. r.sqrtPriceNext = bounded /\ r.amountIn = 0 /\ r.amountOut = 0 /\ r.feeAmount = 0
    BY <2>1
  <2>3. Ahead(bounded, bounded, z)
    BY <1>3 DEF Ahead, Pos
  <2> HIDE DEF r
  <2>4. r.amountIn + (IF onInput THEN r.feeAmount ELSE 0) = 0
    BY <1>4, <2>2
  <2> QED
    BY <1>3, <1>6, <2>2, <2>3, <2>4 DEF r, bounded, f, onInput, z, st
<1>8. CASE s.sqrtPrice # bounded
  <2> DEFINE p == s.sqrtPrice
             L == s.liquidity
             a == s.amountRemaining
             c == ComputeSwapStep(p, bounded, L, a, f, z, onInput)
  <2>1. r = c
    BY <1>2, <1>8 DEF curveStep, onInput, z, f
  <2>2. p \in Pos /\ L \in Nat /\ a \in 0 .. MaxU64 /\ Ahead(p, bounded, z) /\ z \in BOOLEAN
    BY <1>1, <1>3, <1>6 DEF z
  <2> HIDE DEF p, L, a, c, r
  <2>3. /\ c.sqrtPriceNext \in Pos
        /\ Ahead(p, c.sqrtPriceNext, z) /\ Ahead(c.sqrtPriceNext, bounded, z)
        /\ c.amountIn \in Nat /\ c.amountOut \in Nat /\ c.feeAmount \in Nat
        /\ c.amountIn + (IF onInput THEN c.feeAmount ELSE 0) <= a
        /\ c.sqrtPriceNext # bounded => c.amountIn + (IF onInput THEN c.feeAmount ELSE 0) = a
    BY <1>3, <1>4, <1>5, <2>2, StepArrives DEF c
  <2> QED
    BY <2>1, <2>3 DEF r, bounded, f, onInput, z, st, p, L, a
<1> QED
  BY <1>7, <1>8

\* Where the price lands short of the boundary: its tick is at or behind the boundary, and
\* not behind the walk's.
LEMMA LandsOnTheWay ==
    ASSUME SwapInv, pc = "curve", NEW next \in Pos,
           Ahead(s.sqrtPrice, next, q.zeroForOne),
           LET st     == updateVolatilityAccumulator(s)
               target == SqrtPriceFromTick(step.tickIndex)
           IN  Ahead(next, spacingBoundedPrice(st, target, q.zeroForOne), q.zeroForOne)
    PROVE  LET st      == updateVolatilityAccumulator(s)
               target  == SqrtPriceFromTick(step.tickIndex)
               bounded == spacingBoundedPrice(st, target, q.zeroForOne)
               landing == landedTick(st, next, bounded, target, q.zeroForOne)
           IN  /\ landing \in MinTick - 1 .. MaxTick
               /\ next # target =>
                     /\ Holds(landing, next)
                     /\ IF q.zeroForOne THEN step.tickIndex <= landing /\ landing <= s.tick
                                        ELSE s.tick <= landing /\ landing < step.tickIndex
<1> DEFINE st      == updateVolatilityAccumulator(s)
           z       == q.zeroForOne
           target  == SqrtPriceFromTick(step.tickIndex)
           bounded == spacingBoundedPrice(st, target, z)
           landing == landedTick(st, next, bounded, target, z)
           edge    == IF z THEN low ELSE high
           p       == s.sqrtPrice
           tick    == s.tick
           far     == step.tickIndex
           goal    == /\ landing \in MinTick - 1 .. MaxTick
                      /\ next # target =>
                            /\ Holds(landing, next)
                            /\ IF z THEN far <= landing /\ landing <= tick
                                    ELSE tick <= landing /\ landing < far
<1>1. Types /\ WalkInv /\ BoundaryInv
  BY DEF SwapInv, Quoting
<1>2. cfg \in Configs /\ s \in States /\ z \in BOOLEAN
  BY <1>1 DEF Types
<1>3. /\ tick \in MinTick - 1 .. MaxTick /\ far \in Ticks /\ Holds(tick, p)
      /\ p \in MinSqrtPrice .. MaxSqrtPrice
      /\ IF z THEN far <= tick ELSE tick < far
  BY <1>1 DEF WalkInv, BoundaryInv
<1>4. st.sqrtPrice = p /\ st.tick = tick
  BY <1>2, AccumulatorUpdates DEF SamePlace
<1>5. /\ target \in Pos /\ p \in Pos /\ bounded \in Pos /\ Ahead(bounded, target, z)
      /\ stopsAtGroup(st, target, z) =>
            /\ EdgeOnTheWay /\ edge \in Ticks
            /\ groupEdge(st, z) = edge /\ bounded = SqrtPriceFromTick(edge)
  BY CurveBounds
<1>6. Ahead(p, next, z) /\ Ahead(next, bounded, z)
  OBVIOUS
<1>7. Ahead(next, target, z)
  <2> HIDE DEF bounded, target, z
  <2> QED
    BY <1>5, <1>6 DEF Ahead, Pos
<1>8. landing = IF next = p THEN tick
                ELSE IF stopsAtGroup(st, target, z) /\ next = bounded THEN groupEdge(st, z)
                ELSE TickFromSqrtPrice(next)
  BY <1>4 DEF landedTick
<1>9. MinTick \in Int /\ MaxTick \in Int /\ tick \in Int /\ far \in Int /\ MinTick <= far /\ far <= MaxTick
      /\ Ticks = MinTick .. MaxTick
  BY <1>3, TicksAreInts
<1>10. tick \in PricedTicks /\ tick + 1 \in PricedTicks /\ far \in PricedTicks
  BY <1>3, <1>9 DEF PricedTicks
<1>11. SqrtPriceFromTick(tick) \in Pos /\ SqrtPriceFromTick(tick + 1) \in Pos
       /\ SqrtPriceFromTick(tick) <= p /\ p <= SqrtPriceFromTick(tick + 1)
  BY <1>3, <1>10, PriceIsPositive DEF Holds
<1> HIDE DEF landing, st, bounded, edge
\* A tick c between the walk's and the boundary, whose price is at most next.
<1>12. ASSUME NEW c \in Ticks, SqrtPriceFromTick(c) <= next, next <= SqrtPriceFromTick(c + 1),
              next # p, next # target,
              next < SqrtPriceFromTick(c + 1) \/ next = SqrtPriceFromTick(c),
              landing = c
       PROVE  goal
  <2>1. c \in PricedTicks /\ c + 1 \in PricedTicks /\ c \in Int
    BY <1>9 DEF PricedTicks
  <2>2. SqrtPriceFromTick(c) \in Pos /\ SqrtPriceFromTick(c + 1) \in Pos /\ next \in Int
        /\ SqrtPriceFromTick(c) < SqrtPriceFromTick(c + 1)
    BY <2>1, PriceIsPositive, PricesRise DEF Pos
  <2>3. next < SqrtPriceFromTick(c + 1)
    BY <1>12, <2>2 DEF Pos
  <2>4. CASE z = TRUE
    <3>1. target < SqrtPriceFromTick(c + 1)
      BY <1>5, <1>7, <2>2, <2>3, <2>4 DEF Ahead, Pos
    <3>2. far <= c
      BY <1>9, <1>10, <2>1, <3>1, PriceOrder
    <3>3. SqrtPriceFromTick(c) < SqrtPriceFromTick(tick + 1)
      BY <1>5, <1>6, <1>11, <1>12, <2>2, <2>4 DEF Ahead, Pos
    <3>4. c <= tick
      BY <1>9, <1>10, <2>1, <3>3, PriceOrder
    <3> QED
      BY <1>9, <1>12, <2>1, <2>4, <3>2, <3>4 DEF Holds
  <2>5. CASE z = FALSE
    <3>1. SqrtPriceFromTick(c) < target
      BY <1>5, <1>7, <1>12, <2>2, <2>5 DEF Ahead, Pos
    <3>2. c < far
      BY <1>9, <1>10, <2>1, <3>1, PriceOrder
    <3>3. SqrtPriceFromTick(tick) < SqrtPriceFromTick(c + 1)
      BY <1>5, <1>6, <1>11, <1>12, <2>2, <2>3, <2>5 DEF Ahead, Pos
    <3>4. tick <= c
      BY <1>9, <1>10, <2>1, <3>3, PriceOrder
    <3> QED
      BY <1>9, <1>12, <2>1, <2>5, <3>2, <3>4 DEF Holds
  <2> QED
    BY <1>2, <2>4, <2>5
<1>13. ASSUME next = p PROVE goal
  BY <1>3, <1>8, <1>9, <1>13
<1>14. ASSUME next # p, stopsAtGroup(st, target, z), next = bounded
       PROVE  goal
  <2>1. landing = edge /\ edge \in Ticks /\ next = SqrtPriceFromTick(edge)
    BY <1>5, <1>8, <1>14
  <2>2. edge \in PricedTicks /\ edge + 1 \in PricedTicks /\ edge \in Int
    BY <1>9, <2>1 DEF PricedTicks
  <2>3. SqrtPriceFromTick(edge) < SqrtPriceFromTick(edge + 1)
        /\ SqrtPriceFromTick(edge) \in Pos /\ SqrtPriceFromTick(edge + 1) \in Pos
    BY <2>2, PriceIsPositive, PricesRise
  <2>4. SqrtPriceFromTick(edge) <= next /\ next <= SqrtPriceFromTick(edge + 1)
    BY <2>1, <2>3 DEF Pos
  <2>5. landing \in MinTick - 1 .. MaxTick
    BY <1>9, <2>1
  <2> QED
    BY <1>12, <1>14, <2>1, <2>4, <2>5
<1>15. ASSUME next # p, ~(stopsAtGroup(st, target, z) /\ next = bounded)
       PROVE  goal
  <2> DEFINE c == TickFromSqrtPrice(next)
  <2>1. landing = c
    BY <1>8, <1>15
  <2>2. next \in MinSqrtPrice .. MaxSqrtPrice
    <3>1. MinSqrtPrice \in Pos /\ MaxSqrtPrice \in Pos /\ MinSqrtPrice <= target /\ target <= MaxSqrtPrice
      <4>1. MinTick \in PricedTicks /\ MaxTick \in PricedTicks
        BY <1>9, TicksAreInts DEF PricedTicks
      <4> QED
        BY <1>9, <1>10, <4>1, PriceOrder DEF MinSqrtPrice, MaxSqrtPrice
    <3> HIDE DEF target
    <3>2. p \in Int /\ MinSqrtPrice <= p /\ p <= MaxSqrtPrice
      BY <1>3, <3>1 DEF Pos
    <3> QED
      BY <1>2, <1>5, <1>6, <1>7, <3>1, <3>2 DEF Ahead, Pos
  <2>3. c \in Ticks /\ SqrtPriceFromTick(c) <= next /\ next < SqrtPriceFromTick(c + 1)
    BY <2>2, TickOfPrice
  <2> HIDE DEF c
  <2>4. c + 1 \in PricedTicks
    BY <1>9, <2>3 DEF PricedTicks
  <2>5. next <= SqrtPriceFromTick(c + 1)
    BY <2>3, <2>4, PriceIsPositive DEF Pos
  <2>6. landing \in MinTick - 1 .. MaxTick
    BY <1>9, <2>1, <2>3
  <2> QED
    BY <1>12, <1>15, <2>1, <2>3, <2>5, <2>6
<1>16. goal
  BY <1>13, <1>14, <1>15
<1> HIDE DEF z, target, p, tick, far
<1> QED
  BY <1>16 DEF landing, st, bounded, z, target, p, tick, far

LEMMA CurveSwapInv ==
    ASSUME SwapInv, SwapAlongCurve
    PROVE  SwapInv' /\ (Quoting' => OneWay)
<1> DEFINE st      == updateVolatilityAccumulator(s)
           z       == q.zeroForOne
           target  == SqrtPriceFromTick(step.tickIndex)
           edge    == IF z THEN low ELSE high
           bounded == spacingBoundedPrice(st, target, z)
           r       == curveStep(st, bounded)
           onInput == IsFeeOnInput(z)
           cost    == r.amountIn + (IF onInput THEN r.feeAmount ELSE 0)
           feeRate == totalFeeRateAt(st.dyn.accumulator)
           landing == landedTick(st, r.sqrtPriceNext, bounded, target, z)
<1>1. Types /\ PoolInv /\ WalkInv /\ BoundaryInv /\ OrdersFilledOnce /\ pc = "curve" /\ s.amountRemaining > 0
  BY DEF SwapInv, SwapAlongCurve, Quoting
<1>2. /\ cfg' = cfg /\ pool' = pool /\ orders' = orders /\ now' = now /\ asks' = asks
      /\ q' = q /\ fills' = fills
  BY DEF SwapAlongCurve, poolVars
<1>3. cfg \in Configs /\ s \in States /\ step \in Steps /\ z \in BOOLEAN /\ onInput \in BOOLEAN
  BY <1>1 DEF Types, IsFeeOnInput
<1>4. /\ clampTarget(target, z) = target /\ target \in Pos /\ s.sqrtPrice \in Pos /\ bounded \in Pos
      /\ Ahead(bounded, target, z)
      /\ ~cfg.dynamic => skipsGroups(st)
      /\ skipsGroups(st) => bounded = target
      /\ ~skipsGroups(st) => EdgeOnTheWay /\ bounded = SqrtPriceFromTick(edge)
  BY <1>1, CurveBounds
<1>5. /\ st \in States /\ SamePlace(st, s) /\ st.err = "none"
      /\ st.amountRemaining = s.amountRemaining /\ st.amountOut = s.amountOut
  BY <1>1, <1>3, AccumulatorUpdates DEF WalkInv
<1>6. /\ r.sqrtPriceNext \in Pos
      /\ Ahead(s.sqrtPrice, r.sqrtPriceNext, z) /\ Ahead(r.sqrtPriceNext, bounded, z)
      /\ r.amountIn \in Nat /\ r.amountOut \in Nat /\ r.feeAmount \in Nat
      /\ cost <= s.amountRemaining
      /\ r.sqrtPriceNext # bounded => cost = s.amountRemaining
  BY <1>1, CurveStepArrives
<1>7. /\ landing \in MinTick - 1 .. MaxTick
      /\ r.sqrtPriceNext # target =>
            /\ Holds(landing, r.sqrtPriceNext)
            /\ IF z THEN step.tickIndex <= landing /\ landing <= s.tick
                    ELSE s.tick <= landing /\ landing < step.tickIndex
  <2> DEFINE next == r.sqrtPriceNext
  <2>1. next \in Pos /\ Ahead(s.sqrtPrice, next, z) /\ Ahead(next, bounded, z)
    BY <1>6
  <2> HIDE DEF next
  <2>2. /\ landedTick(st, next, bounded, target, z) \in MinTick - 1 .. MaxTick
        /\ next # target =>
              /\ Holds(landedTick(st, next, bounded, target, z), next)
              /\ IF z THEN step.tickIndex <= landedTick(st, next, bounded, target, z)
                           /\ landedTick(st, next, bounded, target, z) <= s.tick
                      ELSE s.tick <= landedTick(st, next, bounded, target, z)
                           /\ landedTick(st, next, bounded, target, z) < step.tickIndex
    BY <1>1, <2>1, LandsOnTheWay
  <2> QED
    BY <2>2 DEF next
<1>8. feeRate \in 0 .. FeeRateDenominator - 1
  <2>1. st.dyn.accumulator \in Nat
    BY <1>5 DEF States, Dyns
  <2> HIDE DEF st
  <2> QED
    BY <1>3, <2>1, FeeRateFits
<1>9. /\ s' = apply(st, r.amountIn, r.amountOut, r.feeAmount, onInput)
      /\ step' = [step EXCEPT !.feeRate = feeRate, !.skipped = skipsGroups(st),
                              !.next = r.sqrtPriceNext, !.landing = landing]
      /\ pc' = IF s'.err = "none" THEN "arrive" ELSE "failed"
  <2>1. /\ \E a \in {updateVolatilityAccumulator(s)} :
           \E b \in {spacingBoundedPrice(a, clampTarget(target, z), z)} :
           \E c \in {curveStep(a, b)} :
              /\ s' = apply(a, c.amountIn, c.amountOut, c.feeAmount, IsFeeOnInput(z))
              /\ step' = [step EXCEPT !.feeRate = totalFeeRateAt(a.dyn.accumulator),
                                      !.skipped = skipsGroups(a), !.next = c.sqrtPriceNext,
                                      !.landing = landedTick(a, c.sqrtPriceNext, b, clampTarget(target, z), z)]
        /\ pc' = IF s'.err = "none" THEN "arrive" ELSE "failed"
    BY DEF SwapAlongCurve
  <2> QED
    BY <1>4, <2>1
<1> HIDE DEF st, target, edge, bounded, r, onInput, feeRate, landing
<1>10. skipsGroups(st) \in BOOLEAN
  BY DEF skipsGroups
<1>11. /\ step' \in Steps /\ step'.tickIndex = step.tickIndex /\ step'.unfilled = step.unfilled
       /\ step'.liquidityNext = step.liquidityNext /\ step'.skipped = skipsGroups(st)
       /\ step'.next = r.sqrtPriceNext /\ step'.landing = landing
  <2>1. r.sqrtPriceNext \in Nat /\ landing \in Int
    BY <1>6, <1>7, TicksAreInts DEF Pos
  <2> QED
    BY <1>3, <1>8, <1>9, <1>10, <2>1 DEF Steps
<1>12. /\ s' \in States /\ SamePlace(s', s) /\ s'.err # "ErrOverdrawn"
       /\ s'.err = "none" => /\ s'.amountRemaining = s.amountRemaining - cost
                             /\ s'.amountRemaining <= s.amountRemaining /\ s.amountOut <= s'.amountOut
  <2>1. r.amountIn \in Int /\ r.amountOut \in Int /\ r.feeAmount \in Int /\ cost <= st.amountRemaining
    BY <1>5, <1>6
  <2> DEFINE in == r.amountIn
             out == r.amountOut
             fee == r.feeAmount
             a == apply(st, in, out, fee, onInput)
  <2>2. cost = in + (IF onInput THEN fee ELSE 0)
    OBVIOUS
  <2>3. /\ in \in Int /\ out \in Int /\ fee \in Int
        /\ in + (IF onInput THEN fee ELSE 0) <= st.amountRemaining
    BY <2>1
  <2> HIDE DEF in, out, fee, a
  <2>4. /\ a \in States /\ SamePlace(a, st) /\ a.err # "ErrOverdrawn"
        /\ a.err = "none" =>
              /\ a.amountRemaining = st.amountRemaining - (in + (IF onInput THEN fee ELSE 0))
              /\ a.amountRemaining <= st.amountRemaining /\ st.amountOut <= a.amountOut
    BY <1>3, <1>5, <2>3, ApplyBooks DEF a
  <2>5. s' = a
    BY <1>9 DEF a, in, out, fee
  <2> HIDE DEF cost
  <2> QED
    BY <1>5, <2>2, <2>4, <2>5 DEF SamePlace
<1>13. Types'
  BY <1>1, <1>2, <1>9, <1>11, <1>12 DEF Types
<1>14. PoolInv' /\ OrdersFilledOnce' /\ NeverOverdrawn'
  BY <1>1, <1>2, <1>12 DEF PoolInv, LiquidityAt, OrdersFilledOnce, NeverOverdrawn
<1>15. s'.err = "none" => OneWay
  <2>1. s.sqrtPrice \in Int /\ s.tick \in Int /\ s.amountOut \in Int /\ s'.amountOut \in Int
    BY <1>3, <1>12, TicksAreInts DEF States
  <2> QED
    BY <1>12, <2>1 DEF OneWay, SamePlace
<1>16. CASE s'.err # "none"
  <2>1. pc' = "failed"
    BY <1>9, <1>16
  <2> QED
    BY <1>13, <1>14, <2>1 DEF SwapInv, AtRest, Quoting, GroupInv
<1>17. CASE s'.err = "none"
  <2>1. pc' = "arrive"
    BY <1>9, <1>17
  <2>2. WalkInv'
    BY <1>1, <1>2, <1>12, <1>17 DEF WalkInv, LiquidityAt, SamePlace
  <2>3. BoundaryInv'
    BY <1>1, <1>2, <1>11, <1>12 DEF BoundaryInv, OnTheWay, SamePlace
  <2>4. ArrivalInv'
    <3>1. SqrtPriceFromTick(step'.tickIndex) = target
      BY <1>11 DEF target
    <3>2. Ahead(r.sqrtPriceNext, target, z)
      BY <1>3, <1>4, <1>6 DEF Ahead, Pos
    <3>3. s'.amountRemaining > 0 => r.sqrtPriceNext = bounded
      <4> DEFINE x == s.amountRemaining
      <4>1. x \in Int /\ s'.amountRemaining = x - cost
        BY <1>3, <1>12, <1>17, TicksAreInts DEF States
      <4> HIDE DEF x, cost
      <4>2. cost = x => x - cost = 0
        BY <4>1
      <4> QED
        BY <1>6, <4>1, <4>2 DEF x
    <3>4. s'.amountRemaining > 0 /\ ~skipsGroups(st) =>
             EdgeOnTheWay' /\ r.sqrtPriceNext = SqrtPriceFromTick(IF z THEN low' ELSE high')
      <4>1. low' = low /\ high' = high
        BY <1>2, <1>12 DEF low, high, SamePlace
      <4>2. EdgeOnTheWay' = EdgeOnTheWay
        BY <1>2, <1>11, <4>1 DEF EdgeOnTheWay
      <4> QED
        BY <1>4, <3>3, <4>1, <4>2 DEF edge
    <3>5. /\ Ahead(s'.sqrtPrice, step'.next, q'.zeroForOne)
          /\ step'.next # target =>
                /\ Holds(step'.landing, step'.next)
                /\ IF q'.zeroForOne
                   THEN step'.tickIndex <= step'.landing /\ step'.landing <= s'.tick
                   ELSE s'.tick <= step'.landing /\ step'.landing < step'.tickIndex
      BY <1>2, <1>6, <1>7, <1>11, <1>12 DEF SamePlace
    <3>6. /\ ~cfg'.dynamic => step'.skipped
          /\ s'.amountRemaining > 0 /\ step'.skipped => step'.next = target
      BY <1>2, <1>4, <1>11, <3>3
    <3> QED
      BY <1>2, <1>11, <3>1, <3>2, <3>4, <3>5, <3>6 DEF ArrivalInv
  <2>5. GroupInv'
    BY <2>1 DEF GroupInv
  <2> QED
    BY <1>13, <1>14, <1>17, <1>15, <2>1, <2>2, <2>3, <2>4, <2>5 DEF SwapInv, AtRest
<1> QED
  BY <1>16, <1>17

\* What Arrive makes of the state, the tick, the orders left and the liquidity it is given.
Arrived(st, tick, unfilled, liquidity) ==
    LET far   == step.tickIndex
        index == tickSpacingIndexFromTick(far, cfg.tickSpacing)
                     - (IF ~q.zeroForOne /\ far % cfg.tickSpacing = 0 THEN 1 ELSE 0)
        one   == IF q.zeroForOne THEN -1 ELSE 1
        over  == st.amountRemaining = 0 \/ step.next = SqrtPriceFromTick(far)
    IN  /\ s' \in States /\ step' \in Steps /\ fills' \in [Ticks -> 0 .. MaxU64]
        /\ s'.err = st.err /\ s'.amountRemaining = st.amountRemaining /\ s'.amountOut = st.amountOut
        /\ s'.sqrtPrice = step.next /\ s'.tick = tick
        /\ fills'[far] = orders[far] - unfilled
        /\ \A t \in Ticks : t # far => fills'[t] = fills[t]
        /\ cfg.dynamic /\ ~step.skipped => s'.tickSpacingIdx = st.tickSpacingIdx + one
        /\ cfg.dynamic /\ step.skipped /\ step.next = SqrtPriceFromTick(far) =>
              s'.tickSpacingIdx = index + one
        /\ over => pc' = "walk" /\ s'.liquidity = liquidity
        /\ ~over => /\ pc' = "curve" /\ s'.liquidity = st.liquidity
                    /\ step'.tickIndex = far /\ step'.unfilled = unfilled
                    /\ step'.liquidityNext = liquidity

LEMMA Arrives ==
    ASSUME Types, BoundaryInv, NEW st \in States, NEW tick \in Int, NEW unfilled \in 0 .. step.unfilled,
           NEW liquidity \in Nat, Arrive(st, tick, unfilled, liquidity)
    PROVE  Arrived(st, tick, unfilled, liquidity)
<1> DEFINE far   == step.tickIndex
           z     == q.zeroForOne
           placed == [st EXCEPT !.tick = tick, !.sqrtPrice = step.next]
           moved == updateDynamicFeeIndex(placed, z, step.skipped, far)
           index == tickSpacingIndexFromTick(far, cfg.tickSpacing)
                        - (IF ~z /\ far % cfg.tickSpacing = 0 THEN 1 ELSE 0)
           one   == IF z THEN -1 ELSE 1
           over  == st.amountRemaining = 0 \/ step.next = SqrtPriceFromTick(far)
<1>1. cfg \in Configs /\ s \in States /\ step \in Steps /\ z \in BOOLEAN /\ orders \in [Ticks -> 0 .. MaxU64]
      /\ fills \in [Ticks -> 0 .. MaxU64]
  BY DEF Types
<1>2. far \in Ticks /\ far \in Int /\ step.unfilled = orders[far] /\ fills[far] = 0
  BY TicksAreInts DEF BoundaryInv
<1>3. step.next \in Nat /\ step.skipped \in BOOLEAN
  BY <1>1 DEF Steps
<1>4. clampTarget(SqrtPriceFromTick(far), z) = SqrtPriceFromTick(far)
  BY <1>1, <1>2, TargetIsBoundary
<1>5. /\ fills' = [fills EXCEPT ![far] = @ + step.unfilled - unfilled]
      /\ over => pc' = "walk" /\ s' = [moved EXCEPT !.liquidity = liquidity] /\ step' = NoStep
      /\ ~over => /\ pc' = "curve" /\ s' = moved
                  /\ step' = [step EXCEPT !.unfilled = unfilled, !.liquidityNext = liquidity]
  BY <1>4 DEF Arrive
<1>6. /\ placed \in States /\ placed.err = st.err /\ placed.amountRemaining = st.amountRemaining
      /\ placed.amountOut = st.amountOut /\ placed.sqrtPrice = step.next /\ placed.tick = tick
      /\ placed.tickSpacingIdx = st.tickSpacingIdx /\ placed.liquidity = st.liquidity
  BY <1>3 DEF States
<1> HIDE DEF placed, far, z
<1>7. GroupMoves(moved, placed, z, step.skipped, far)
  BY <1>1, <1>2, <1>3, <1>6, IndexMoves
<1>8. /\ moved \in States /\ moved.err = placed.err
      /\ moved.amountRemaining = placed.amountRemaining /\ moved.amountOut = placed.amountOut
      /\ moved.sqrtPrice = placed.sqrtPrice /\ moved.tick = placed.tick /\ moved.liquidity = placed.liquidity
      /\ cfg.dynamic /\ ~step.skipped => moved.tickSpacingIdx = placed.tickSpacingIdx + one
      /\ cfg.dynamic /\ step.skipped /\ placed.sqrtPrice = SqrtPriceFromTick(far) =>
            moved.tickSpacingIdx = index + one
  <2> HIDE DEF moved
  <2> QED
    BY <1>7 DEF GroupMoves
<1> HIDE DEF moved, index, one, over
<1>9. fills' \in [Ticks -> 0 .. MaxU64] /\ fills'[far] = orders[far] - unfilled
      /\ \A t \in Ticks : t # far => fills'[t] = fills[t]
  <2>1. orders[far] \in 0 .. MaxU64 /\ MaxU64 \in Nat /\ unfilled \in 0 .. orders[far]
    BY <1>1, <1>2, TicksAreInts
  <2>2. fills[far] + step.unfilled - unfilled = orders[far] - unfilled
        /\ orders[far] - unfilled \in 0 .. MaxU64
    BY <1>2, <2>1
  <2> QED
    BY <1>1, <1>2, <1>5, <2>2
<1>10. CASE over
  <2>1. pc' = "walk" /\ s' = [moved EXCEPT !.liquidity = liquidity] /\ step' = NoStep
    BY <1>5, <1>10
  <2>2. s' \in States /\ s'.err = moved.err /\ s'.amountRemaining = moved.amountRemaining
        /\ s'.amountOut = moved.amountOut /\ s'.sqrtPrice = moved.sqrtPrice /\ s'.tick = moved.tick
        /\ s'.tickSpacingIdx = moved.tickSpacingIdx /\ s'.liquidity = liquidity
    <3>1. moved \in States
      BY <1>8
    <3> QED
      BY <2>1, <3>1 DEF States
  <2> QED
    BY <1>6, <1>8, <1>9, <1>10, <2>1, <2>2, NothingIsTyped DEF Arrived, far, z, index, one, over
<1>11. CASE ~over
  <2>1. pc' = "curve" /\ s' = moved /\ step' = [step EXCEPT !.unfilled = unfilled, !.liquidityNext = liquidity]
    BY <1>5, <1>11
  <2>2. unfilled \in 0 .. MaxU64
    <3>1. step.unfilled \in 0 .. MaxU64 /\ MaxU64 \in Nat
      BY <1>1, TicksAreInts DEF Steps
    <3> QED
      BY <3>1
  <2>3. step' \in Steps /\ step'.tickIndex = far /\ step'.unfilled = unfilled /\ step'.liquidityNext = liquidity
    BY <1>1, <2>1, <2>2 DEF Steps, far
  <2> QED
    BY <1>6, <1>8, <1>9, <1>11, <2>1, <2>3 DEF Arrived, far, z, index, one, over
<1> QED
  BY <1>10, <1>11

\* From the walk's tick to just before the boundary the liquidity is the walk's.
LEMMA LiquidityOnTheWay ==
    ASSUME Types, WalkInv, BoundaryInv, NEW u \in MinTick - 1 .. MaxTick,
           IF q.zeroForOne THEN step.tickIndex <= u /\ u <= s.tick
                           ELSE s.tick <= u /\ u < step.tickIndex
    PROVE  LiquidityAt(u) = s.liquidity
<1> DEFINE net == cfg.liquidityNet
           t   == s.tick
<1>1. cfg \in Configs /\ q.zeroForOne \in BOOLEAN
  BY DEF Types
<1>2. net \in [Ticks -> Int] /\ t \in MinTick - 1 .. MaxTick /\ s.liquidity = LiquidityOf(net, t)
      /\ u \in Int /\ t \in Int /\ step.tickIndex \in Int /\ Ticks \subseteq Int
  <2>1. net \in [Ticks -> Int]
    BY <1>1, ConfigFacts
  <2>2. t \in MinTick - 1 .. MaxTick /\ s.liquidity = LiquidityOf(net, t)
    BY DEF WalkInv, LiquidityAt
  <2>3. step.tickIndex \in Ticks
    BY DEF BoundaryInv
  <2>4. Ticks \subseteq Int /\ MinTick \in Int /\ MaxTick \in Int
    BY TicksAreInts
  <2> HIDE DEF net, t
  <2>5. u \in Int /\ t \in Int
    BY <2>2, <2>4
  <2>6. step.tickIndex \in Int
    BY <2>3, <2>4, Zenon
  <2> QED
    BY <2>1, <2>2, <2>4, <2>5, <2>6, Zenon
<1>3. \A v \in Ticks : OnTheWay(v, step.tickIndex) => net[v] = 0
  BY <1>1, PoolAssumption DEF BoundaryInv
<1> HIDE DEF net
<1>4. CASE q.zeroForOne = TRUE
  <2>1. \A v \in Ticks : u < v /\ v <= t => net[v] = 0
    BY <1>2, <1>3, <1>4 DEF OnTheWay
  <2> HIDE DEF t
  <2>2. u <= t
    BY <1>4 DEF t
  <2>3. LiquidityOf(net, u) = LiquidityOf(net, t)
    BY <1>2, <2>1, <2>2, LiquidityStays
  <2> QED
    BY <1>2, <2>3 DEF LiquidityAt, net
<1>5. CASE q.zeroForOne = FALSE
  <2>1. \A v \in Ticks : t < v /\ v <= u => net[v] = 0
    BY <1>2, <1>3, <1>5 DEF OnTheWay
  <2> HIDE DEF t
  <2>2. t <= u
    BY <1>5 DEF t
  <2>3. LiquidityOf(net, t) = LiquidityOf(net, u)
    BY <1>2, <2>1, <2>2, LiquidityStays
  <2> QED
    BY <1>2, <2>3 DEF LiquidityAt, net
<1> QED
  BY <1>1, <1>4, <1>5

\* A step that stops short leaves the walk on the way, in the next group if the input is
\* not used up.
LEMMA ShortSwapInv ==
    ASSUME SwapInv, pc = "arrive", StopShort, UNCHANGED <<poolVars, q>>
    PROVE  SwapInv' /\ OneWay
<1> DEFINE z       == q.zeroForOne
           far     == step.tickIndex
           target  == SqrtPriceFromTick(far)
           next    == step.next
           landing == step.landing
           tick    == s.tick
<1>1. Types /\ PoolInv /\ WalkInv /\ BoundaryInv /\ OrdersFilledOnce /\ ArrivalInv
  BY DEF SwapInv, Quoting
<1>2. /\ cfg' = cfg /\ pool' = pool /\ orders' = orders /\ now' = now /\ asks' = asks /\ q' = q
  BY DEF poolVars
<1>3. /\ cfg \in Configs /\ s \in States /\ step \in Steps /\ z \in BOOLEAN /\ next \in Nat
      /\ orders \in [Ticks -> 0 .. MaxU64] /\ fills \in [Ticks -> 0 .. MaxU64]
      /\ s.amountRemaining \in 0 .. MaxU64 /\ MaxU64 \in Nat /\ s.liquidity \in Nat
  BY <1>1, TicksAreInts DEF Types, States, Steps
<1>4. /\ far \in Ticks /\ far % cfg.tickSpacing = 0
      /\ IF z THEN far <= tick ELSE tick < far
      /\ \A t \in Ticks : OnTheWay(t, far) => t \notin HasLiquidity /\ orders[t] = 0
      /\ step.unfilled = orders[far] /\ fills[far] = 0 /\ step.liquidityNext = s.liquidity
  BY <1>1 DEF BoundaryInv
<1>5. /\ next # target /\ Holds(landing, next)
      /\ IF z THEN far <= landing /\ landing <= tick ELSE tick <= landing /\ landing < far
      /\ Ahead(s.sqrtPrice, next, z) /\ Ahead(next, target, z)
      /\ ~cfg.dynamic => step.skipped
      /\ s.amountRemaining > 0 =>
            /\ ~step.skipped /\ EdgeOnTheWay
            /\ next = SqrtPriceFromTick(IF z THEN low ELSE high)
  BY <1>1, <1>3 DEF ArrivalInv, StopShort, Steps
<1>6. /\ MinTick \in Int /\ MaxTick \in Int /\ far \in Int /\ tick \in MinTick - 1 .. MaxTick /\ tick \in Int
      /\ landing \in Int /\ Ticks = MinTick .. MaxTick /\ pool.tick \in Int
  <2>1. landing \in Int
    BY <1>3 DEF Steps
  <2>2. pool.tick \in Ticks
    BY <1>1 DEF Types
  <2> QED
    BY <1>1, <1>4, <2>1, <2>2, TicksAreInts DEF WalkInv
<1>7. landing \in MinTick - 1 .. MaxTick
  BY <1>3, <1>4, <1>5, <1>6
<1>8. orders[far] \in 0 .. MaxU64 /\ step.unfilled \in 0 .. step.unfilled
  BY <1>3, <1>4
<1>9. Arrived(s, landing, step.unfilled, s.liquidity)
  BY <1>1, <1>3, <1>4, <1>6, <1>8, Arrives DEF StopShort
<1> HIDE DEF z, target, next, landing, tick, far
<1>10. /\ s' \in States /\ step' \in Steps /\ fills' \in [Ticks -> 0 .. MaxU64]
       /\ s'.err = s.err /\ s'.amountRemaining = s.amountRemaining /\ s'.amountOut = s.amountOut
       /\ s'.sqrtPrice = next /\ s'.tick = landing /\ s'.liquidity = s.liquidity
       /\ \A t \in Ticks : fills'[t] = fills[t]
       /\ cfg.dynamic /\ ~step.skipped => s'.tickSpacingIdx = s.tickSpacingIdx + (IF z THEN -1 ELSE 1)
       /\ s.amountRemaining = 0 => pc' = "walk"
       /\ s.amountRemaining # 0 => /\ pc' = "curve" /\ step'.tickIndex = far
                                   /\ step'.unfilled = orders[far] /\ step'.liquidityNext = s.liquidity
  <2>1. fills'[far] = fills[far]
    BY <1>3, <1>4, <1>8, <1>9 DEF Arrived, far
  <2> QED
    BY <1>4, <1>5, <1>9, <2>1 DEF Arrived, far, next, target, z, landing
<1>11. fills' = fills
  BY <1>3, <1>10
<1>12. Types'
  BY <1>1, <1>2, <1>10 DEF Types
<1>13. PoolInv' /\ OrdersFilledOnce' /\ NeverOverdrawn'
  BY <1>1, <1>2, <1>10, <1>11 DEF PoolInv, LiquidityAt, OrdersFilledOnce, NeverOverdrawn, SwapInv
<1>14. next \in MinSqrtPrice .. MaxSqrtPrice
  <2>1. far \in PricedTicks /\ MinTick \in PricedTicks /\ MaxTick \in PricedTicks
    BY <1>4, <1>6 DEF PricedTicks
  <2>2. MinSqrtPrice \in Pos /\ MaxSqrtPrice \in Pos /\ MinSqrtPrice <= target /\ target <= MaxSqrtPrice
        /\ target \in Pos
    BY <1>4, <1>6, <2>1, PriceOrder DEF MinSqrtPrice, MaxSqrtPrice, target
  <2>3. s.sqrtPrice \in Int /\ MinSqrtPrice <= s.sqrtPrice /\ s.sqrtPrice <= MaxSqrtPrice
    BY <1>1, <2>2 DEF WalkInv, Pos
  <2> QED
    BY <1>3, <1>5, <2>2, <2>3 DEF Ahead, Pos
\* Ticks between the old place and the new hold nothing.
<1>15. \A t \in Ticks : (IF z THEN landing < t /\ t <= tick ELSE tick < t /\ t <= landing) => orders[t] = 0
  <2> SUFFICES ASSUME NEW t \in Ticks, IF z THEN landing < t /\ t <= tick ELSE tick < t /\ t <= landing
               PROVE  OnTheWay(t, far)
    BY <1>4
  <2> QED
    BY <1>3, <1>5, <1>6 DEF OnTheWay, tick, z
<1>16. WalkInv'
  <2>1. s'.liquidity = LiquidityOf(cfg'.liquidityNet, s'.tick)
    <3>1. LiquidityAt(landing) = s.liquidity
      BY <1>1, <1>5, <1>7, LiquidityOnTheWay DEF z, far, tick
    <3> QED
      BY <1>2, <1>10, <3>1 DEF LiquidityAt
  <2>2. IF q'.zeroForOne THEN s'.tick <= pool'.tick ELSE pool'.tick <= s'.tick
    <3>1. IF z THEN tick <= pool.tick ELSE pool.tick <= tick
      BY <1>1 DEF WalkInv, z, tick
    <3>2. q'.zeroForOne = z /\ s'.tick = landing /\ pool' = pool
      BY <1>2, <1>10 DEF z
    <3> QED
      BY <1>3, <1>5, <1>6, <3>1, <3>2
  <2>3. ASSUME NEW t \in Ticks
        PROVE  /\ fills'[t] <= orders'[t]
               /\ fills'[t] > 0 /\ s'.amountRemaining > 0 =>
                     IF q'.zeroForOne THEN s'.tick < t ELSE t <= s'.tick
               /\ fills'[t] < orders'[t] => (t \in asks' <=> t > s'.tick)
    <3>1. /\ fills[t] <= orders[t]
          /\ fills[t] > 0 /\ s.amountRemaining > 0 => IF z THEN tick < t ELSE t <= tick
          /\ fills[t] < orders[t] => (t \in asks <=> t > tick)
      BY <1>1 DEF WalkInv, z, tick
    <3>2. t \in Int /\ orders[t] \in 0 .. MaxU64 /\ fills[t] \in 0 .. MaxU64
      BY <1>3, <1>6
    <3>3. fills[t] < orders[t] => (t > tick <=> t > landing)
      <4>1. fills[t] < orders[t] => orders[t] # 0
        BY <1>3, <3>2
      <4>2. orders[t] # 0 => ~(IF z THEN landing < t /\ t <= tick ELSE tick < t /\ t <= landing)
        BY <1>15
      <4> QED
        BY <1>3, <1>5, <1>6, <3>2, <4>1, <4>2
    <3>4. fills[t] > 0 /\ s.amountRemaining > 0 => IF z THEN landing < t ELSE t <= landing
      BY <1>3, <1>5, <1>6, <3>1, <3>2
    <3>5. q'.zeroForOne = z /\ s'.tick = landing /\ asks' = asks /\ orders' = orders
      BY <1>2, <1>10 DEF z
    <3> QED
      BY <1>10, <3>1, <3>3, <3>4, <3>5
  <2>4. s'.err = "none" /\ s'.sqrtPrice \in MinSqrtPrice .. MaxSqrtPrice
        /\ s'.tick \in MinTick - 1 .. MaxTick /\ Holds(s'.tick, s'.sqrtPrice)
    BY <1>1, <1>5, <1>7, <1>10, <1>14 DEF WalkInv
  <2> QED
    BY <2>1, <2>2, <2>3, <2>4 DEF WalkInv, LiquidityAt
<1>17. OneWay
  <2>1. s.sqrtPrice \in Int /\ s.amountOut \in Int
    BY <1>3, TicksAreInts DEF States
  <2> QED
    BY <1>3, <1>5, <1>6, <1>10, <2>1 DEF OneWay, Ahead, z, tick
<1>18. CASE s.amountRemaining = 0
  <2>1. pc' = "walk" /\ s'.amountRemaining = 0
    BY <1>10, <1>18
  <2> QED
    BY <1>12, <1>13, <1>16, <1>17, <2>1 DEF SwapInv, AtRest
<1>19. CASE s.amountRemaining # 0
  <2>1. s.amountRemaining > 0 /\ s'.amountRemaining > 0
    BY <1>3, <1>10, <1>19
  <2>2. /\ pc' = "curve" /\ step'.tickIndex = far /\ step'.unfilled = orders[far]
        /\ step'.liquidityNext = s.liquidity
    BY <1>10, <1>19
  <2>3. BoundaryInv'
    <3>1. ASSUME NEW t \in Ticks, IF z THEN far < t /\ t <= landing ELSE landing < t /\ t < far
          PROVE  t \notin HasLiquidity /\ orders[t] = 0
      <4>1. OnTheWay(t, far)
        BY <1>3, <1>5, <1>6, <3>1 DEF OnTheWay, tick, z
      <4> QED
        BY <1>4, <4>1
    <3>2. q'.zeroForOne = z /\ s'.tick = landing /\ orders' = orders /\ cfg' = cfg /\ fills' = fills
          /\ s'.liquidity = s.liquidity
      BY <1>2, <1>10, <1>11 DEF z
    <3>3. IF z THEN far <= landing ELSE landing < far
      BY <1>3, <1>5
    <3> QED
      BY <1>4, <2>2, <3>1, <3>2, <3>3 DEF BoundaryInv, OnTheWay
  <2>4. cfg'.dynamic => GroupInv'
    <3> SUFFICES ASSUME cfg.dynamic PROVE EdgeOnTheWay' /\ GroupHoldsPrice'
      BY <1>2, <2>2 DEF GroupInv
    <3> DEFINE i  == s.tickSpacingIdx
               j  == s'.tickSpacingIdx
               sp == cfg.tickSpacing
    <3>1. i \in Int /\ sp \in Pos /\ j = i + (IF z THEN -1 ELSE 1)
      BY <1>3, <1>5, <1>10, <2>1, ConfigFacts DEF States
    <3>2. low = i * sp /\ high = i * sp + sp /\ low' = j * sp /\ high' = j * sp + sp
      BY <1>2 DEF low, high
    <3> HIDE DEF i, j, sp
    <3>3. i * sp \in Int /\ (i + 1) * sp = i * sp + sp /\ (i - 1) * sp = i * sp - sp /\ sp \in Int /\ sp > 0
      BY <3>1, NextGroups DEF Pos
    <3>4. low \in Int /\ high = low + sp /\ high \in Int
      BY <3>2, <3>3
    <3>5. IF z THEN low' = low - sp /\ high' = low ELSE low' = high /\ high' = high + sp
      <4>1. CASE z = TRUE
        BY <3>1, <3>2, <3>3, <4>1
      <4>2. CASE z = FALSE
        BY <3>1, <3>2, <3>3, <4>2
      <4> QED
        BY <1>3, <4>1, <4>2
    <3>6. IF z THEN far <= low /\ low <= MaxTick ELSE MinTick <= high /\ high <= far
      BY <1>5, <2>1 DEF EdgeOnTheWay, z, far
    <3>7. far # (IF z THEN low ELSE high)
      BY <1>5, <2>1 DEF target
    <3>8. /\ far < low => far <= low - sp
          /\ high < far => high + sp <= far
      <4>1. far < (i - 1) * sp + sp => far <= (i - 1) * sp
        BY <1>4, <1>6, <3>1, AlignedOutside DEF sp
      <4>2. (i + 1) * sp < far => (i + 1) * sp + sp <= far
        BY <1>4, <1>6, <3>1, AlignedOutside DEF sp
      <4> QED
        BY <3>2, <3>3, <4>1, <4>2
    <3>9. IF z THEN far <= low - sp /\ low - sp <= MaxTick ELSE MinTick <= high + sp /\ high + sp <= far
      BY <1>3, <1>6, <3>3, <3>4, <3>6, <3>7, <3>8
    <3>10. EdgeOnTheWay'
      <4>1. q'.zeroForOne = z /\ step'.tickIndex = far
        BY <1>2, <2>2 DEF z
      <4> QED
        BY <1>3, <3>5, <3>9, <4>1 DEF EdgeOnTheWay
    <3>11. GroupHoldsPrice'
      <4>1. /\ low' >= MinTick => SqrtPriceFromTick(low') <= next
            /\ high' <= MaxTick => next <= SqrtPriceFromTick(high')
        <5>1. CASE z = TRUE
          <6>1. next = SqrtPriceFromTick(low) /\ low \in PricedTicks /\ low' = low - sp /\ high' = low
            BY <1>4, <1>5, <1>6, <2>1, <3>4, <3>5, <3>6, <5>1 DEF PricedTicks
          <6>2. low - sp >= MinTick => low - sp \in PricedTicks /\ low - sp <= low
            BY <1>6, <3>3, <3>4, <6>1 DEF PricedTicks
          <6>3. low - sp >= MinTick => SqrtPriceFromTick(low - sp) <= SqrtPriceFromTick(low)
            BY <6>1, <6>2, PriceOrder
          <6>4. SqrtPriceFromTick(low) <= SqrtPriceFromTick(low)
            BY <6>1, PriceIsPositive DEF Pos
          <6> QED
            BY <6>1, <6>3, <6>4
        <5>2. CASE z = FALSE
          <6>1. next = SqrtPriceFromTick(high) /\ high \in PricedTicks /\ low' = high /\ high' = high + sp
            BY <1>4, <1>5, <1>6, <2>1, <3>4, <3>5, <3>6, <5>2 DEF PricedTicks
          <6>2. high + sp <= MaxTick => high + sp \in PricedTicks /\ high <= high + sp
            BY <1>6, <3>3, <3>4, <6>1 DEF PricedTicks
          <6>3. high + sp <= MaxTick => SqrtPriceFromTick(high) <= SqrtPriceFromTick(high + sp)
            BY <6>1, <6>2, PriceOrder
          <6>4. SqrtPriceFromTick(high) <= SqrtPriceFromTick(high)
            BY <6>1, PriceIsPositive DEF Pos
          <6> QED
            BY <6>1, <6>3, <6>4
        <5> QED
          BY <1>3, <5>1, <5>2
      <4> QED
        BY <1>10, <4>1 DEF GroupHoldsPrice, low, high
    <3> QED
      BY <3>10, <3>11
  <2> QED
    BY <1>12, <1>13, <1>16, <1>17, <2>1, <2>2, <2>3, <2>4 DEF SwapInv, AtRest
<1> QED
  BY <1>18, <1>19

\* What the orders and the crossing of the boundary leave, when a step ends on it.
BoundaryMatch == matchLimitOrders(s, step.unfilled, step.next, step.feeRate,
                                  q.zeroForOne, IsFeeOnInput(q.zeroForOne))
LiquidityBehind ==
    IF step.tickIndex \in HasLiquidity /\ BoundaryMatch.unfilled = 0
    THEN crossLiquidity(step.liquidityNext, cfg.liquidityNet[step.tickIndex], q.zeroForOne)
    ELSE step.liquidityNext

LEMMA BoundaryIsMatched ==
    ASSUME SwapInv, pc = "arrive", ReachBoundary
    PROVE  LET m == BoundaryMatch
           IN  /\ m.st \in States /\ SamePlace(m.st, s)
               /\ m.st.err # "ErrOverdrawn" /\ m.unfilled \in 0 .. step.unfilled
               /\ m.st.err = "none" =>
                     /\ m.st.amountRemaining <= s.amountRemaining /\ s.amountOut <= m.st.amountOut
                     /\ m.unfilled > 0 => m.st.amountRemaining = 0
               /\ LiquidityBehind \in Int
               /\ \/ m.st.err # "none" /\ Fail(m.st.err)
                  \/ LiquidityBehind < 0 /\ Fail("ErrNegativeLiquidity")
                  \/ /\ m.st.err = "none" /\ LiquidityBehind >= 0
                     /\ Arrive(m.st, tickAfterCross(step.tickIndex, m.unfilled > 0, q.zeroForOne),
                               m.unfilled, LiquidityBehind)
<1> DEFINE m == BoundaryMatch
<1>1. Types /\ WalkInv /\ BoundaryInv
  BY DEF SwapInv, Quoting
<1>2. /\ s \in States /\ s.err = "none" /\ step.unfilled \in 0 .. MaxU64 /\ cfg \in Configs
      /\ step.feeRate \in 0 .. FeeRateDenominator - 1 /\ q.zeroForOne \in BOOLEAN
      /\ IsFeeOnInput(q.zeroForOne) \in BOOLEAN /\ step.liquidityNext \in Nat /\ step.tickIndex \in Ticks
  BY <1>1 DEF Types, WalkInv, Steps, IsFeeOnInput, BoundaryInv
<1>3. step.next \in Pos
  <2>1. step.tickIndex \in PricedTicks
    BY <1>2, TicksAreInts DEF PricedTicks
  <2> QED
    BY <2>1, PriceIsPositive DEF ReachBoundary
<1>4. /\ m.st \in States /\ SamePlace(m.st, s) /\ m.st.err # "ErrOverdrawn" /\ m.unfilled \in 0 .. step.unfilled
      /\ m.st.err = "none" =>
            /\ m.st.amountRemaining <= s.amountRemaining /\ s.amountOut <= m.st.amountOut
            /\ m.unfilled > 0 => m.st.amountRemaining = 0
  <2> DEFINE unfilled == step.unfilled
             price    == step.next
             f        == step.feeRate
             z        == q.zeroForOne
             onInput  == IsFeeOnInput(z)
  <2>1. unfilled \in 0 .. MaxU64 /\ price \in Pos /\ f \in 0 .. FeeRateDenominator - 1 /\ z \in BOOLEAN
        /\ onInput \in BOOLEAN
    BY <1>2, <1>3
  <2>2. m = matchLimitOrders(s, unfilled, price, f, z, onInput)
    BY DEF BoundaryMatch
  <2> HIDE DEF unfilled, price, f, z, onInput, m
  <2>3. /\ m.st \in States /\ SamePlace(m.st, s) /\ m.st.err # "ErrOverdrawn" /\ m.unfilled \in 0 .. unfilled
        /\ m.st.err = "none" =>
              /\ m.st.amountRemaining <= s.amountRemaining /\ s.amountOut <= m.st.amountOut
              /\ m.unfilled > 0 => m.st.amountRemaining = 0
    BY <1>2, <2>1, <2>2, MatchBooks
  <2> QED
    BY <2>3 DEF unfilled, m
<1>5. LiquidityBehind \in Int
  <2>1. cfg.liquidityNet[step.tickIndex] \in Int
    BY <1>2, ConfigFacts
  <2> QED
    BY <1>2, <2>1 DEF LiquidityBehind, crossLiquidity
<1>6. IF m.st.err # "none" THEN Fail(m.st.err)
      ELSE IF LiquidityBehind < 0 THEN Fail("ErrNegativeLiquidity")
      ELSE Arrive(m.st, tickAfterCross(step.tickIndex, m.unfilled > 0, q.zeroForOne),
                  m.unfilled, LiquidityBehind)
  BY DEF ReachBoundary, BoundaryMatch, LiquidityBehind
<1> HIDE DEF m
<1> QED
  BY <1>4, <1>5, <1>6 DEF m

LEMMA FailedSwapInv ==
    ASSUME SwapInv, NEW err \in Errors, err # "none", err # "ErrOverdrawn", Fail(err), UNCHANGED <<poolVars, q>>
    PROVE  SwapInv' /\ ~Quoting'
<1>1. Types /\ PoolInv /\ OrdersFilledOnce
  BY DEF SwapInv
<1>2. /\ cfg' = cfg /\ pool' = pool /\ orders' = orders /\ now' = now /\ asks' = asks /\ q' = q
      /\ pc' = "failed" /\ step' = step /\ fills' = fills /\ s' = [s EXCEPT !.err = err]
  BY DEF poolVars, Fail
<1>3. s' \in States /\ s'.err = err
  BY <1>1, <1>2 DEF Types, States
<1>4. Types'
  BY <1>1, <1>2, <1>3 DEF Types
<1>5. PoolInv' /\ OrdersFilledOnce' /\ NeverOverdrawn'
  BY <1>1, <1>2, <1>3 DEF PoolInv, LiquidityAt, OrdersFilledOnce, NeverOverdrawn
<1> QED
  BY <1>2, <1>4, <1>5 DEF SwapInv, AtRest, Quoting, GroupInv

\* A step that ends on the boundary leaves the walk behind it, or, with orders left there,
\* before it.
LEMMA ReachSwapInv ==
    ASSUME SwapInv, pc = "arrive", ReachBoundary, UNCHANGED <<poolVars, q>>
    PROVE  SwapInv' /\ (Quoting' => OneWay)
<1> DEFINE z     == q.zeroForOne
           far   == step.tickIndex
           next  == step.next
           tick  == s.tick
           m     == BoundaryMatch
           st    == m.st
           left  == m.unfilled
           place == tickAfterCross(far, left > 0, z)
<1>1. Types /\ PoolInv /\ WalkInv /\ BoundaryInv /\ OrdersFilledOnce /\ ArrivalInv
  BY DEF SwapInv, Quoting
<1>2. /\ cfg' = cfg /\ pool' = pool /\ orders' = orders /\ now' = now /\ asks' = asks /\ q' = q
  BY DEF poolVars
<1>3. /\ st \in States /\ SamePlace(st, s)
      /\ st.err # "ErrOverdrawn" /\ left \in 0 .. step.unfilled
      /\ st.err = "none" =>
            /\ st.amountRemaining <= s.amountRemaining /\ s.amountOut <= st.amountOut
            /\ left > 0 => st.amountRemaining = 0
      /\ LiquidityBehind \in Int
      /\ \/ st.err # "none" /\ Fail(st.err)
         \/ LiquidityBehind < 0 /\ Fail("ErrNegativeLiquidity")
         \/ st.err = "none" /\ LiquidityBehind >= 0 /\ Arrive(st, place, left, LiquidityBehind)
  BY BoundaryIsMatched
<1> HIDE DEF m
<1>4. CASE st.err # "none" /\ Fail(st.err)
  <2> DEFINE err == st.err
  <2>1. err \in Errors /\ err # "none" /\ err # "ErrOverdrawn" /\ Fail(err)
    BY <1>3, <1>4 DEF States
  <2> HIDE DEF err
  <2> QED
    BY <2>1, FailedSwapInv
<1>5. CASE LiquidityBehind < 0 /\ Fail("ErrNegativeLiquidity")
  <2> DEFINE err == "ErrNegativeLiquidity"
  <2>1. err \in Errors /\ err # "none" /\ err # "ErrOverdrawn" /\ Fail(err)
    BY <1>5 DEF Errors
  <2> HIDE DEF err
  <2> QED
    BY <2>1, FailedSwapInv
<1>6. ASSUME st.err = "none", LiquidityBehind >= 0, Arrive(st, place, left, LiquidityBehind)
      PROVE  SwapInv' /\ OneWay
  <2>1. /\ cfg \in Configs /\ s \in States /\ step \in Steps /\ z \in BOOLEAN /\ next \in Nat
        /\ orders \in [Ticks -> 0 .. MaxU64] /\ fills \in [Ticks -> 0 .. MaxU64]
        /\ s.amountRemaining \in 0 .. MaxU64 /\ MaxU64 \in Nat /\ s.liquidity \in Nat
    BY <1>1, TicksAreInts DEF Types, States, Steps
  <2>2. /\ far \in Ticks /\ far % cfg.tickSpacing = 0
        /\ IF z THEN far <= tick ELSE tick < far
        /\ \A t \in Ticks : OnTheWay(t, far) => t \notin HasLiquidity /\ orders[t] = 0
        /\ step.unfilled = orders[far] /\ fills[far] = 0 /\ step.liquidityNext = s.liquidity
    BY <1>1 DEF BoundaryInv
  <2>3. /\ MinTick \in Int /\ MaxTick \in Int /\ far \in Int /\ tick \in MinTick - 1 .. MaxTick /\ tick \in Int
        /\ Ticks = MinTick .. MaxTick /\ pool.tick \in Int
    <3>1. pool.tick \in Ticks
      BY <1>1 DEF Types
    <3> QED
      BY <1>1, <2>2, <3>1, TicksAreInts DEF WalkInv
  <2>4. /\ next = SqrtPriceFromTick(far) /\ cfg.tickSpacing \in Pos
        /\ s.amountRemaining > 0 /\ ~step.skipped =>
              next = SqrtPriceFromTick(IF z THEN low ELSE high) /\ EdgeOnTheWay
    BY <1>1, <2>1, ConfigFacts DEF ReachBoundary, ArrivalInv
  <2>5. left \in Nat /\ left <= orders[far] /\ orders[far] \in 0 .. MaxU64 /\ left \in 0 .. step.unfilled
    BY <1>3, <2>1, <2>2
  <2>6. /\ left = 0 => place = IF z THEN far - 1 ELSE far
        /\ left > 0 => place = IF z THEN far ELSE far - 1
    BY <2>1, <2>5 DEF tickAfterCross
  <2> HIDE DEF left, st, z, far, next, tick, place
  <2>7. place \in Int /\ (place = far \/ place = far - 1) /\ place \in MinTick - 1 .. MaxTick
        /\ IF z THEN place <= tick ELSE tick <= place
    BY <2>1, <2>2, <2>3, <2>5, <2>6
  <2>8. Arrived(st, place, left, LiquidityBehind)
    <3> DEFINE behind == LiquidityBehind
    <3>1. behind \in Nat /\ Arrive(st, place, left, behind)
      BY <1>3, <1>6
    <3> HIDE DEF behind
    <3>2. Arrived(st, place, left, behind)
      BY <1>1, <1>3, <2>5, <2>7, <3>1, Arrives
    <3> QED
      BY <3>2 DEF behind
  <2>9. /\ s' \in States /\ step' \in Steps /\ fills' \in [Ticks -> 0 .. MaxU64]
        /\ s'.err = "none" /\ s'.amountRemaining = st.amountRemaining /\ s'.amountOut = st.amountOut
        /\ s'.sqrtPrice = next /\ s'.tick = place /\ s'.liquidity = LiquidityBehind
        /\ pc' = "walk" /\ fills'[far] = orders[far] - left
        /\ \A t \in Ticks : t # far => fills'[t] = fills[t]
    BY <1>6, <2>4, <2>8 DEF Arrived, far, next
  <2>10. s'.amountRemaining \in 0 .. MaxU64 /\ s'.amountRemaining <= s.amountRemaining
         /\ (s'.amountRemaining > 0 => left = 0 /\ s.amountRemaining > 0)
    <3>1. s'.amountRemaining \in 0 .. MaxU64
      BY <2>9 DEF States
    <3> QED
      BY <1>3, <1>6, <2>1, <2>5, <2>9, <3>1
  <2>11. Types'
    BY <1>1, <1>2, <2>9 DEF Types
  <2>12. PoolInv' /\ NeverOverdrawn'
    BY <1>1, <1>2, <2>9 DEF PoolInv, LiquidityAt, NeverOverdrawn
  \* The orders at the boundary are of the side this direction meets.
  <2>13. orders[far] > 0 => (far \in asks <=> ~z)
    <3>1. orders[far] > 0 => (far \in asks <=> far > tick)
      BY <1>1, <2>2, <2>5 DEF WalkInv, tick
    <3> QED
      BY <2>1, <2>2, <2>3, <3>1
  <2>14. OrdersFilledOnce'
    <3> SUFFICES ASSUME NEW t \in Ticks, fills'[t] > 0
                 PROVE  fills'[t] <= orders'[t] /\ (t \in asks' <=> ~q'.zeroForOne)
      BY DEF OrdersFilledOnce
    <3>1. CASE t = far
      BY <1>2, <2>1, <2>5, <2>9, <2>13, <3>1 DEF z
    <3>2. CASE t # far
      BY <1>1, <1>2, <2>9, <3>2 DEF OrdersFilledOnce
    <3> QED
      BY <3>1, <3>2
  <2>15. next \in MinSqrtPrice .. MaxSqrtPrice /\ Holds(place, next)
    <3>1. far \in PricedTicks /\ MinTick \in PricedTicks /\ MaxTick \in PricedTicks
          /\ far - 1 \in PricedTicks /\ far + 1 \in PricedTicks
      BY <2>2, <2>3 DEF PricedTicks
    <3>2. MinSqrtPrice \in Pos /\ MaxSqrtPrice \in Pos /\ MinSqrtPrice <= next /\ next <= MaxSqrtPrice
          /\ next \in Pos
      BY <2>2, <2>3, <2>4, <3>1, PriceOrder DEF MinSqrtPrice, MaxSqrtPrice
    <3>3. SqrtPriceFromTick(far - 1) <= next /\ next <= SqrtPriceFromTick(far + 1)
      <4>1. far - 1 <= far /\ far <= far + 1
        BY <2>3
      <4> QED
        BY <2>4, <3>1, <4>1, PriceOrder
    <3>4. next <= next /\ far - 1 + 1 = far
      BY <2>3, <3>2 DEF Pos
    <3> QED
      BY <2>4, <2>7, <3>2, <3>3, <3>4 DEF Holds, Pos
  <2>16. LiquidityBehind = LiquidityAt(place)
    <3> DEFINE net == cfg.liquidityNet
    <3>1. net \in [Ticks -> Int] /\ (far \notin HasLiquidity => net[far] = 0) /\ net[far] \in Int
      BY <2>1, <2>2, ConfigFacts, PoolAssumption
    <3>2. LiquidityAt(far) = LiquidityAt(far - 1) + net[far]
      BY <2>2, <3>1, LiquidityAdds DEF LiquidityAt
    <3>3. LiquidityAt(IF z THEN far ELSE far - 1) = s.liquidity
      <4> DEFINE u == IF z THEN far ELSE far - 1
      <4>1. u \in MinTick - 1 .. MaxTick /\ IF z THEN far <= u /\ u <= tick ELSE tick <= u /\ u < far
        BY <2>1, <2>2, <2>3
      <4> HIDE DEF u
      <4>2. LiquidityAt(u) = s.liquidity
        BY <1>1, <4>1, LiquidityOnTheWay DEF z, far, tick
      <4> QED
        BY <4>2 DEF u
    <3>4. LiquidityBehind = IF far \in HasLiquidity /\ left = 0
                            THEN (IF z THEN s.liquidity - net[far] ELSE s.liquidity + net[far])
                            ELSE s.liquidity
      BY <2>2 DEF LiquidityBehind, crossLiquidity, far, left, z, m
    <3>5. LiquidityAt(far) \in Int /\ LiquidityAt(far - 1) \in Int
      <4>1. far \in MinTick - 1 .. MaxTick /\ far - 1 \in MinTick - 1 .. MaxTick
        BY <2>2, <2>3
      <4> QED
        BY <2>1, <4>1, LiquidityIsNat
    <3> HIDE DEF net
    <3>6. CASE z = TRUE
      BY <2>1, <2>5, <2>6, <3>1, <3>2, <3>3, <3>4, <3>5, <3>6
    <3>7. CASE z = FALSE
      BY <2>1, <2>5, <2>6, <3>1, <3>2, <3>3, <3>4, <3>5, <3>7
    <3> QED
      BY <2>1, <3>6, <3>7
  <2>17. WalkInv'
    <3>1. IF q'.zeroForOne THEN s'.tick <= pool'.tick ELSE pool'.tick <= s'.tick
      <4>1. IF z THEN tick <= pool.tick ELSE pool.tick <= tick
        BY <1>1 DEF WalkInv, z, tick
      <4>2. q'.zeroForOne = z /\ s'.tick = place /\ pool' = pool
        BY <1>2, <2>9 DEF z
      <4> QED
        BY <2>1, <2>3, <2>7, <4>1, <4>2
    <3>2. s'.liquidity = LiquidityOf(cfg'.liquidityNet, s'.tick)
      BY <1>2, <2>9, <2>16 DEF LiquidityAt
    <3>3. ASSUME NEW t \in Ticks
          PROVE  /\ fills'[t] <= orders'[t]
                 /\ fills'[t] > 0 /\ s'.amountRemaining > 0 =>
                       IF q'.zeroForOne THEN s'.tick < t ELSE t <= s'.tick
                 /\ fills'[t] < orders'[t] => (t \in asks' <=> t > s'.tick)
      <4>1. /\ fills[t] <= orders[t]
            /\ fills[t] > 0 /\ s.amountRemaining > 0 => IF z THEN tick < t ELSE t <= tick
            /\ fills[t] < orders[t] => (t \in asks <=> t > tick)
        BY <1>1 DEF WalkInv, z, tick
      <4>2. t \in Int /\ orders[t] \in 0 .. MaxU64 /\ fills[t] \in 0 .. MaxU64
        BY <2>1, <2>3
      <4>3. q'.zeroForOne = z /\ s'.tick = place /\ asks' = asks /\ orders' = orders
        BY <1>2, <2>9 DEF z
      <4>4. CASE t = far
        <5>1. fills'[t] <= orders[t]
          BY <2>5, <2>9, <4>4
        <5>2. s'.amountRemaining > 0 => IF z THEN place < t ELSE t <= place
          BY <2>1, <2>3, <2>6, <2>10, <4>4
        <5>3. fills'[t] < orders[t] => (t \in asks <=> t > place)
          <6>1. fills'[t] < orders[t] => left > 0 /\ orders[far] > 0
            BY <2>5, <2>9, <4>4
          <6>2. left > 0 => (t > place <=> ~z)
            BY <2>1, <2>3, <2>6, <4>4
          <6> QED
            BY <2>13, <4>4, <6>1, <6>2
        <5> QED
          BY <4>3, <5>1, <5>2, <5>3
      <4>5. CASE t # far
        <5>1. fills'[t] = fills[t]
          BY <2>9, <4>5
        <5>2. fills[t] > 0 /\ s'.amountRemaining > 0 => IF z THEN place < t ELSE t <= place
          BY <2>1, <2>3, <2>7, <2>10, <4>1, <4>2
        <5>3. fills[t] < orders[t] => (t > tick <=> t > place)
          <6>1. fills[t] < orders[t] => orders[t] # 0
            BY <2>1, <4>2
          <6>2. orders[t] # 0 => ~(IF z THEN far < t /\ t <= tick ELSE tick < t /\ t < far)
            BY <2>2 DEF OnTheWay, z, tick
          <6> QED
            BY <2>1, <2>3, <2>7, <4>2, <4>5, <6>1, <6>2
        <5> QED
          BY <4>1, <4>3, <5>1, <5>2, <5>3
      <4> QED
        BY <4>4, <4>5
    <3>4. s'.err = "none" /\ s'.sqrtPrice \in MinSqrtPrice .. MaxSqrtPrice
          /\ s'.tick \in MinTick - 1 .. MaxTick /\ Holds(s'.tick, s'.sqrtPrice)
      BY <2>7, <2>9, <2>15
    <3> QED
      BY <3>1, <3>2, <3>3, <3>4 DEF WalkInv, LiquidityAt
  <2>18. cfg'.dynamic /\ s'.amountRemaining > 0 => GroupInv'
    <3> SUFFICES ASSUME cfg.dynamic, s'.amountRemaining > 0 PROVE low' <= place /\ place < high'
      BY <1>2, <2>9 DEF GroupInv
    <3> DEFINE sp == cfg.tickSpacing
               i  == s.tickSpacingIdx
               j  == s'.tickSpacingIdx
               g  == tickSpacingIndexFromTick(far, sp)
    <3>1. i \in Int /\ j \in Int /\ sp \in Pos /\ left = 0 /\ s.amountRemaining > 0 /\ step.skipped \in BOOLEAN
      BY <2>1, <2>4, <2>9, <2>10 DEF States, Steps
    <3>2. low = i * sp /\ high = i * sp + sp /\ low' = j * sp /\ high' = j * sp + sp
      BY <1>2 DEF low, high
    <3>3. g \in Int /\ g * sp <= far /\ far < g * sp + sp
      BY <2>3, <3>1, GroupOfTick
    <3>4. far % sp = 0
      BY <2>2
    <3>5. st.tickSpacingIdx = i
      BY <1>3 DEF SamePlace
    <3>6. /\ ~step.skipped => j = i + (IF z THEN -1 ELSE 1)
          /\ step.skipped => j = g - (IF ~z THEN 1 ELSE 0) + (IF z THEN -1 ELSE 1)
      BY <2>4, <2>8, <3>4, <3>5 DEF Arrived, far, z, next
    <3> HIDE DEF sp, i, j, g
    <3>7. far = g * sp /\ sp \in Int /\ sp > 0 /\ g * sp \in Int
      <4>1. far <= g * sp
        BY <2>3, <3>1, <3>3, <3>4, AlignedOutside
      <4>2. g * sp \in Int
        BY <3>1, <3>3, NextGroups
      <4> QED
        BY <2>3, <3>1, <3>3, <4>1, <4>2 DEF Pos
    <3>8. ~step.skipped => far = IF z THEN i * sp ELSE i * sp + sp
      <4> SUFFICES ASSUME ~step.skipped PROVE far = IF z THEN low ELSE high
        BY <3>2
      <4> DEFINE edge == IF z THEN low ELSE high
      <4>1. i * sp \in Int
        BY <3>1, NextGroups
      <4>2. low \in Int /\ high \in Int
        BY <3>2, <3>7, <4>1
      <4>3. SqrtPriceFromTick(far) = SqrtPriceFromTick(edge) /\ EdgeOnTheWay
        BY <2>4, <3>1
      <4>4. edge \in Ticks
        BY <2>1, <2>2, <2>3, <4>2, <4>3 DEF EdgeOnTheWay, z, far
      <4> HIDE DEF edge
      <4>5. edge \in PricedTicks /\ far \in PricedTicks
        BY <2>2, <2>3, <4>4 DEF PricedTicks
      <4>6. far = edge
        BY <4>3, <4>5, PriceOrder
      <4> QED
        BY <4>6 DEF edge
    <3>9. j * sp = IF z THEN far - sp ELSE far
      <4>1. (g - 1) * sp = g * sp - sp /\ (i - 1) * sp = i * sp - sp /\ (i + 1) * sp = i * sp + sp
        BY <3>1, <3>3, NextGroups
      <4>2. CASE z = TRUE
        <5>1. step.skipped => j = g - 1
          BY <3>3, <3>6, <4>2
        <5>2. ~step.skipped => j = i - 1
          BY <3>1, <3>6, <4>2
        <5> QED
          BY <3>1, <3>7, <3>8, <4>1, <4>2, <5>1, <5>2
      <4>3. CASE z = FALSE
        <5>1. step.skipped => j = g
          BY <3>3, <3>6, <4>3
        <5>2. ~step.skipped => j = i + 1
          BY <3>1, <3>6, <4>3
        <5> QED
          BY <3>1, <3>7, <3>8, <4>1, <4>3, <5>1, <5>2
      <4> QED
        BY <2>1, <4>2, <4>3
    <3>10. place = IF z THEN far - 1 ELSE far
      BY <2>6, <3>1
    <3> DEFINE at == j * sp
    <3>11. /\ z \in BOOLEAN /\ far \in Int /\ sp \in Int /\ sp > 0 /\ low' = at /\ high' = at + sp
           /\ at = IF z THEN far - sp ELSE far
      BY <2>1, <2>3, <3>2, <3>7, <3>9
    <3> HIDE DEF at
    <3>12. at <= place /\ place < at + sp
      BY <3>10, <3>11
    <3> QED
      BY <3>11, <3>12
  <2>19. OneWay
    <3>1. Ahead(s.sqrtPrice, next, z)
      BY <1>1 DEF ArrivalInv, next, z
    <3>2. s.sqrtPrice \in Int /\ s.amountOut \in Int /\ s'.amountOut \in Int
      <4>1. s \in States /\ s' \in States /\ MaxU64 \in Nat
        BY <2>1, <2>9
      <4> QED
        BY <4>1 DEF States
    <3> QED
      BY <1>3, <1>6, <2>1, <2>3, <2>7, <2>9, <2>10, <3>1, <3>2 DEF OneWay, Ahead, z, tick
  <2> QED
    BY <2>9, <2>11, <2>12, <2>14, <2>17, <2>18, <2>19 DEF SwapInv, AtRest
<1> QED
  BY <1>3, <1>4, <1>5, <1>6

LEMMA ForgetSwapInv ==
    ASSUME SwapInv, Forget
    PROVE  SwapInv'
<1>1. Types /\ PoolInv
  BY DEF SwapInv
<1>2. /\ cfg' = cfg /\ pool' = pool /\ orders' = orders /\ now' = now /\ asks' = asks
      /\ pc' = "idle" /\ q' = NoQuote /\ s' = NoState /\ step' = NoStep /\ fills' = NoFills
  BY DEF Forget, poolVars
<1>3. Types'
  BY <1>1, <1>2, NothingIsTyped DEF Types
<1>4. PoolInv'
  BY <1>1, <1>2 DEF PoolInv, LiquidityAt
<1>5. OrdersFilledOnce' /\ NeverOverdrawn' /\ GroupInv'
  BY <1>2, NothingIsTyped DEF OrdersFilledOnce, NeverOverdrawn, GroupInv, NoFills
<1> QED
  BY <1>2, <1>3, <1>4, <1>5 DEF SwapInv, AtRest, Quoting

\* A quote that consumed its input strictly inside the limits leaves a pool to walk from.
LEMMA LandsSwapInv ==
    ASSUME SwapInv, SwapLands
    PROVE  SwapInv'
<1>1. Types /\ PoolInv /\ WalkInv
  BY DEF SwapInv, SwapLands, Quoting
<1>2. /\ cfg' = cfg /\ now' = now /\ asks' = asks
      /\ pc' = "idle" /\ q' = NoQuote /\ s' = NoState /\ step' = NoStep /\ fills' = NoFills
      /\ pool' = [sqrtPrice |-> s.sqrtPrice, tick |-> s.tick, liquidity |-> s.liquidity, dyn |-> s.dyn]
      /\ orders' = [t \in Ticks |-> orders[t] - fills[t]]
      /\ s.sqrtPrice # limit(q.zeroForOne)
  BY DEF SwapLands
<1>3. /\ cfg \in Configs /\ s \in States /\ q.zeroForOne \in BOOLEAN /\ pool.tick \in Ticks
      /\ orders \in [Ticks -> 0 .. MaxU64] /\ fills \in [Ticks -> 0 .. MaxU64]
      /\ s.liquidity \in Nat /\ s.dyn \in Dyns
  BY <1>1 DEF Types, States
<1>4. s.tick \in Ticks
  <2>1. /\ s.tick \in MinTick - 1 .. MaxTick /\ Holds(s.tick, s.sqrtPrice)
        /\ s.sqrtPrice \in MinSqrtPrice .. MaxSqrtPrice
        /\ IF q.zeroForOne THEN s.tick <= pool.tick ELSE pool.tick <= s.tick
    BY <1>1 DEF WalkInv
  <2>2. s.tick # MinTick - 1
    <3> SUFFICES ASSUME s.tick = MinTick - 1 PROVE FALSE
      OBVIOUS
    <3>1. MinTick \in Int /\ MinTick <= pool.tick /\ pool.tick \in Int /\ s.tick + 1 = MinTick
      BY <1>3, TicksAreInts
    <3>2. q.zeroForOne = TRUE
      BY <1>3, <2>1, <3>1
    <3>3. MinSqrtPrice \in Pos /\ MaxSqrtPrice \in Pos
      <4>1. MinTick \in PricedTicks /\ MaxTick \in PricedTicks
        BY TicksAreInts DEF PricedTicks
      <4> QED
        BY <4>1, PriceIsPositive DEF MinSqrtPrice, MaxSqrtPrice
    <3>4. s.sqrtPrice <= MinSqrtPrice
      BY <2>1, <3>1 DEF Holds, MinSqrtPrice
    <3>5. s.sqrtPrice = MinSqrtPrice
      BY <2>1, <3>3, <3>4 DEF Pos
    <3> QED
      BY <1>2, <3>2, <3>5 DEF limit
  <2> QED
    BY <2>1, <2>2, TicksAreInts
<1>5. pool' \in [sqrtPrice : MinSqrtPrice .. MaxSqrtPrice, tick : Ticks, liquidity : Nat, dyn : Dyns]
      /\ pool'.sqrtPrice = s.sqrtPrice /\ pool'.tick = s.tick /\ pool'.liquidity = s.liquidity
  BY <1>1, <1>2, <1>3, <1>4 DEF WalkInv
<1>6. \A t \in Ticks : /\ fills[t] \in Nat /\ fills[t] <= orders[t] /\ orders[t] \in 0 .. MaxU64
                       /\ fills[t] < orders[t] => (t \in asks <=> t > s.tick)
  <2>1. \A t \in Ticks : fills[t] <= orders[t] /\ (fills[t] < orders[t] => (t \in asks <=> t > s.tick))
    BY <1>1 DEF WalkInv
  <2>2. \A t \in Ticks : fills[t] \in Nat /\ orders[t] \in 0 .. MaxU64
    BY <1>3
  <2> QED
    BY <2>1, <2>2
<1>7. \A t \in Ticks : orders'[t] = orders[t] - fills[t]
  BY <1>2
<1>8. orders' \in [Ticks -> 0 .. MaxU64]
  <2>1. \A t \in Ticks : orders[t] - fills[t] \in 0 .. MaxU64
    BY <1>6, TicksAreInts
  <2> QED
    BY <1>2, <2>1
<1>9. Types'
  BY <1>1, <1>2, <1>5, <1>8, NothingIsTyped DEF Types
<1>10. PoolInv'
  <2>1. \A t \in Ticks : orders'[t] > 0 => orders[t] > 0 /\ fills[t] < orders[t]
    BY <1>6, <1>7, TicksAreInts
  <2>2. \A t \in Ticks : orders'[t] > 0 => t % cfg'.tickSpacing = 0 /\ (t \in asks' <=> t > pool'.tick)
    BY <1>1, <1>2, <1>5, <1>6, <2>1 DEF PoolInv
  <2>3. Holds(pool'.tick, pool'.sqrtPrice) /\ pool'.liquidity = LiquidityOf(cfg'.liquidityNet, pool'.tick)
    BY <1>1, <1>2, <1>5 DEF WalkInv, LiquidityAt
  <2> QED
    BY <2>2, <2>3 DEF PoolInv, LiquidityAt
<1>11. OrdersFilledOnce' /\ NeverOverdrawn' /\ GroupInv'
  BY <1>2, NothingIsTyped DEF OrdersFilledOnce, NeverOverdrawn, GroupInv, NoFills
<1> QED
  BY <1>2, <1>9, <1>10, <1>11 DEF SwapInv, AtRest, Quoting

LEMMA TimeSwapInv ==
    ASSUME SwapInv, TimePasses
    PROVE  SwapInv'
<1>1. Types /\ PoolInv /\ AtRest /\ NeverOverdrawn /\ OrdersFilledOnce /\ pc = "idle" /\ now \in Nat
  BY DEF SwapInv, TimePasses, Types
<1>2. /\ cfg' = cfg /\ pool' = pool /\ orders' = orders /\ asks' = asks /\ now' = now + 1
      /\ pc' = pc /\ q' = q /\ s' = s /\ step' = step /\ fills' = fills
  BY DEF TimePasses, quoteVars
<1>3. Types'
  BY <1>1, <1>2 DEF Types
<1>4. PoolInv' /\ AtRest' /\ NeverOverdrawn' /\ OrdersFilledOnce' /\ GroupInv'
  BY <1>1, <1>2 DEF PoolInv, LiquidityAt, AtRest, NeverOverdrawn, OrdersFilledOnce, GroupInv
<1> QED
  BY <1>1, <1>2, <1>3, <1>4 DEF SwapInv, Quoting

LEMMA StutterSwapInv ==
    ASSUME SwapInv, UNCHANGED vars
    PROVE  SwapInv'
<1>1. /\ cfg' = cfg /\ pool' = pool /\ orders' = orders /\ asks' = asks /\ now' = now
      /\ pc' = pc /\ q' = q /\ s' = s /\ step' = step /\ fills' = fills
  BY DEF vars, poolVars, quoteVars
<1>2. /\ Types' = Types /\ PoolInv' = PoolInv /\ AtRest' = AtRest /\ NeverOverdrawn' = NeverOverdrawn
      /\ OrdersFilledOnce' = OrdersFilledOnce /\ Quoting' = Quoting /\ WalkInv' = WalkInv
  BY <1>1 DEF Types, PoolInv, LiquidityAt, AtRest, NeverOverdrawn, OrdersFilledOnce, Quoting, WalkInv
<1>3. low' = low /\ high' = high
  BY <1>1 DEF low, high
<1>4. BoundaryInv' = BoundaryInv /\ EdgeOnTheWay' = EdgeOnTheWay /\ GroupHoldsPrice' = GroupHoldsPrice
  BY <1>1, <1>3 DEF BoundaryInv, OnTheWay, EdgeOnTheWay, GroupHoldsPrice
<1>5. GroupInv' = GroupInv /\ ArrivalInv' = ArrivalInv
  BY <1>1, <1>3, <1>4 DEF GroupInv, ArrivalInv
<1> QED
  BY <1>1, <1>2, <1>4, <1>5 DEF SwapInv

LEMMA StayingIsOneWay ==
    ASSUME Types, s' = s
    PROVE  OneWay
<1>1. s \in States /\ MaxU64 \in Nat
  BY TicksAreInts DEF Types
<1>2. s.amountRemaining \in Int /\ s.amountOut \in Int /\ s.sqrtPrice \in Int /\ s.tick \in Int
  BY <1>1 DEF States
<1> QED
  BY <1>2 DEF OneWay

LEMMA NextSwapInv ==
    ASSUME SwapInv, [Next]_vars
    PROVE  SwapInv' /\ (Quoting /\ Quoting' => OneWay)
<1>1. Types
  BY DEF SwapInv
<1>2. ASSUME NEW z \in BOOLEAN, NEW a \in Amounts, NEW l \in Lags, NEW r \in Reaches,
             QuoteExactIn(z, a, l, r)
      PROVE  SwapInv' /\ ~Quoting
  BY <1>2, StartsSwapInv DEF QuoteExactIn, Quoting
<1>3. CASE NextBoundary
  <2>1. s' = s
    BY <1>3 DEF NextBoundary
  <2> QED
    BY <1>1, <1>3, <2>1, BoundarySwapInv, StayingIsOneWay
<1>4. CASE EndOfWalk
  <2>1. s' = s
    BY <1>4 DEF EndOfWalk
  <2> QED
    BY <1>1, <1>4, <2>1, EndSwapInv, StayingIsOneWay
<1>5. CASE SwapAlongCurve
  BY <1>5, CurveSwapInv
<1>6. CASE ArriveAtPrice
  <2>1. pc = "arrive" /\ (StopShort \/ ReachBoundary) /\ UNCHANGED <<poolVars, q>>
    BY <1>6 DEF ArriveAtPrice
  <2> QED
    BY <2>1, ShortSwapInv, ReachSwapInv
<1>7. CASE Forget
  BY <1>7, ForgetSwapInv DEF Forget, Quoting
<1>8. CASE SwapLands
  BY <1>8, LandsSwapInv DEF SwapLands, Quoting
<1>9. CASE TimePasses
  BY <1>9, TimeSwapInv DEF TimePasses, Quoting
<1>10. CASE UNCHANGED vars
  <2>1. s' = s
    BY <1>10 DEF vars, quoteVars
  <2> QED
    BY <1>1, <1>10, <2>1, StutterSwapInv, StayingIsOneWay
<1> QED
  BY <1>2, <1>3, <1>4, <1>5, <1>6, <1>7, <1>8, <1>9, <1>10 DEF Next, QuoteStep

\* What a walk relies on at every step (quote/raydium/swap_quote.go, stepToBoundary and
\* QuoteExactInDetailed) is an invariant of the quotes and of the swaps that land.
THEOREM WalkStaysTogether == Spec => []SwapInv
<1>1. SwapInv /\ [Next]_vars => SwapInv'
  BY NextSwapInv
<1> QED
  BY <1>1, InitSwapInv, PTL DEF Spec

-----------------------------------------------------------------------------
\* The properties of RaydiumSwap

\* Amounts stay u64 and the walk inside the tick range (swap_quote.go), whatever the pool.
THEOREM SwapIsTyped == Spec => []TypeOK
<1>1. SwapInv => TypeOK
  <2> SUFFICES ASSUME SwapInv PROVE TypeOK
    OBVIOUS
  <2>1. Types /\ (Quoting => WalkInv)
    BY DEF SwapInv
  <2>2. s \in States /\ \A t \in Ticks : orders[t] \in 0 .. MaxU64
    BY <2>1 DEF Types
  <2>3. s.amountRemaining \in 0 .. MaxU64 /\ s.amountOut \in 0 .. MaxU64 /\ s.liquidity >= 0
    BY <2>2 DEF States
  <2>4. pool.tick \in Ticks /\ pool.liquidity >= 0
    BY <2>1 DEF Types
  <2>5. \A t \in Ticks : orders[t] >= 0
    BY <2>2, TicksAreInts
  <2> QED
    BY <2>1, <2>3, <2>4, <2>5 DEF TypeOK, Types, WalkInv
<1> QED
  BY <1>1, WalkStaysTogether, PTL

\* The walk's tick, and the pool's after a swap, is the one the price is in
\* (swap_quote.go, landedTick and tickAfterCross).
THEOREM TickFollowsPrice == Spec => []TickMatchesPrice
<1>1. SwapInv => TickMatchesPrice
  BY DEF SwapInv, WalkInv, PoolInv, TickMatchesPrice
<1> QED
  BY <1>1, WalkStaysTogether, PTL

\* Every position's edge is applied once, when it is crossed (swap_quote.go, stepToBoundary).
THEOREM LiquidityFollowsTick == Spec => []LiquidityMatchesTick
<1>1. SwapInv => LiquidityMatchesTick
  BY DEF SwapInv, WalkInv, PoolInv, LiquidityMatchesTick, Quoting
<1> QED
  BY <1>1, WalkStaysTogether, PTL

\* The tick-spacing group the dynamic fee counts is the one the price is in
\* (dynamic_fee.go, updateDynamicFeeIndex and spacingBoundedPrice).
THEOREM GroupFollowsPrice == Spec => []GroupHoldsPrice
<1>1. SwapInv => GroupHoldsPrice
  <2> SUFFICES ASSUME SwapInv, cfg.dynamic, pc \in {"walk", "curve"}, s.amountRemaining > 0
               PROVE  GroupHoldsPrice
    BY DEF GroupHoldsPrice
  <2>1. CASE pc = "curve"
    BY <2>1 DEF SwapInv, GroupInv
  <2>2. CASE pc = "walk"
    <3>1. Types /\ WalkInv /\ low <= s.tick /\ s.tick < high
      BY <2>2 DEF SwapInv, Quoting, GroupInv
    <3> QED
      BY <3>1, GroupOfWalk
  <2> QED
    BY <2>1, <2>2
<1> QED
  BY <1>1, WalkStaysTogether, PTL

\* apply's refusal for an over-drawn input is never met (limit_order.go, apply).
THEOREM InputIsNeverOverdrawn == Spec => []NeverOverdrawn
<1>1. SwapInv => NeverOverdrawn
  BY DEF SwapInv
<1> QED
  BY <1>1, WalkStaysTogether, PTL

\* A quote fills no order twice, and only orders of the side its direction meets
\* (limit_order.go, matchLimitOrders, and swap_quote.go, stepToBoundary).
THEOREM OrdersAreFilledOnce == Spec => []OrdersFilledOnce
<1>1. SwapInv => OrdersFilledOnce
  BY DEF SwapInv
<1> QED
  BY <1>1, WalkStaysTogether, PTL

\* A step ends on its target only when the input pays for the way there, so the amount
\* read then is never the nil of an overflow (math/raydium/swap_math.go, ComputeSwapStep).
THEOREM TargetsArePaidFor == Spec => []TargetIsPaidFor
<1>1. SwapInv => TargetIsPaidFor
  <2> DEFINE st      == updateVolatilityAccumulator(s)
             z       == q.zeroForOne
             target  == SqrtPriceFromTick(step.tickIndex)
             bounded == spacingBoundedPrice(st, target, z)
             f       == totalFeeRateAt(st.dyn.accumulator)
             amount  == amountForCalc(st.amountRemaining, f, IsFeeOnInput(z))
             p       == st.sqrtPrice
             L       == st.liquidity
  <2> SUFFICES ASSUME SwapInv, pc = "curve"
               PROVE  stepPrice(p, bounded, L, amount, z) = bounded
                          <=> reachesTarget(p, bounded, L, amount, z)
    BY CurveBounds DEF TargetIsPaidFor
  <2>1. cfg \in Configs /\ s \in States /\ z \in BOOLEAN /\ IsFeeOnInput(z) \in BOOLEAN
    BY DEF SwapInv, Types, IsFeeOnInput
  <2>2. /\ st \in States /\ p = s.sqrtPrice /\ L = s.liquidity
        /\ st.amountRemaining = s.amountRemaining
    BY <2>1, AccumulatorUpdates DEF SamePlace
  <2>3. p \in Pos /\ bounded \in Pos /\ Ahead(p, bounded, z)
    BY <2>2, CurveBounds
  <2>4. L \in Nat /\ st.amountRemaining \in Nat /\ st.amountRemaining <= MaxU64 /\ MaxU64 \in Nat
    BY <2>2, TicksAreInts DEF States
  <2>5. amount \in Nat /\ amount \in 0 .. MaxU64
    <3> DEFINE onInput == IsFeeOnInput(z)
               remaining == st.amountRemaining
    <3>1. f \in 0 .. FeeRateDenominator - 1
      <4>1. st.dyn.accumulator \in Nat
        BY <2>2 DEF States, Dyns
      <4> HIDE DEF st
      <4> QED
        BY <2>1, <4>1, FeeRateFits
    <3>2. onInput \in BOOLEAN /\ remaining \in Nat
      BY <2>1, <2>4
    <3> HIDE DEF f, onInput, remaining
    <3>3. amountForCalc(remaining, f, onInput) \in 0 .. remaining
      BY <3>1, <3>2, AmountForCalcFits
    <3> QED
      BY <2>4, <3>2, <3>3 DEF onInput, remaining
  <2> HIDE DEF st, z, bounded, amount, p, L
  <2>6. CASE L = 0
    <3>1. amountToTarget(p, bounded, L, z) = 0
      BY <2>1, <2>3, <2>6, EmptyRangeIsFree
    <3>2. reachesTarget(p, bounded, L, amount, z)
      BY <2>4, <2>5, <3>1 DEF reachesTarget
    <3> QED
      BY <3>2 DEF stepPrice
  <2>7. CASE L # 0
    <3>1. L \in Pos
      BY <2>4, <2>7 DEF Pos
    <3> QED
      BY <2>1, <2>3, <2>5, <3>1, StepEndsOnPaidTarget
  <2> QED
    BY <2>6, <2>7
<1> QED
  BY <1>1, WalkStaysTogether, PTL

\* Within a quote price and tick move in the direction of the swap only, input is only
\* consumed and output only added (swap_quote.go, stepToBoundary).
THEOREM WalkNeverTurns == Spec => WalkGoesOneWay
<1>1. SwapInv /\ [Next]_vars => [Quoting /\ Quoting' =>
           /\ s'.amountRemaining <= s.amountRemaining
           /\ s'.amountOut >= s.amountOut
           /\ IF q.zeroForOne THEN s'.sqrtPrice <= s.sqrtPrice /\ s'.tick <= s.tick
                              ELSE s'.sqrtPrice >= s.sqrtPrice /\ s'.tick >= s.tick]_vars
  BY NextSwapInv DEF OneWay
<1> QED
  BY <1>1, WalkStaysTogether, PTL DEF Spec, WalkGoesOneWay

-----------------------------------------------------------------------------
\* What steps and fills are worth

LEMMA BelowThePrice ==
    ASSUME NEW out \in Nat, NEW in \in Nat, NEW price \in Nat, NEW square \in Nat, NEW one \in Pos,
           out * one <= in * price, price * one <= square
    PROVE  out * (one * one) <= in * square
<1>1. (out * one) * one <= (in * price) * one
  BY MulMonotone DEF Pos
<1>2. (price * one) * in <= square * in
  BY MulMonotone DEF Pos
<1>3. /\ (out * one) * one = out * (one * one) /\ (in * price) * one = (price * one) * in
      /\ square * in = in * square
      /\ out * (one * one) \in Nat /\ (price * one) * in \in Nat /\ in * square \in Nat
  BY DEF Pos
<1> QED
  BY <1>1, <1>2, <1>3

LEMMA AboveThePrice ==
    ASSUME NEW out \in Nat, NEW in \in Nat, NEW price \in Nat, NEW square \in Nat, NEW one \in Pos,
           out * price <= in * one, square <= price * one
    PROVE  out * square <= in * (one * one)
<1>1. (out * price) * one <= (in * one) * one
  BY MulMonotone DEF Pos
<1>2. square * out <= (price * one) * out
  BY MulMonotone DEF Pos
<1>3. /\ (in * one) * one = in * (one * one) /\ (out * price) * one = (price * one) * out
      /\ square * out = out * square
      /\ in * (one * one) \in Nat /\ (price * one) * out \in Nat /\ out * square \in Nat
  BY DEF Pos
<1> QED
  BY <1>1, <1>2, <1>3

\* Orders give at most what their tick's price says.
FilledAt(sqrtPrice, in, out, z) ==
    IF z THEN out * (Q * Q) <= in * (sqrtPrice * sqrtPrice)
         ELSE out * (sqrtPrice * sqrtPrice) <= in * (Q * Q)

\* Who pays more is filled at the price as well.
LEMMA FilledForMore ==
    ASSUME NEW p \in Nat, NEW in \in Nat, NEW out \in Nat, NEW z \in BOOLEAN, FilledAt(p, in, out, z),
           NEW paid \in Nat, in <= paid, NEW got \in Nat, got <= out
    PROVE  FilledAt(p, paid, got, z)
<1>1. Q \in Nat /\ Q * Q \in Nat /\ p * p \in Nat
  BY MathAssumption
<1> DEFINE square == p * p
           o == Q * Q
<1>2. square \in Nat /\ o \in Nat
  BY <1>1
<1>3. IF z THEN out * o <= in * square ELSE out * square <= in * o
  BY DEF FilledAt
<1> HIDE DEF square, o
<1>4. got * o <= out * o /\ in * square <= paid * square /\ got * square <= out * square /\ in * o <= paid * o
  BY <1>2, MulMonotone
<1>5. /\ got * o \in Nat /\ out * o \in Nat /\ in * square \in Nat /\ paid * square \in Nat
      /\ got * square \in Nat /\ out * square \in Nat /\ in * o \in Nat /\ paid * o \in Nat
  BY <1>2
<1>6. IF z THEN got * o <= paid * square ELSE got * square <= paid * o
  BY <1>3, <1>4, <1>5
<1> QED
  BY <1>6 DEF FilledAt, square, o

\* PriceFromSqrtPrice on either side of the exact square.
LEMMA PriceIsRounded ==
    ASSUME NEW p \in Pos
    PROVE  /\ PriceFromSqrtPrice(p, FALSE) \in Nat /\ PriceFromSqrtPrice(p, FALSE) * Q <= p * p
           /\ PriceFromSqrtPrice(p, TRUE) \in Pos /\ p * p <= PriceFromSqrtPrice(p, TRUE) * Q
<1> DEFINE square == p * p
           down == square \div Q
           up == (square + (Q - 1)) \div Q
<1>1. Q \in Pos /\ square \in Pos
  BY MathAssumption DEF Pos
<1>2. PriceFromSqrtPrice(p, FALSE) = down /\ PriceFromSqrtPrice(p, TRUE) = up
  <2>1. square + 0 = square
    BY <1>1 DEF Pos
  <2> QED
    BY <2>1 DEF PriceFromSqrtPrice
<1> HIDE DEF square
<1>3. down \in Nat /\ down * Q <= square
  <2>1. down \in Nat
    BY <1>1, DivFacts DEF Pos
  <2> QED
    BY <1>1, <2>1, FloorIsGreatest DEF Pos
<1>4. up \in Nat /\ square <= up * Q
  <2> DEFINE n == square + (Q - 1)
  <2>1. n \in Nat
    BY <1>1 DEF Pos
  <2> HIDE DEF n
  <2> DEFINE k == n \div Q
             r == n % Q
  <2>2. k \in Nat /\ r \in 0 .. Q - 1 /\ n = Q * k + r
    BY <1>1, <2>1, DivFacts
  <2> HIDE DEF k, r
  <2>3. up = k
    BY DEF up, n, k
  <2>4. Q * k = k * Q /\ k * Q \in Nat
    BY <1>1, <2>2 DEF Pos
  <2>5. square <= k * Q
    BY <1>1, <2>2, <2>4 DEF Pos, n
  <2> HIDE DEF up
  <2> QED
    BY <2>2, <2>3, <2>5
<1> HIDE DEF down, up
<1>5. up # 0
  <2> SUFFICES ASSUME up = 0 PROVE FALSE
    OBVIOUS
  <2>1. up * Q = 0
    BY <1>1 DEF Pos
  <2> QED
    BY <1>1, <1>4, <2>1 DEF Pos
<1> QED
  BY <1>2, <1>3, <1>4, <1>5 DEF square, Pos

\* A fill takes its orders at the tick's price, rounded against the swap.
LEMMA FillIsFair ==
    ASSUME NEW remaining \in Nat, NEW unfilled \in Nat, NEW tickSqrtPrice \in Pos,
           NEW f \in 0 .. FeeRateDenominator - 1, NEW z \in BOOLEAN, NEW onInput \in BOOLEAN
    PROVE  LET fill == orderFill(remaining, unfilled, tickSqrtPrice, f, z, onInput)
           IN  FilledAt(tickSqrtPrice, fill.in, fill.out, z)
<1> DEFINE price  == PriceFromSqrtPrice(tickSqrtPrice, ~z)
           square == tickSqrtPrice * tickSqrtPrice
           fee    == IF onInput THEN ceilDiv(remaining * f, FeeRateDenominator) ELSE 0
           x      == remaining - fee
           out    == LimitOrderOutput(x, price, z)
           in     == LimitOrderInput(unfilled, price, ~z)
           on     == ceilDiv(in * f, FeeRateDenominator - f)
           fill   == orderFill(remaining, unfilled, tickSqrtPrice, f, z, onInput)
<1>1. Q \in Pos /\ square \in Nat /\ price \in Nat
      /\ IF z THEN price * Q <= square ELSE price # 0 /\ square <= price * Q
  <2>1. Q \in Pos /\ square \in Nat
    BY MathAssumption DEF Pos
  <2>2. CASE z = TRUE
    <3>1. price = PriceFromSqrtPrice(tickSqrtPrice, FALSE)
      BY <2>2
    <3> QED
      BY <2>1, <2>2, <3>1, PriceIsRounded
  <2>3. CASE z = FALSE
    <3>1. price = PriceFromSqrtPrice(tickSqrtPrice, TRUE)
      BY <2>3
    <3> QED
      BY <2>1, <2>3, <3>1, PriceIsRounded DEF Pos
  <2> QED
    BY <2>2, <2>3
<1> HIDE DEF price, square
<1>2. x \in Nat
  <2>1. CASE onInput = TRUE
    <3>1. ceilDiv(remaining * f, FeeRateDenominator) \in 0 .. remaining
      BY FeeIsPart
    <3>2. fee = ceilDiv(remaining * f, FeeRateDenominator)
      BY <2>1
    <3> HIDE DEF fee
    <3>3. fee \in 0 .. remaining
      BY <3>1, <3>2, Zenon
    <3> QED
      BY <3>3
  <2>2. CASE onInput = FALSE
    BY <2>2
  <2> QED
    BY <2>1, <2>2
<1>3. fill = IF out <= unfilled THEN [out |-> out, in |-> x, fee |-> fee]
             ELSE [out |-> unfilled, in |-> in, fee |-> IF onInput THEN on ELSE 0]
  BY DEF orderFill, price
<1> HIDE DEF x, fee, on
<1>4. out \in Nat /\ (out > unfilled => in \in 0 .. x)
  BY <1>1, <1>2, OrdersAreCovered
<1> DEFINE fair(i, o) == IF z THEN o * (Q * Q) <= i * square ELSE o * square <= i * (Q * Q)
<1>5. fair(x, out)
  <2>1. CASE z = TRUE
    <3>1. out = (x * price) \div Q /\ x * price \in Nat
      BY <1>1, <1>2, <2>1 DEF LimitOrderOutput
    <3> HIDE DEF out
    <3>2. out * Q <= x * price
      BY <1>1, <1>4, <3>1, FloorIsGreatest
    <3>3. out * (Q * Q) <= x * square
      BY <1>1, <1>2, <1>4, <2>1, <3>2, BelowThePrice
    <3> QED
      BY <2>1, <3>3
  <2>2. CASE z = FALSE
    <3>1. out = (x * Q) \div price /\ x * Q \in Nat /\ price \in Pos
      BY <1>1, <1>2, <2>2 DEF LimitOrderOutput, Pos
    <3> HIDE DEF out
    <3>2. out * price <= x * Q
      BY <1>1, <1>4, <3>1, FloorIsGreatest
    <3>3. out * square <= x * (Q * Q)
      BY <1>1, <1>2, <1>4, <2>2, <3>2, AboveThePrice
    <3> QED
      BY <2>2, <3>3
  <2> QED
    BY <2>1, <2>2
<1>6. ASSUME out > unfilled PROVE fair(in, unfilled)
  <2>1. in \in Nat
    BY <1>2, <1>4, <1>6
  <2>2. CASE z = TRUE
    <3>1. price # 0
      <4> SUFFICES ASSUME price = 0 PROVE FALSE
        OBVIOUS
      <4>1. out = 0 \div Q
        <5>1. x * price = 0
          BY <1>2
        <5> QED
          BY <2>2, <5>1 DEF LimitOrderOutput
      <4>2. 0 \div Q = 0
        BY <1>1 DEF Pos
      <4> HIDE DEF out
      <4> QED
        BY <1>6, <4>1, <4>2
    <3>2. in = ceilDiv(unfilled * Q, price) /\ unfilled * Q \in Nat /\ price \in Pos
      BY <1>1, <2>2, <3>1 DEF LimitOrderInput, Pos
    <3> HIDE DEF in, out
    <3>3. unfilled * Q <= in * price
      <4>1. in <= in
        BY <2>1
      <4> QED
        BY <2>1, <3>2, <4>1, CeilIsLeast
    <3>4. unfilled * (Q * Q) <= in * square
      BY <1>1, <2>1, <2>2, <3>3, BelowThePrice
    <3> QED
      BY <2>2, <3>4
  <2>3. CASE z = FALSE
    <3>1. in = ceilDiv(unfilled * price, Q) /\ unfilled * price \in Nat
      BY <1>1, <2>3 DEF LimitOrderInput
    <3> HIDE DEF in, out
    <3>2. unfilled * price <= in * Q
      <4>1. in <= in
        BY <2>1
      <4> QED
        BY <1>1, <2>1, <3>1, <4>1, CeilIsLeast
    <3>3. unfilled * square <= in * (Q * Q)
      BY <1>1, <2>1, <2>3, <3>2, AboveThePrice
    <3> QED
      BY <2>3, <3>3
  <2> QED
    BY <2>2, <2>3
<1> HIDE DEF fill, in, out
<1>7. \/ fill.in = x /\ fill.out = out
      \/ fill.in = in /\ fill.out = unfilled /\ out > unfilled
  BY <1>3, <1>4
<1>8. fair(fill.in, fill.out)
  BY <1>5, <1>6, <1>7
<1> QED
  BY <1>8 DEF FilledAt, fill, square

\* What moves the price pays for the way, and what the way gives is covered.
LEMMA WayIsTraded ==
    ASSUME NEW p \in Pos, NEW n \in Pos, NEW L \in Nat, NEW z \in BOOLEAN, Ahead(p, n, z)
    PROVE  LET gross == IF z THEN GetDeltaAmount1Unsigned(n, p, L, FALSE)
                             ELSE GetDeltaAmount0Unsigned(p, n, L, FALSE)
           IN  amountToTarget(p, n, L, z) \in Nat /\ gross \in Nat
               /\ Traded(L, Q, p, n, amountToTarget(p, n, L, z), gross, z)
<1>1. Q \in Pos
  BY MathAssumption DEF Pos
<1>2. CASE z = TRUE
  <2> DEFINE d == p - n
             num == L * Q * d
             c == ceilDiv(num, p)
             in == ceilDiv(c, n)
             out == (L * d) \div Q
  <2>1. d \in Nat /\ minOf(n, p) = n /\ maxOf(n, p) = p
    BY <1>2 DEF Ahead, minOf, maxOf, Pos
  <2>2. /\ amountToTarget(p, n, L, z) = in
        /\ GetDeltaAmount1Unsigned(n, p, L, FALSE) = out
    BY <1>2, <2>1 DEF amountToTarget, GetDeltaAmount0Unsigned, GetDeltaAmount1Unsigned
  <2> HIDE DEF d
  <2>3. num \in Nat /\ L * d \in Nat /\ L * d * Q = num
    BY <1>1, <2>1 DEF Pos
  <2> HIDE DEF num
  <2>4. c \in Nat /\ num <= c * p
    <3>1. c \in Nat
      BY <2>3, CeilIsLeast
    <3> HIDE DEF c
    <3>2. c <= c
      BY <3>1
    <3> QED
      BY <2>3, <3>1, <3>2, CeilIsLeast DEF c
  <2> HIDE DEF c
  <2>5. in \in Nat /\ c <= in * n
    <3>1. in \in Nat
      BY <2>4, CeilIsLeast
    <3> HIDE DEF in
    <3>2. in <= in
      BY <3>1
    <3> QED
      BY <2>4, <3>1, <3>2, CeilIsLeast DEF in
  <2> DEFINE w == L * d
  <2>6. out \in Nat /\ out * Q <= w
    <3>1. w \in Nat /\ out = w \div Q
      BY <2>3
    <3> HIDE DEF w, out
    <3>2. out \in Nat
      BY <1>1, <3>1, DivFacts
    <3> QED
      BY <1>1, <3>1, <3>2, FloorIsGreatest
  <2> HIDE DEF in, out
  <2>7. num <= in * (p * n)
    <3>1. c * p <= (in * n) * p
      BY <2>4, <2>5, MulMonotone DEF Pos
    <3>2. (in * n) * p = in * (p * n) /\ in * (p * n) \in Nat /\ c * p \in Nat
      BY <2>4, <2>5 DEF Pos
    <3> QED
      BY <2>3, <2>4, <3>1, <3>2
  <2>8. Traded(L, Q, p, n, in, out, z)
    <3>1. L * (p - n) * Q <= in * (p * n) /\ out * Q <= L * (p - n)
      BY <2>3, <2>6, <2>7 DEF d
    <3> QED
      BY <1>2, <3>1 DEF Traded
  <2> QED
    BY <1>2, <2>2, <2>5, <2>6, <2>8
<1>3. CASE z = FALSE
  <2> DEFINE d == n - p
             num == L * Q * d
             c == num \div n
             in == ceilDiv(L * d, Q)
             out == c \div p
  <2>1. d \in Nat /\ minOf(p, n) = p /\ maxOf(p, n) = n
    BY <1>3 DEF Ahead, minOf, maxOf, Pos
  <2>2. /\ amountToTarget(p, n, L, z) = in
        /\ GetDeltaAmount0Unsigned(p, n, L, FALSE) = out
    BY <1>3, <2>1 DEF amountToTarget, GetDeltaAmount0Unsigned, GetDeltaAmount1Unsigned
  <2> HIDE DEF d
  <2>3. num \in Nat /\ L * d \in Nat /\ L * d * Q = num
    BY <1>1, <2>1 DEF Pos
  <2> HIDE DEF num
  <2>4. c \in Nat /\ c * n <= num
    <3>1. c \in Nat
      BY <2>3, DivFacts
    <3> HIDE DEF c
    <3>2. c <= c
      BY <3>1
    <3> QED
      BY <2>3, <3>1, <3>2, FloorIsGreatest DEF c
  <2> HIDE DEF c
  <2>5. out \in Nat /\ out * p <= c
    <3>1. out \in Nat
      BY <2>4, DivFacts
    <3> HIDE DEF out
    <3>2. out <= out
      BY <3>1
    <3> QED
      BY <2>4, <3>1, <3>2, FloorIsGreatest DEF out
  <2> DEFINE w == L * d
  <2>6. in \in Nat /\ w <= in * Q
    <3>1. w \in Nat /\ in = ceilDiv(w, Q)
      BY <2>3
    <3> HIDE DEF w, in
    <3>2. in \in Nat
      BY <1>1, <3>1, CeilIsLeast
    <3>3. in <= in
      BY <3>2
    <3> QED
      BY <1>1, <3>1, <3>2, <3>3, CeilIsLeast
  <2> HIDE DEF in, out
  <2>7. out * (p * n) <= num
    <3>1. (out * p) * n <= c * n
      BY <2>4, <2>5, MulMonotone DEF Pos
    <3>2. (out * p) * n = out * (p * n) /\ out * (p * n) \in Nat /\ c * n \in Nat
      BY <2>4, <2>5 DEF Pos
    <3> QED
      BY <2>3, <2>4, <3>1, <3>2
  <2>8. Traded(L, Q, p, n, in, out, z)
    <3>1. L * (n - p) <= in * Q /\ out * (p * n) <= L * (n - p) * Q
      BY <2>3, <2>6, <2>7 DEF d
    <3> QED
      BY <1>3, <3>1 DEF Traded
  <2> QED
    BY <1>3, <2>2, <2>5, <2>6, <2>8
<1> QED
  BY <1>2, <1>3

\* A trade that is no better: more paid in, or less given out.
NoBetter(paid, got, in, out) ==
    in \in Nat /\ out \in Nat /\ paid \in Nat /\ got \in Nat /\ in <= paid /\ got <= out

\* So does who pays more, and what a fee on the output leaves of it.
LEMMA TradedForMore ==
    ASSUME NEW L \in Nat, NEW one \in Pos, NEW p \in Pos, NEW m \in Pos, NEW z \in BOOLEAN,
           NEW in, NEW out, Traded(L, one, p, m, in, out, z),
           NEW paid, NEW got, NoBetter(paid, got, in, out)
    PROVE  Traded(L, one, p, m, paid, got, z)
<1> DEFINE square == p * m
           A == L * (p - m) * one
           B == L * (p - m)
           C == L * (m - p)
           E == L * (m - p) * one
<1>0. in \in Nat /\ out \in Nat /\ paid \in Nat /\ got \in Nat /\ in <= paid /\ got <= out
  BY DEF NoBetter
<1>1. square \in Nat /\ one \in Nat /\ A \in Int /\ B \in Int /\ C \in Int /\ E \in Int
  <2>1. p - m \in Int /\ m - p \in Int /\ one \in Int
    BY DEF Pos
  <2>2. B \in Int /\ C \in Int
    BY <2>1
  <2> QED
    BY <2>1, <2>2 DEF Pos
<1>2. IF z THEN A <= in * square /\ out * one <= B ELSE C <= in * one /\ out * square <= E
  BY DEF Traded
<1> HIDE DEF square, A, B, C, E
<1>3. /\ in * square <= paid * square /\ got * one <= out * one
      /\ in * one <= paid * one /\ got * square <= out * square
  BY <1>0, <1>1, MulMonotone
<1>4. /\ in * square \in Nat /\ paid * square \in Nat /\ got * one \in Nat /\ out * one \in Nat
      /\ in * one \in Nat /\ paid * one \in Nat /\ got * square \in Nat /\ out * square \in Nat
  BY <1>0, <1>1
<1>5. IF z THEN A <= paid * square /\ got * one <= B ELSE C <= paid * one /\ got * square <= E
  BY <1>1, <1>2, <1>3, <1>4
<1> QED
  BY <1>5 DEF Traded, square, A, B, C, E

\* A step trades at the curve's price or worse, the fee on either side.
LEMMA StepTrades ==
    ASSUME NEW p \in Pos, NEW t \in Pos, NEW L \in Nat, NEW remaining \in 0 .. MaxU64,
           NEW f \in 0 .. FeeRateDenominator - 1, NEW z \in BOOLEAN, NEW onInput \in BOOLEAN,
           Ahead(p, t, z)
    PROVE  LET r    == ComputeSwapStep(p, t, L, remaining, f, z, onInput)
               cost == r.amountIn + (IF onInput THEN r.feeAmount ELSE 0)
           IN  Traded(L, Q, p, r.sqrtPriceNext, cost, r.amountOut, z)
<1> DEFINE a   == amountForCalc(remaining, f, onInput)
           n   == stepPrice(p, t, L, a, z)
           in  == amountToTarget(p, n, L, z)
           fee == ceilDiv(in * f, FeeRateDenominator - f)
           gross == IF z THEN GetDeltaAmount1Unsigned(n, p, L, FALSE)
                         ELSE GetDeltaAmount0Unsigned(p, n, L, FALSE)
           feeOut == ceilDiv(gross * f, FeeRateDenominator)
           r   == ComputeSwapStep(p, t, L, remaining, f, z, onInput)
           cost == r.amountIn + (IF onInput THEN r.feeAmount ELSE 0)
           next == r.sqrtPriceNext
           got == r.amountOut
<1>1. /\ next \in Pos /\ Ahead(p, next, z) /\ r.amountIn \in Nat /\ got \in Nat /\ r.feeAmount \in Nat
      /\ cost \in Nat
  BY StepArrives
<1>2. next = n /\ (IF onInput THEN r.amountIn = in /\ got = gross
                   ELSE r.amountIn = (IF n = t THEN in ELSE remaining) /\ got = gross - feeOut)
  BY DEF ComputeSwapStep
<1> HIDE DEF r
<1>3. n \in Pos /\ Ahead(p, n, z)
  BY <1>1, <1>2
<1> HIDE DEF n
<1>4. in \in Nat /\ gross \in Nat /\ Traded(L, Q, p, n, in, gross, z)
  BY <1>3, WayIsTraded
<1>5. feeOut \in 0 .. gross
  <2> HIDE DEF gross
  <2> QED
    BY <1>4, FeeIsPart
<1>6. ~onInput => r.amountIn >= in
  <2> SUFFICES ASSUME ~onInput PROVE r.amountIn >= in
    OBVIOUS
  <2>1. CASE n = t
    <3> HIDE DEF in
    <3> QED
      BY <1>2, <1>4, <2>1
  <2>2. CASE n # t
    <3>1. remaining \in Nat /\ a = remaining /\ Q \in Pos
      BY MathAssumption DEF amountForCalc, Pos
    <3>2. in <= a
      <4>1. CASE L = 0
        <5>1. in = 0
          BY <1>3, <4>1, EmptyRangeIsFree
        <5> QED
          BY <3>1, <5>1
      <4>2. CASE L # 0
        <5>1. L \in Pos /\ a \in Nat
          BY <3>1, <4>2 DEF Pos
        <5> HIDE DEF a
        <5>2. amountToTarget(p, stepPrice(p, t, L, a, z), L, z) <= a
          BY <5>1, StepIsPaid
        <5> QED
          BY <5>2 DEF n
      <4> QED
        BY <4>1, <4>2
    <3>3. r.amountIn = remaining
      BY <1>2, <2>2
    <3> HIDE DEF in, a
    <3> QED
      BY <1>4, <3>1, <3>2, <3>3
  <2> QED
    BY <2>1, <2>2
<1>7. in <= cost /\ got <= gross
  <2> HIDE DEF in, gross, feeOut, got
  <2>1. CASE onInput = TRUE
    BY <1>1, <1>2, <1>4, <2>1
  <2>2. CASE onInput = FALSE
    BY <1>1, <1>2, <1>4, <1>5, <1>6, <2>2
  <2> QED
    BY <2>1, <2>2
<1>8. Q \in Pos
  BY MathAssumption DEF Pos
<1> HIDE DEF a, in, fee, feeOut, gross, next, got, cost
<1>9. Traded(L, Q, p, n, cost, got, z)
  <2>1. n \in Pos /\ NoBetter(cost, got, in, gross)
    BY <1>1, <1>3, <1>4, <1>7 DEF NoBetter
  <2>2. Traded(L, Q, p, n, in, gross, z)
    BY <1>4
  <2> QED
    BY <1>8, <2>1, <2>2, TradedForMore
<1> QED
  BY <1>2, <1>9 DEF r, next, got, cost

\* A fill takes from what remains and adds to what is given out, at the price.
FilledBy(after, before, sqrtPrice, z) ==
    \E in \in Nat, out \in Nat :
        /\ FilledAt(sqrtPrice, in, out, z)
        /\ after.amountRemaining = before.amountRemaining - in
        /\ after.amountOut = before.amountOut + out

\* A match leaves the state, or fills orders at the tick's price.
LEMMA MatchIsFair ==
    ASSUME NEW st \in States, st.err = "none", NEW unfilled \in 0 .. MaxU64, NEW tickSqrtPrice \in Pos,
           NEW f \in 0 .. FeeRateDenominator - 1, NEW z \in BOOLEAN, NEW onInput \in BOOLEAN
    PROVE  LET m == matchLimitOrders(st, unfilled, tickSqrtPrice, f, z, onInput)
           IN  m.st.err = "none" => m.st = st \/ (unfilled > 0 /\ FilledBy(m.st, st, tickSqrtPrice, z))
<1> DEFINE fill   == orderFill(st.amountRemaining, unfilled, tickSqrtPrice, f, z, onInput)
           outFee == ceilDiv(fill.out * f, FeeRateDenominator)
           cost   == fill.in + (IF onInput THEN fill.fee ELSE 0)
           got    == fill.out - (IF onInput THEN 0 ELSE outFee)
           m      == matchLimitOrders(st, unfilled, tickSqrtPrice, f, z, onInput)
           a      == IF onInput THEN apply(st, fill.in, fill.out, fill.fee, TRUE)
                     ELSE apply(st, fill.in, fill.out - outFee, outFee, FALSE)
<1>1. st.amountRemaining \in Nat /\ unfilled \in Nat /\ MaxU64 \in Nat
  BY TicksAreInts DEF States
<1>2. CASE st.amountRemaining = 0 \/ unfilled = 0
  BY <1>2 DEF matchLimitOrders
<1>3. CASE ~(st.amountRemaining = 0 \/ unfilled = 0)
  <2> DEFINE r == st.amountRemaining
  <2>1. /\ fill.out \in 0 .. unfilled /\ fill.in \in Nat /\ fill.fee \in Nat
        /\ cost <= st.amountRemaining /\ FilledAt(tickSqrtPrice, fill.in, fill.out, z)
    <3>1. r \in Nat
      BY <1>1
    <3> HIDE DEF r
    <3>2. LET g == orderFill(r, unfilled, tickSqrtPrice, f, z, onInput)
          IN  /\ g.out \in 0 .. unfilled /\ g.in \in Nat /\ g.fee \in Nat
              /\ g.in + (IF onInput THEN g.fee ELSE 0) <= r
      BY <1>1, <3>1, FillFits
    <3>3. LET g == orderFill(r, unfilled, tickSqrtPrice, f, z, onInput)
          IN  FilledAt(tickSqrtPrice, g.in, g.out, z)
      BY <1>1, <3>1, FillIsFair
    <3> QED
      BY <3>2, <3>3 DEF r
  <2>2. m.st = a
    <3>1. isU64(fill.out) /\ ~(fill.out > unfilled)
      BY <1>1, <2>1 DEF isU64
    <3> HIDE DEF fill
    <3> QED
      BY <1>3, <3>1 DEF matchLimitOrders, fill
  <2>3. outFee \in 0 .. fill.out
    <3>1. fill.out \in Nat
      BY <2>1
    <3> HIDE DEF fill
    <3> QED
      BY <3>1, FeeIsPart
  <2>4. a.err = "none" => a.amountRemaining = st.amountRemaining - cost /\ a.amountOut = st.amountOut + got
    <3> HIDE DEF fill, outFee
    <3>1. CASE onInput = TRUE
      <4>1. fill.in \in Int /\ fill.out \in Int /\ fill.fee \in Int
            /\ fill.in + (IF TRUE THEN fill.fee ELSE 0) <= st.amountRemaining
        BY <2>1, <3>1
      <4> DEFINE b == apply(st, fill.in, fill.out, fill.fee, TRUE)
      <4>2. /\ b \in States /\ SamePlace(b, st) /\ b.dyn = st.dyn /\ b.err # "ErrOverdrawn"
            /\ b.err = "none" =>
                  /\ b.amountRemaining = st.amountRemaining - (fill.in + (IF TRUE THEN fill.fee ELSE 0))
                  /\ b.amountOut = st.amountOut + fill.out
                  /\ b.amountRemaining <= st.amountRemaining /\ st.amountOut <= b.amountOut
        BY <4>1, ApplyBooks
      <4>3. a = b /\ cost = fill.in + (IF TRUE THEN fill.fee ELSE 0) /\ got = fill.out
        BY <2>1, <3>1
      <4> HIDE DEF a, b, cost, got
      <4> QED
        BY <4>2, <4>3
    <3>2. CASE onInput = FALSE
      <4>1. fill.in \in Int /\ fill.out - outFee \in Int /\ outFee \in Int
            /\ fill.in + (IF FALSE THEN outFee ELSE 0) <= st.amountRemaining
        BY <2>1, <2>3, <3>2
      <4> DEFINE b == apply(st, fill.in, fill.out - outFee, outFee, FALSE)
      <4>2. /\ b \in States /\ SamePlace(b, st) /\ b.dyn = st.dyn /\ b.err # "ErrOverdrawn"
            /\ b.err = "none" =>
                  /\ b.amountRemaining = st.amountRemaining - (fill.in + (IF FALSE THEN outFee ELSE 0))
                  /\ b.amountOut = st.amountOut + (fill.out - outFee)
                  /\ b.amountRemaining <= st.amountRemaining /\ st.amountOut <= b.amountOut
        BY <4>1, ApplyBooks
      <4>3. a = b /\ cost = fill.in + (IF FALSE THEN outFee ELSE 0) /\ got = fill.out - outFee
        BY <3>2
      <4> HIDE DEF a, b, cost, got
      <4> QED
        BY <4>2, <4>3
    <3> QED
      BY <3>1, <3>2
  <2>5. cost \in Nat /\ got \in Nat /\ fill.in <= cost /\ got <= fill.out
        /\ fill.in \in Nat /\ fill.out \in Nat
    <3> HIDE DEF fill, outFee
    <3>1. CASE onInput = TRUE
      BY <2>1, <3>1
    <3>2. CASE onInput = FALSE
      BY <2>1, <2>3, <3>2
    <3> QED
      BY <3>1, <3>2
  <2>6. FilledAt(tickSqrtPrice, cost, got, z)
    <3> DEFINE in == fill.in
               out == fill.out
    <3>1. in \in Nat /\ out \in Nat /\ FilledAt(tickSqrtPrice, in, out, z) /\ in <= cost /\ got <= out
      BY <2>1, <2>5
    <3>2. tickSqrtPrice \in Nat /\ cost \in Nat /\ got \in Nat
      BY <2>5 DEF Pos
    <3> HIDE DEF in, out, cost, got
    <3> QED
      BY <3>1, <3>2, FilledForMore
  <2> HIDE DEF a, m, cost, got
  <2>7. m.st.err = "none" => FilledBy(m.st, st, tickSqrtPrice, z)
    BY <2>2, <2>4, <2>5, <2>6 DEF FilledBy
  <2>8. unfilled > 0
    BY <1>1, <1>3
  <2> QED
    BY <2>7, <2>8 DEF m
<1> QED
  BY <1>2, <1>3

\* A step along the curve takes from what remains and adds to what is given out, at the
\* curve's price.
TradedBy(after, before, m, z) ==
    \E in \in Nat, out \in Nat :
        /\ Traded(before.liquidity, Q, before.sqrtPrice, m, in, out, z)
        /\ after.amountRemaining = before.amountRemaining - in
        /\ after.amountOut = before.amountOut + out

LEMMA StayingIsTraded ==
    ASSUME NEW L \in Nat, NEW p \in Pos, NEW z \in BOOLEAN
    PROVE  Traded(L, Q, p, p, 0, 0, z)
<1>1. Q \in Pos /\ p - p = 0 /\ L * 0 = 0 /\ 0 * (p * p) = 0
  BY MathAssumption DEF Pos
<1>2. L * (p - p) = 0
  BY <1>1
<1>3. L * (p - p) * Q = 0 /\ 0 * Q = 0
  BY <1>1, <1>2 DEF Pos
<1> QED
  BY <1>1, <1>2, <1>3 DEF Traded

LEMMA CurveTrades ==
    ASSUME SwapInv, SwapAlongCurve
    PROVE  /\ s'.sqrtPrice = s.sqrtPrice /\ s'.liquidity = s.liquidity
           /\ Ahead(s.sqrtPrice, step'.next, q.zeroForOne)
           /\ Ahead(step'.next, SqrtPriceFromTick(step.tickIndex), q.zeroForOne)
           /\ step'.next \in Pos
           /\ s'.err = "none" => TradedBy(s', s, step'.next, q.zeroForOne)
<1> DEFINE st      == updateVolatilityAccumulator(s)
           z       == q.zeroForOne
           target  == SqrtPriceFromTick(step.tickIndex)
           bounded == spacingBoundedPrice(st, target, z)
           r       == curveStep(st, bounded)
           next    == r.sqrtPriceNext
           onInput == IsFeeOnInput(z)
           f       == totalFeeRateAt(st.dyn.accumulator)
           cost    == r.amountIn + (IF onInput THEN r.feeAmount ELSE 0)
           L       == s.liquidity
           p       == s.sqrtPrice
<1>1. Types /\ WalkInv /\ BoundaryInv /\ pc = "curve"
  BY DEF SwapInv, SwapAlongCurve, Quoting
<1>2. cfg \in Configs /\ s \in States /\ z \in BOOLEAN /\ onInput \in BOOLEAN /\ s.err = "none"
  BY <1>1 DEF Types, WalkInv, IsFeeOnInput
<1>3. /\ st \in States /\ SamePlace(st, s) /\ st.err = "none"
      /\ st.amountRemaining = s.amountRemaining /\ st.amountOut = s.amountOut
  BY <1>2, AccumulatorUpdates
<1>4. /\ clampTarget(target, z) = target /\ target \in Pos /\ p \in Pos /\ bounded \in Pos
      /\ Ahead(p, bounded, z) /\ Ahead(bounded, target, z)
  BY <1>1, CurveBounds
<1>5. /\ next \in Pos /\ Ahead(p, next, z) /\ Ahead(next, bounded, z)
      /\ r.amountIn \in Nat /\ r.amountOut \in Nat /\ r.feeAmount \in Nat
      /\ cost <= s.amountRemaining
  BY <1>1, CurveStepArrives
<1>6. s' = apply(st, r.amountIn, r.amountOut, r.feeAmount, onInput) /\ step'.next = next
  <2>1. step \in Steps
    BY <1>1 DEF Types
  <2>2. /\ s' = apply(st, r.amountIn, r.amountOut, r.feeAmount, onInput)
        /\ step' = [step EXCEPT
               !.feeRate = f, !.skipped = skipsGroups(st), !.next = next,
               !.landing = landedTick(st, next, bounded, target, z)]
    BY <1>4, Zenon DEF SwapAlongCurve
  <2> HIDE DEF next, st, r, f, bounded, target
  <2> QED
    BY <2>1, <2>2 DEF Steps
<1>7. f \in 0 .. FeeRateDenominator - 1
  <2>1. st.dyn.accumulator \in Nat
    BY <1>3 DEF States, Dyns
  <2> HIDE DEF st
  <2> QED
    BY <1>2, <2>1, FeeRateFits
<1>8. L \in Nat /\ s.amountRemaining \in 0 .. MaxU64
  BY <1>2 DEF States
<1>9. Ahead(next, target, z)
  <2> HIDE DEF next, bounded, target, z
  <2> QED
    BY <1>4, <1>5 DEF Ahead, Pos
<1>10. st.sqrtPrice = p /\ st.liquidity = L
  BY <1>3 DEF SamePlace
<1> HIDE DEF bounded, f, onInput, z, st, p, L
<1>11. Traded(L, Q, p, next, cost, r.amountOut, z)
  <2>1. CASE p = bounded
    <3>1. r = [sqrtPriceNext |-> bounded, amountIn |-> 0, amountOut |-> 0, feeAmount |-> 0]
      BY <1>10, <2>1 DEF curveStep
    <3> HIDE DEF r
    <3>2. next = p /\ r.amountOut = 0 /\ r.amountIn = 0 /\ r.feeAmount = 0
      BY <2>1, <3>1
    <3>3. cost = 0
      BY <3>2
    <3>4. Traded(L, Q, p, p, 0, 0, z)
      BY <1>2, <1>4, <1>8, StayingIsTraded
    <3> HIDE DEF next, cost
    <3> QED
      BY <3>2, <3>3, <3>4
  <2>2. CASE p # bounded
    <3> DEFINE remaining == s.amountRemaining
               c == ComputeSwapStep(p, bounded, L, remaining, f, z, onInput)
    <3>1. r = c
      BY <1>3, <1>10, <2>2 DEF curveStep, onInput, z, f
    <3>2. remaining \in 0 .. MaxU64
      BY <1>8
    <3> HIDE DEF remaining, r
    <3>3. Traded(L, Q, p, c.sqrtPriceNext, c.amountIn + (IF onInput THEN c.feeAmount ELSE 0), c.amountOut, z)
      BY <1>2, <1>4, <1>7, <1>8, <3>2, StepTrades
    <3> QED
      BY <3>1, <3>3
  <2> QED
    BY <2>1, <2>2
<1> HIDE DEF r
<1>12. /\ SamePlace(s', st)
       /\ s'.err = "none" => /\ s'.amountRemaining = st.amountRemaining - cost
                             /\ s'.amountOut = st.amountOut + r.amountOut
  <2> DEFINE in == r.amountIn
             out == r.amountOut
             fee == r.feeAmount
             b == apply(st, in, out, fee, onInput)
  <2>1. in \in Int /\ out \in Int /\ fee \in Int /\ in + (IF onInput THEN fee ELSE 0) <= st.amountRemaining
    BY <1>2, <1>3, <1>5
  <2> HIDE DEF in, out, fee, b
  <2>2. SamePlace(b, st) /\ (b.err = "none" =>
           /\ b.amountRemaining = st.amountRemaining - (in + (IF onInput THEN fee ELSE 0))
           /\ b.amountOut = st.amountOut + out)
    BY <1>2, <1>3, <2>1, ApplyBooks DEF b
  <2>3. s' = b
    BY <1>6 DEF b, in, out, fee
  <2> QED
    BY <2>2, <2>3 DEF in, out, fee
<1>13. cost \in Nat
  BY <1>2, <1>5
<1> HIDE DEF cost, next
<1>14. s'.err = "none" => TradedBy(s', s, next, z)
  BY <1>3, <1>5, <1>11, <1>12, <1>13 DEF TradedBy, L, p
<1>15. s'.sqrtPrice = s.sqrtPrice /\ s'.liquidity = s.liquidity
  BY <1>3, <1>12 DEF SamePlace
<1> QED
  BY <1>5, <1>6, <1>9, <1>14, <1>15 DEF z, p

-----------------------------------------------------------------------------
\* What a trader is left with

\* The liquidity between each price and the next.
DepthOf(c) ==
    [x \in 0 .. MaxSqrtPrice - 1 |->
        IF x < MinSqrtPrice THEN 0 ELSE LiquidityOf(c.liquidityNet, TickFromSqrtPrice(x))]

LEMMA DepthIsNat ==
    ASSUME cfg \in Configs
    PROVE  /\ DepthOf(cfg) \in [0 .. MaxSqrtPrice - 1 -> Nat] /\ MaxSqrtPrice \in Nat /\ Q \in Pos
           /\ MinSqrtPrice \in Pos
           /\ \A x \in MinSqrtPrice .. MaxSqrtPrice : x \in 1 .. MaxSqrtPrice
<1>1. MinSqrtPrice \in Pos /\ MaxSqrtPrice \in Pos /\ Q \in Pos
  <2>1. MinTick \in PricedTicks /\ MaxTick \in PricedTicks
    BY TicksAreInts DEF PricedTicks
  <2> QED
    BY <2>1, PriceIsPositive, MathAssumption DEF MinSqrtPrice, MaxSqrtPrice, Pos
<1>2. ASSUME NEW x \in 0 .. MaxSqrtPrice - 1, ~(x < MinSqrtPrice)
      PROVE  LiquidityOf(cfg.liquidityNet, TickFromSqrtPrice(x)) \in Nat
  <2>1. x \in MinSqrtPrice .. MaxSqrtPrice
    BY <1>1, <1>2 DEF Pos
  <2>2. TickFromSqrtPrice(x) \in Ticks
    BY <2>1, TickOfPrice
  <2>3. TickFromSqrtPrice(x) \in MinTick - 1 .. MaxTick
    BY <2>2, TicksAreInts
  <2> QED
    BY <2>3, LiquidityIsNat DEF LiquidityAt
<1>3. DepthOf(cfg) \in [0 .. MaxSqrtPrice - 1 -> Nat]
  BY <1>2 DEF DepthOf
<1> QED
  BY <1>1, <1>3 DEF Pos

\* Between the walk's price and the boundary there is the walk's liquidity everywhere.
LEMMA DepthOnTheWay ==
    ASSUME SwapInv, pc = "curve", NEW k \in Int,
           IF q.zeroForOne THEN SqrtPriceFromTick(step.tickIndex) <= k /\ k < s.sqrtPrice
                           ELSE s.sqrtPrice <= k /\ k < SqrtPriceFromTick(step.tickIndex)
    PROVE  DepthOf(cfg)[k] = s.liquidity
<1> DEFINE u == step.tickIndex
           z == q.zeroForOne
           t == s.tick
           p == s.sqrtPrice
           y == TickFromSqrtPrice(k)
           D == MinTick - 1 .. MaxTick
<1>1. Types /\ WalkInv /\ BoundaryInv
  BY DEF SwapInv, Quoting
<1>2. /\ z \in BOOLEAN /\ u \in Ticks /\ t \in D /\ p \in MinSqrtPrice .. MaxSqrtPrice /\ Holds(t, p)
      /\ IF z THEN u <= t ELSE t < u
  BY <1>1 DEF Types, WalkInv, BoundaryInv
<1>3. /\ MinTick \in PricedTicks /\ MaxTick \in PricedTicks /\ u \in PricedTicks /\ u \in Int /\ t \in Int
      /\ t \in PricedTicks /\ t + 1 \in PricedTicks /\ MinTick <= u /\ u <= MaxTick
  BY <1>2, TicksAreInts DEF PricedTicks
<1>4. /\ MinSqrtPrice \in Pos /\ MaxSqrtPrice \in Pos /\ SqrtPriceFromTick(u) \in Pos
      /\ MinSqrtPrice <= SqrtPriceFromTick(u) /\ SqrtPriceFromTick(u) <= MaxSqrtPrice
  BY <1>3, PriceOrder DEF MinSqrtPrice, MaxSqrtPrice
<1>5. IF z THEN SqrtPriceFromTick(u) <= k /\ k < p ELSE p <= k /\ k < SqrtPriceFromTick(u)
  OBVIOUS
<1> HIDE DEF u, z, p, t
<1>6. k \in MinSqrtPrice .. MaxSqrtPrice /\ k \in 0 .. MaxSqrtPrice - 1 /\ ~(k < MinSqrtPrice)
  BY <1>2, <1>4, <1>5 DEF Pos
<1>7. y \in Ticks /\ SqrtPriceFromTick(y) <= k /\ k < SqrtPriceFromTick(y + 1)
  BY <1>6, TickOfPrice
<1>8. DepthOf(cfg)[k] = LiquidityAt(y)
  BY <1>6 DEF DepthOf, LiquidityAt
<1> HIDE DEF y
<1>9. y \in Int /\ y \in D /\ y \in PricedTicks /\ y + 1 \in PricedTicks
  BY <1>7, TicksAreInts DEF PricedTicks
<1>10. /\ SqrtPriceFromTick(y) \in Pos /\ SqrtPriceFromTick(y + 1) \in Pos
       /\ SqrtPriceFromTick(t) \in Pos /\ SqrtPriceFromTick(t + 1) \in Pos
       /\ SqrtPriceFromTick(t) <= p /\ p <= SqrtPriceFromTick(t + 1) /\ p \in Int
  BY <1>2, <1>3, <1>4, <1>9, PriceIsPositive DEF Holds, Pos
<1>11. IF z THEN u <= y /\ y <= t ELSE t <= y /\ y < u
  <2>1. CASE z = TRUE
    <3>1. SqrtPriceFromTick(u) < SqrtPriceFromTick(y + 1) /\ SqrtPriceFromTick(y) < SqrtPriceFromTick(t + 1)
      BY <1>4, <1>5, <1>7, <1>10, <2>1 DEF Pos
    <3>2. u < y + 1 /\ y < t + 1
      BY <1>3, <1>9, <3>1, PriceOrder
    <3> QED
      BY <1>3, <1>9, <2>1, <3>2
  <2>2. CASE z = FALSE
    <3>1. SqrtPriceFromTick(y) < SqrtPriceFromTick(u) /\ SqrtPriceFromTick(t) < SqrtPriceFromTick(y + 1)
      BY <1>4, <1>5, <1>7, <1>10, <2>2 DEF Pos
    <3>2. y < u /\ t < y + 1
      BY <1>3, <1>9, <3>1, PriceOrder
    <3> QED
      BY <1>3, <1>9, <2>2, <3>2
  <2> QED
    BY <1>2, <2>1, <2>2
<1>12. LiquidityAt(y) = s.liquidity
  BY <1>1, <1>9, <1>11, LiquidityOnTheWay DEF D, u, z, t
<1> QED
  BY <1>8, <1>12

\* Tokens worth nothing, or less, at the price a.
NoGainAt(a, g) == (a * a) * g[1] + (Q * Q) * g[2] <= 0

\* A trader who moved the price from a to p paid for the way along the curve, and what he
\* has of the orders besides is no gain at the price a.
FairTrade(c, a, p, won) ==
    \E w \in [1 .. 2 -> Int], g \in [1 .. 2 -> Int] :
        /\ PaidTheWay(DepthOf(c), MaxSqrtPrice, Q, a, p, w)
        /\ NoGainAt(a, g)
        /\ won = <<w[1] + g[1], w[2] + g[2]>>

LEMMA FairIsTyped ==
    ASSUME NEW c, NEW a, NEW p, NEW won, FairTrade(c, a, p, won)
    PROVE  won \in [1 .. 2 -> Int]
<1>1. PICK w \in [1 .. 2 -> Int], g \in [1 .. 2 -> Int] : won = <<w[1] + g[1], w[2] + g[2]>>
  BY DEF FairTrade
<1>2. w[1] + g[1] \in Int /\ w[2] + g[2] \in Int
  OBVIOUS
<1> QED
  BY <1>1, <1>2

LEMMA NoWayIsPaid ==
    ASSUME cfg \in Configs, NEW a \in MinSqrtPrice .. MaxSqrtPrice
    PROVE  FairTrade(cfg, a, a, <<0, 0>>)
<1>1. /\ DepthOf(cfg) \in [0 .. MaxSqrtPrice - 1 -> Nat] /\ MaxSqrtPrice \in Nat /\ Q \in Pos
      /\ a \in 1 .. MaxSqrtPrice /\ a \in 0 .. MaxSqrtPrice
  BY DepthIsNat
<1> DEFINE y == yWorth(DepthOf(cfg), MaxSqrtPrice)[a]
           x == xWorth(DepthOf(cfg), MaxSqrtPrice)[a]
           none == <<0, 0>>
<1>2. x \in Int /\ y \in Int /\ common(MaxSqrtPrice) \in Pos
  BY <1>1, WorthsAreInts, InversesFall
<1> HIDE DEF x, y
<1>3. x - x = 0 /\ y - y = 0 /\ Q * 0 = 0 /\ common(MaxSqrtPrice) * 0 = 0
  BY <1>1, <1>2 DEF Pos
<1>4. none \in [1 .. 2 -> Int] /\ Q * 0 <= y - y /\ common(MaxSqrtPrice) * 0 <= Q * (x - x)
  BY <1>3
<1>5. PaidTheWay(DepthOf(cfg), MaxSqrtPrice, Q, a, a, none)
  BY <1>4 DEF PaidTheWay, x, y
<1>6. NoGainAt(a, none)
  <2>1. a * a \in Int /\ Q * Q \in Int
    BY <1>1 DEF Pos
  <2>2. (a * a) * 0 = 0 /\ (Q * Q) * 0 = 0
    BY <2>1
  <2> QED
    BY <2>2 DEF NoGainAt
<1>7. <<0, 0>> = <<none[1] + none[1], none[2] + none[2]>>
  OBVIOUS
<1> HIDE DEF none
<1> QED
  BY <1>4, <1>5, <1>6, <1>7 DEF FairTrade

LEMMA TradesAdd ==
    ASSUME NEW w \in [1 .. 2 -> Int], NEW g \in [1 .. 2 -> Int], NEW in \in Int, NEW out \in Int,
           NEW z \in BOOLEAN, NEW won, won = <<w[1] + g[1], w[2] + g[2]>>
    PROVE  LET w1 == AfterTrade(w, in, out, z)
               g1 == AfterTrade(g, in, out, z)
               n1 == AfterTrade(won, in, out, z)
           IN  /\ w1 \in [1 .. 2 -> Int] /\ g1 \in [1 .. 2 -> Int]
               /\ n1 = <<w1[1] + g[1], w1[2] + g[2]>>
               /\ n1 = <<w[1] + g1[1], w[2] + g1[2]>>
<1>1. w[1] \in Int /\ w[2] \in Int /\ g[1] \in Int /\ g[2] \in Int
  OBVIOUS
<1>2. CASE z = TRUE
  <2>1. /\ AfterTrade(w, in, out, z) = <<w[1] - in, w[2] + out>>
        /\ AfterTrade(g, in, out, z) = <<g[1] - in, g[2] + out>>
        /\ AfterTrade(won, in, out, z) = <<(w[1] + g[1]) - in, (w[2] + g[2]) + out>>
    BY <1>2 DEF AfterTrade
  <2>2. /\ (w[1] + g[1]) - in = (w[1] - in) + g[1] /\ (w[2] + g[2]) + out = (w[2] + out) + g[2]
        /\ (w[1] + g[1]) - in = w[1] + (g[1] - in) /\ (w[2] + g[2]) + out = w[2] + (g[2] + out)
    BY <1>1
  <2> QED
    BY <1>1, <2>1, <2>2
<1>3. CASE z = FALSE
  <2>1. /\ AfterTrade(w, in, out, z) = <<w[1] + out, w[2] - in>>
        /\ AfterTrade(g, in, out, z) = <<g[1] + out, g[2] - in>>
        /\ AfterTrade(won, in, out, z) = <<(w[1] + g[1]) + out, (w[2] + g[2]) - in>>
    BY <1>3 DEF AfterTrade
  <2>2. /\ (w[1] + g[1]) + out = (w[1] + out) + g[1] /\ (w[2] + g[2]) - in = (w[2] - in) + g[2]
        /\ (w[1] + g[1]) + out = w[1] + (g[1] + out) /\ (w[2] + g[2]) - in = w[2] + (g[2] - in)
    BY <1>1
  <2> QED
    BY <1>1, <2>1, <2>2
<1> QED
  BY <1>2, <1>3

\* What trades along the curve stays fair.
LEMMA CurveKeepsFair ==
    ASSUME cfg \in Configs, NEW a \in MinSqrtPrice .. MaxSqrtPrice,
           NEW p \in MinSqrtPrice .. MaxSqrtPrice, NEW m \in MinSqrtPrice .. MaxSqrtPrice,
           NEW z \in BOOLEAN, NEW L \in Nat, IF z THEN m <= p ELSE p <= m,
           \A k \in (IF z THEN m ELSE p) .. (IF z THEN p ELSE m) - 1 : DepthOf(cfg)[k] = L,
           NEW in \in Nat, NEW out \in Nat, Traded(L, Q, p, m, in, out, z),
           NEW won, FairTrade(cfg, a, p, won)
    PROVE  FairTrade(cfg, a, m, AfterTrade(won, in, out, z))
<1> DEFINE depth == DepthOf(cfg)
           n == MaxSqrtPrice
<1>1. /\ depth \in [0 .. n - 1 -> Nat] /\ n \in Nat /\ Q \in Pos
      /\ a \in 1 .. n /\ p \in 1 .. n /\ m \in 1 .. n /\ a \in 0 .. n
  BY DepthIsNat
<1>2. PICK w \in [1 .. 2 -> Int], g \in [1 .. 2 -> Int] :
         /\ PaidTheWay(depth, n, Q, a, p, w) /\ NoGainAt(a, g)
         /\ won = <<w[1] + g[1], w[2] + g[2]>>
  BY DEF FairTrade
<1> DEFINE v == AfterTrade(w, in, out, z)
           r == AfterTrade(won, in, out, z)
<1>3. PaidTheWay(depth, n, Q, a, m, v)
  <2>1. \A k \in (IF z THEN m ELSE p) .. (IF z THEN p ELSE m) - 1 : depth[k] = L
    OBVIOUS
  <2> HIDE DEF depth, n
  <2> QED
    BY <1>1, <1>2, <2>1, StepPaysTheWay
<1>4. v \in [1 .. 2 -> Int] /\ r = <<v[1] + g[1], v[2] + g[2]>>
  BY <1>2, TradesAdd
<1> HIDE DEF v, r
<1>5. FairTrade(cfg, a, m, r)
  BY <1>2, <1>3, <1>4 DEF FairTrade
<1> QED
  BY <1>5 DEF r

\* An order taken at a price that the price a has not passed is no gain at a.
LEMMA FillIsNoGain ==
    ASSUME NEW a \in Nat, NEW p \in Nat, NEW in \in Nat, NEW out \in Nat, NEW z \in BOOLEAN,
           FilledAt(p, in, out, z), IF z THEN p <= a ELSE a <= p,
           NEW g \in [1 .. 2 -> Int], NoGainAt(a, g)
    PROVE  NoGainAt(a, AfterTrade(g, in, out, z))
<1> DEFINE A == a * a
           P == p * p
           O == Q * Q
           x == g[1]
           y == g[2]
<1>1. A \in Nat /\ P \in Nat /\ O \in Nat /\ x \in Int /\ y \in Int
  BY MathAssumption, MulIsNat
<1>2. A * x + O * y <= 0
  BY DEF NoGainAt
<1>3. IF z THEN out * O <= in * P ELSE out * P <= in * O
  BY DEF FilledAt
<1>4. IF z THEN P <= A ELSE A <= P
  <2>1. /\ p <= a => p * p <= a * p /\ p * a <= a * a
        /\ a <= p => a * a <= p * a /\ a * p <= p * p
    BY MulMonotone
  <2>2. p * a = a * p /\ p * p \in Nat /\ a * a \in Nat /\ a * p \in Nat
    BY MulIsNat
  <2> QED
    BY <2>1, <2>2
<1> HIDE DEF A, P, O, x, y
<1>5. CASE z = TRUE
  <2>1. AfterTrade(g, in, out, z) = <<x - in, y + out>>
    BY <1>5 DEF AfterTrade, x, y
  <2>2. P * in <= A * in
    BY <1>1, <1>4, <1>5, MulMonotone
  <2>3. /\ A * (x - in) = A * x - A * in /\ O * (y + out) = O * y + out * O
        /\ P * in = in * P /\ A * in \in Int /\ in * P \in Int /\ out * O \in Int
        /\ A * x \in Int /\ O * y \in Int
    BY <1>1
  <2>4. A * (x - in) + O * (y + out) <= 0
    BY <1>2, <1>3, <1>5, <2>2, <2>3
  <2> QED
    BY <2>1, <2>4 DEF NoGainAt, A, O
<1>6. CASE z = FALSE
  <2>1. AfterTrade(g, in, out, z) = <<x + out, y - in>>
    BY <1>6 DEF AfterTrade, x, y
  <2>2. A * out <= P * out
    BY <1>1, <1>4, <1>6, MulMonotone
  <2>3. /\ A * (x + out) = A * x + A * out /\ O * (y - in) = O * y - in * O
        /\ P * out = out * P /\ A * out \in Int /\ out * P \in Int /\ in * O \in Int
        /\ A * x \in Int /\ O * y \in Int
    BY <1>1
  <2>4. A * (x + out) + O * (y - in) <= 0
    BY <1>2, <1>3, <1>6, <2>2, <2>3
  <2> QED
    BY <2>1, <2>4 DEF NoGainAt, A, O
<1> QED
  BY <1>5, <1>6

\* What fills orders there stays fair.
LEMMA FillKeepsFair ==
    ASSUME NEW c, NEW a \in Nat, NEW p, NEW price \in Nat, NEW in \in Nat, NEW out \in Nat, NEW z \in BOOLEAN,
           FilledAt(price, in, out, z), IF z THEN price <= a ELSE a <= price,
           NEW won, FairTrade(c, a, p, won)
    PROVE  FairTrade(c, a, p, AfterTrade(won, in, out, z))
<1>1. PICK w \in [1 .. 2 -> Int], g \in [1 .. 2 -> Int] :
         /\ PaidTheWay(DepthOf(c), MaxSqrtPrice, Q, a, p, w) /\ NoGainAt(a, g)
         /\ won = <<w[1] + g[1], w[2] + g[2]>>
  BY DEF FairTrade
<1> DEFINE h == AfterTrade(g, in, out, z)
           r == AfterTrade(won, in, out, z)
<1>2. NoGainAt(a, h)
  BY <1>1, FillIsNoGain
<1>3. h \in [1 .. 2 -> Int] /\ r = <<w[1] + h[1], w[2] + h[2]>>
  BY <1>1, TradesAdd
<1> HIDE DEF h, r
<1>4. FairTrade(c, a, p, r)
  BY <1>1, <1>2, <1>3 DEF FairTrade
<1> QED
  BY <1>4 DEF r

\* Who traded fairly won nothing.
LEMMA FairWinsNothing ==
    ASSUME cfg \in Configs, NEW a \in MinSqrtPrice .. MaxSqrtPrice,
           NEW p \in MinSqrtPrice .. MaxSqrtPrice, NEW won, FairTrade(cfg, a, p, won),
           won[1] >= 0, won[2] >= 0
    PROVE  won = <<0, 0>>
<1> DEFINE n == MaxSqrtPrice
           depth == DepthOf(cfg)
           A == a * a
           O == Q * Q
<1>1. /\ depth \in [0 .. n - 1 -> Nat] /\ n \in Nat /\ Q \in Pos /\ a \in 1 .. n /\ p \in 1 .. n
  BY DepthIsNat
<1>2. PICK w \in [1 .. 2 -> Int], g \in [1 .. 2 -> Int] :
         /\ PaidTheWay(depth, n, Q, a, p, w) /\ NoGainAt(a, g)
         /\ won = <<w[1] + g[1], w[2] + g[2]>>
  BY DEF FairTrade
<1>3. A * w[1] + O * w[2] <= 0
  <2> HIDE DEF depth, n
  <2> QED
    BY <1>1, <1>2, WayIsPaidFor
<1>4. A * g[1] + O * g[2] <= 0
  BY <1>2 DEF NoGainAt
<1>5. A \in Pos /\ O \in Pos
  <2>1. a \in Pos
    BY <1>1 DEF Pos
  <2> QED
    BY <1>1, <2>1 DEF Pos
<1> HIDE DEF A, O, n, depth
<1> DEFINE u == w[1]
           v == w[2]
           x == g[1]
           y == g[2]
<1>6. u \in Int /\ v \in Int /\ x \in Int /\ y \in Int
  OBVIOUS
<1>7. won[1] = u + x /\ won[2] = v + y /\ u + x \in Nat /\ v + y \in Nat
  <2>1. won[1] = u + x /\ won[2] = v + y
    BY <1>2
  <2> QED
    BY <1>6, <2>1
<1>8. A * u + O * v <= 0 /\ A * x + O * y <= 0
  BY <1>3, <1>4
<1> HIDE DEF u, v, x, y
<1>9. A * (u + x) + O * (v + y) <= 0
  <2>1. /\ A * (u + x) = A * u + A * x /\ O * (v + y) = O * v + O * y
        /\ A * u \in Int /\ A * x \in Int /\ O * v \in Int /\ O * y \in Int
    BY <1>5, <1>6 DEF Pos
  <2> QED
    BY <1>8, <2>1
<1>10. u + x = 0 /\ v + y = 0
  BY <1>5, <1>7, <1>9, NothingLeft
<1> QED
  BY <1>2, <1>10 DEF u, v, x, y

\* The trader began at one of the prices pools start from; the asks are the ticks above it;
\* he traded fairly up to the pool's price and, with the quote on its way settled, up to
\* the walk's.
FairSo(c, sells, poolPrice, quoting, walkPrice, won, settled) ==
    \E a \in StartPrices :
        /\ \A t \in Ticks : t \in sells <=> a < SqrtPriceFromTick(t)
        /\ FairTrade(c, a, poolPrice, won)
        /\ quoting => FairTrade(c, a, walkPrice, settled)

\* The price that what has been booked so far leads to.
WalkPrice  == IF pc = "arrive" THEN step.next ELSE s.sqrtPrice
SettledNow == AfterTrade(trader, q.amountIn - s.amountRemaining, s.amountOut, q.zeroForOne)

FairInv == FairSo(cfg, asks, pool.sqrtPrice, Quoting, WalkPrice, trader, SettledNow)

\* Settling what was booked, and then what a step books, is settling both.
LEMMA SettledFurther ==
    ASSUME NEW won \in [1 .. 2 -> Int], NEW all \in Int, NEW left \in Int, NEW got \in Int,
           NEW in \in Int, NEW out \in Int, NEW z \in BOOLEAN
    PROVE  AfterTrade(won, all - (left - in), got + out, z)
               = AfterTrade(AfterTrade(won, all - left, got, z), in, out, z)
<1>1. won[1] \in Int /\ won[2] \in Int
  OBVIOUS
<1>2. CASE z = TRUE
  <2>1. AfterTrade(won, all - (left - in), got + out, z) = <<won[1] - (all - (left - in)), won[2] + (got + out)>>
    BY <1>2 DEF AfterTrade
  <2>2. AfterTrade(AfterTrade(won, all - left, got, z), in, out, z)
            = <<(won[1] - (all - left)) - in, (won[2] + got) + out>>
    BY <1>2 DEF AfterTrade
  <2>3. /\ won[1] - (all - (left - in)) = (won[1] - (all - left)) - in
        /\ won[2] + (got + out) = (won[2] + got) + out
    BY <1>1
  <2> QED
    BY <2>1, <2>2, <2>3
<1>3. CASE z = FALSE
  <2>1. AfterTrade(won, all - (left - in), got + out, z) = <<won[1] + (got + out), won[2] - (all - (left - in))>>
    BY <1>3 DEF AfterTrade
  <2>2. AfterTrade(AfterTrade(won, all - left, got, z), in, out, z)
            = <<(won[1] + got) + out, (won[2] - (all - left)) - in>>
    BY <1>3 DEF AfterTrade
  <2>3. /\ won[1] + (got + out) = (won[1] + got) + out
        /\ won[2] - (all - (left - in)) = (won[2] - (all - left)) - in
    BY <1>1
  <2> QED
    BY <2>1, <2>2, <2>3
<1> QED
  BY <1>2, <1>3

LEMMA SettledNothing ==
    ASSUME NEW won \in [1 .. 2 -> Int], NEW z \in BOOLEAN
    PROVE  AfterTrade(won, 0, 0, z) = won
<1>1. won[1] \in Int /\ won[2] \in Int /\ won = <<won[1], won[2]>>
  OBVIOUS
<1>2. AfterTrade(won, 0, 0, z) = <<won[1], won[2]>>
  <2>1. won[1] - 0 = won[1] /\ won[1] + 0 = won[1] /\ won[2] - 0 = won[2] /\ won[2] + 0 = won[2]
    BY <1>1
  <2> QED
    BY <2>1 DEF AfterTrade
<1> QED
  BY <1>1, <1>2

\* A step along the curve pays for its way.
LEMMA CurveStaysFair ==
    ASSUME SwapInv, SwapAlongCurve, s'.err = "none", NEW a \in StartPrices,
           trader \in [1 .. 2 -> Int], FairTrade(cfg, a, s.sqrtPrice, SettledNow)
    PROVE  FairTrade(cfg, a, step'.next,
                     AfterTrade(trader, q.amountIn - s'.amountRemaining, s'.amountOut, q.zeroForOne))
<1> DEFINE z == q.zeroForOne
           p == s.sqrtPrice
           m == step'.next
           L == s.liquidity
           target == SqrtPriceFromTick(step.tickIndex)
           to == IF z THEN p ELSE m
           from == IF z THEN m ELSE p
<1>1. Types /\ WalkInv /\ BoundaryInv /\ pc = "curve"
  BY DEF SwapInv, SwapAlongCurve, Quoting
<1>2. /\ cfg \in Configs /\ z \in BOOLEAN /\ s \in States /\ q.amountIn \in 0 .. MaxU64 /\ step.tickIndex \in Ticks
      /\ p \in MinSqrtPrice .. MaxSqrtPrice /\ L \in Nat /\ a \in MinSqrtPrice .. MaxSqrtPrice
  BY <1>1, PoolAssumption DEF Types, WalkInv, BoundaryInv, States
<1>3. /\ m \in Pos /\ Ahead(p, m, z) /\ Ahead(m, target, z) /\ TradedBy(s', s, m, z)
  BY CurveTrades
<1>4. /\ MinSqrtPrice \in Pos /\ MaxSqrtPrice \in Pos /\ target \in Pos
      /\ MinSqrtPrice <= target /\ target <= MaxSqrtPrice
  <2>1. MinTick \in PricedTicks /\ MaxTick \in PricedTicks /\ step.tickIndex \in PricedTicks
        /\ MinTick <= step.tickIndex /\ step.tickIndex <= MaxTick
    BY <1>2, TicksAreInts DEF PricedTicks
  <2> QED
    BY <2>1, PriceOrder DEF MinSqrtPrice, MaxSqrtPrice
<1>5. m \in MinSqrtPrice .. MaxSqrtPrice /\ m \in Int /\ p \in Int /\ target \in Int
  <2> HIDE DEF m, p, z, target
  <2> QED
    BY <1>2, <1>3, <1>4 DEF Ahead, Pos
<1>6. PICK in \in Nat, out \in Nat :
          /\ Traded(L, Q, p, m, in, out, z)
          /\ s'.amountRemaining = s.amountRemaining - in
          /\ s'.amountOut = s.amountOut + out
  BY <1>3 DEF TradedBy
<1>7. \A x \in from .. to - 1 : DepthOf(cfg)[x] = L
  <2> SUFFICES ASSUME NEW x \in from .. to - 1 PROVE DepthOf(cfg)[x] = L
    OBVIOUS
  <2>1. x \in Int /\ IF z THEN target <= x /\ x < p ELSE p <= x /\ x < target
    <3> HIDE DEF p, m, z, target
    <3>1. from \in Int /\ to \in Int /\ x \in Int /\ from <= x /\ x < to
      BY <1>2, <1>5
    <3> QED
      BY <1>2, <1>3, <1>5, <3>1 DEF Ahead
  <2> QED
    BY <1>1, <2>1, DepthOnTheWay
<1>8. FairTrade(cfg, a, m, AfterTrade(SettledNow, in, out, z))
  <2>1. IF z THEN m <= p ELSE p <= m
    BY <1>3 DEF Ahead
  <2>2. FairTrade(cfg, a, p, SettledNow)
    OBVIOUS
  <2> HIDE DEF m, p, L, z
  <2> QED
    BY <1>2, <1>5, <1>6, <1>7, <2>1, <2>2, CurveKeepsFair
<1>9. AfterTrade(trader, q.amountIn - s'.amountRemaining, s'.amountOut, z)
          = AfterTrade(SettledNow, in, out, z)
  <2> DEFINE all == q.amountIn
             left == s.amountRemaining
             got == s.amountOut
  <2>1. all \in Int /\ left \in Int /\ got \in Int /\ in \in Int /\ out \in Int
    BY <1>2, TicksAreInts DEF States
  <2>2. SettledNow = AfterTrade(trader, all - left, got, z)
    BY DEF SettledNow
  <2> HIDE DEF all, left, got, z
  <2>3. AfterTrade(trader, all - (left - in), got + out, z)
            = AfterTrade(AfterTrade(trader, all - left, got, z), in, out, z)
    BY <1>2, <2>1, SettledFurther
  <2>4. q.amountIn - s'.amountRemaining = all - (left - in) /\ s'.amountOut = got + out
    BY <1>6 DEF all, left, got
  <2> QED
    BY <2>2, <2>3, <2>4
<1> QED
  BY <1>8, <1>9

\* The orders of a boundary are taken at a price the start had not passed.
LEMMA MatchStaysFair ==
    ASSUME SwapInv, pc = "arrive", ReachBoundary, BoundaryMatch.st.err = "none", NEW a \in StartPrices,
           \A t \in Ticks : t \in asks <=> a < SqrtPriceFromTick(t),
           trader \in [1 .. 2 -> Int], FairTrade(cfg, a, step.next, SettledNow)
    PROVE  FairTrade(cfg, a, step.next,
                     AfterTrade(trader, q.amountIn - BoundaryMatch.st.amountRemaining,
                                BoundaryMatch.st.amountOut, q.zeroForOne))
<1> DEFINE z == q.zeroForOne
           far == step.tickIndex
           price == step.next
           st == BoundaryMatch.st
<1>1. Types /\ WalkInv /\ BoundaryInv
  BY DEF SwapInv, Quoting
<1>2. /\ s \in States /\ s.err = "none" /\ z \in BOOLEAN /\ q.amountIn \in 0 .. MaxU64
      /\ step.unfilled \in 0 .. MaxU64 /\ step.feeRate \in 0 .. FeeRateDenominator - 1
      /\ IsFeeOnInput(z) \in BOOLEAN /\ far \in Ticks /\ a \in MinSqrtPrice .. MaxSqrtPrice
  BY <1>1, PoolAssumption DEF Types, WalkInv, Steps, IsFeeOnInput, BoundaryInv
<1>3. price = SqrtPriceFromTick(far) /\ price \in Pos /\ price \in Nat /\ a \in Nat
  <2>1. far \in PricedTicks /\ MinTick \in PricedTicks /\ MaxTick \in PricedTicks
    BY <1>2, TicksAreInts DEF PricedTicks
  <2>2. price = SqrtPriceFromTick(far)
    BY DEF ReachBoundary
  <2>3. MinSqrtPrice \in Pos /\ MaxSqrtPrice \in Pos /\ price \in Pos
    BY <2>1, <2>2, PriceIsPositive DEF MinSqrtPrice, MaxSqrtPrice
  <2> HIDE DEF price
  <2> QED
    BY <1>2, <2>2, <2>3 DEF Pos
<1>4. st = s \/ (step.unfilled > 0 /\ FilledBy(st, s, price, z))
  <2> DEFINE unfilled == step.unfilled
             f        == step.feeRate
             onInput  == IsFeeOnInput(z)
             m        == matchLimitOrders(s, unfilled, price, f, z, onInput)
  <2>1. unfilled \in 0 .. MaxU64 /\ price \in Pos /\ f \in 0 .. FeeRateDenominator - 1 /\ z \in BOOLEAN
        /\ onInput \in BOOLEAN /\ st = m.st
    BY <1>2, <1>3 DEF BoundaryMatch
  <2>2. m.st.err = "none"
    BY <2>1
  <2> HIDE DEF unfilled, price, f, z, onInput, st
  <2>3. m.st = s \/ (unfilled > 0 /\ FilledBy(m.st, s, price, z))
    BY <1>2, <2>1, <2>2, MatchIsFair
  <2> QED
    BY <2>1, <2>3 DEF unfilled
<1>5. CASE st = s
  BY <1>5 DEF SettledNow
<1>6. CASE step.unfilled > 0 /\ FilledBy(st, s, price, z)
  <2>1. PICK in \in Nat, out \in Nat :
           /\ FilledAt(price, in, out, z)
           /\ st.amountRemaining = s.amountRemaining - in
           /\ st.amountOut = s.amountOut + out
    BY <1>6 DEF FilledBy
  <2>2. IF z THEN price <= a ELSE a <= price
    <3>1. far \in asks <=> far > s.tick
      BY <1>1, <1>2, <1>6 DEF WalkInv, BoundaryInv
    <3>2. far \in Int /\ s.tick \in Int /\ IF z THEN far <= s.tick ELSE s.tick < far
      BY <1>1, <1>2, TicksAreInts DEF BoundaryInv, WalkInv
    <3>3. far \in asks <=> a < price
      BY <1>2, <1>3
    <3> HIDE DEF far, price, z
    <3> QED
      BY <1>2, <1>3, <3>1, <3>2, <3>3
  <2>3. FairTrade(cfg, a, price, AfterTrade(SettledNow, in, out, z))
    <3>1. FairTrade(cfg, a, price, SettledNow)
      OBVIOUS
    <3> HIDE DEF price, z
    <3> QED
      BY <1>2, <1>3, <2>1, <2>2, <3>1, FillKeepsFair
  <2>4. AfterTrade(trader, q.amountIn - st.amountRemaining, st.amountOut, z)
            = AfterTrade(SettledNow, in, out, z)
    <3> DEFINE all == q.amountIn
               left == s.amountRemaining
               got == s.amountOut
    <3>1. all \in Int /\ left \in Int /\ got \in Int /\ in \in Int /\ out \in Int
      BY <1>2, StateAmounts
    <3>2. SettledNow = AfterTrade(trader, all - left, got, z)
      BY DEF SettledNow
    <3> HIDE DEF all, left, got, z, st
    <3>3. AfterTrade(trader, all - (left - in), got + out, z)
              = AfterTrade(AfterTrade(trader, all - left, got, z), in, out, z)
      BY <1>2, <3>1, SettledFurther
    <3>4. q.amountIn - st.amountRemaining = all - (left - in) /\ st.amountOut = got + out
      BY <2>1 DEF all, left, got
    <3> QED
      BY <3>2, <3>3, <3>4
  <2> QED
    BY <2>3, <2>4
<1> QED
  BY <1>4, <1>5, <1>6

LEMMA FairAtFirst ==
    Init => FairInv
<1> SUFFICES ASSUME Init
             PROVE  FairInv
  OBVIOUS
<1>1. cfg \in Configs /\ trader = <<0, 0>> /\ ~Quoting /\ asks = {t \in Ticks : t > pool.tick}
  BY DEF Init, Quoting
<1>2. PICK p \in StartPrices : pool.sqrtPrice = p /\ pool.tick = TickFromSqrtPrice(p)
  BY DEF Init
<1> DEFINE c == TickFromSqrtPrice(p)
<1>3. p \in MinSqrtPrice .. MaxSqrtPrice
  BY PoolAssumption
<1>4. c \in Ticks /\ SqrtPriceFromTick(c) <= p /\ p < SqrtPriceFromTick(c + 1)
  BY <1>3, TickOfPrice
<1>5. pool.tick = c
  BY <1>2
<1> HIDE DEF c
<1>6. ASSUME NEW t \in Ticks PROVE t \in asks <=> p < SqrtPriceFromTick(t)
  <2>1. /\ c \in Int /\ t \in Int /\ c \in PricedTicks /\ c + 1 \in PricedTicks /\ t \in PricedTicks
        /\ MinTick \in PricedTicks /\ MaxTick \in PricedTicks
    BY <1>4, TicksAreInts DEF PricedTicks
  <2>2. /\ SqrtPriceFromTick(c) \in Pos /\ SqrtPriceFromTick(c + 1) \in Pos /\ SqrtPriceFromTick(t) \in Pos
        /\ MinSqrtPrice \in Pos /\ MaxSqrtPrice \in Pos
    BY <2>1, PriceIsPositive DEF MinSqrtPrice, MaxSqrtPrice
  <2>3. p \in Int
    BY <1>3, <2>2 DEF Pos
  <2>4. c + 1 <= t => SqrtPriceFromTick(c + 1) <= SqrtPriceFromTick(t)
    BY <2>1, PriceOrder
  <2>5. t <= c => SqrtPriceFromTick(t) <= SqrtPriceFromTick(c)
    BY <2>1, PriceOrder
  <2>6. t > c <=> p < SqrtPriceFromTick(t)
    BY <1>4, <2>1, <2>2, <2>3, <2>4, <2>5 DEF Pos
  <2> QED
    BY <1>1, <1>5, <2>6
<1>7. FairTrade(cfg, p, pool.sqrtPrice, trader)
  BY <1>1, <1>2, <1>3, NoWayIsPaid
<1> QED
  BY <1>1, <1>6, <1>7 DEF FairInv, FairSo

\* No step of a quote or of the pool gives the trader more than he paid for.
LEMMA FairKeeps ==
    ASSUME SwapInv, FairInv, [Next]_vars
    PROVE  FairInv'
<1>1. PICK a \in StartPrices :
          /\ \A t \in Ticks : t \in asks <=> a < SqrtPriceFromTick(t)
          /\ FairTrade(cfg, a, pool.sqrtPrice, trader)
          /\ Quoting => FairTrade(cfg, a, WalkPrice, SettledNow)
  BY DEF FairInv, FairSo
<1>2. trader \in [1 .. 2 -> Int]
  BY <1>1, FairIsTyped
<1>3. cfg \in Configs /\ q.zeroForOne \in BOOLEAN /\ q.amountIn \in 0 .. MaxU64 /\ s \in States
  BY DEF SwapInv, Types
\* What every action leaves to show: the pool's side, and the walk's.
<1>4. ASSUME cfg' = cfg, asks' = asks, FairTrade(cfg, a, pool.sqrtPrice', trader'),
             Quoting' => FairTrade(cfg, a, WalkPrice', SettledNow')
      PROVE  FairInv'
  BY <1>1, <1>4 DEF FairInv, FairSo
<1>5. ASSUME NEW z \in BOOLEAN, NEW amount \in Amounts, NEW l \in Lags, NEW r \in Reaches,
             QuoteExactIn(z, amount, l, r)
      PROVE  FairInv'
  <2>1. pc = "idle" /\ cfg' = cfg /\ pool' = pool /\ trader' = trader /\ asks' = asks
    BY <1>5 DEF QuoteExactIn, poolVars
  <2>2. FairTrade(cfg, a, pool.sqrtPrice', trader')
    BY <1>1, <2>1
  <2>3. CASE Refused \/ cfg.undecoded
    <3>1. ~Quoting'
      BY <1>5, <2>3 DEF QuoteExactIn, Quoting
    <3> QED
      BY <1>4, <2>1, <2>2, <3>1
  <2>4. CASE ~(Refused \/ cfg.undecoded)
    <3> DEFINE timestamp == maxOf(now - l, 0)
    <3>1. /\ pc' = "walk" /\ s' = newSwapState(amount, timestamp)
          /\ q' = [zeroForOne |-> z, amountIn |-> amount, timestamp |-> timestamp, reach |-> r]
      BY <1>5, <2>4 DEF QuoteExactIn
    <3> HIDE DEF timestamp
    <3>2. /\ newSwapState(amount, timestamp).sqrtPrice = pool.sqrtPrice
          /\ newSwapState(amount, timestamp).amountRemaining = amount
          /\ newSwapState(amount, timestamp).amountOut = 0
      BY DEF newSwapState, NoState
    <3>3. s'.sqrtPrice = pool.sqrtPrice /\ s'.amountRemaining = amount /\ s'.amountOut = 0
          /\ q'.amountIn = amount /\ q'.zeroForOne = z
      BY <3>1, <3>2
    <3>4. amount - amount = 0
      BY PoolAssumption, TicksAreInts
    <3>5. SettledNow' = trader
      BY <1>2, <2>1, <3>3, <3>4, SettledNothing DEF SettledNow
    <3>6. WalkPrice' = pool.sqrtPrice
      BY <3>1, <3>3 DEF WalkPrice
    <3> QED
      BY <1>1, <1>4, <2>1, <2>2, <3>5, <3>6
  <2> QED
    BY <2>3, <2>4
<1>6. CASE NextBoundary \/ EndOfWalk \/ TimePasses \/ UNCHANGED vars
  <2>1. /\ cfg' = cfg /\ pool' = pool /\ trader' = trader /\ asks' = asks /\ s' = s /\ q' = q
        /\ Quoting' => Quoting
        /\ WalkPrice' = WalkPrice
    BY <1>6 DEF NextBoundary, EndOfWalk, TimePasses, vars, poolVars, quoteVars, Quoting, WalkPrice
  <2>2. SettledNow' = SettledNow
    BY <2>1 DEF SettledNow
  <2> QED
    BY <1>1, <1>4, <2>1, <2>2
<1>7. CASE SwapAlongCurve
  <2>1. /\ pc = "curve" /\ cfg' = cfg /\ pool' = pool /\ trader' = trader /\ asks' = asks /\ q' = q
        /\ pc' = IF s'.err = "none" THEN "arrive" ELSE "failed"
    BY <1>7 DEF SwapAlongCurve, poolVars
  <2>2. FairTrade(cfg, a, pool.sqrtPrice', trader')
    BY <1>1, <2>1
  <2>3. CASE s'.err # "none"
    <3>1. ~Quoting'
      BY <2>1, <2>3 DEF Quoting
    <3> QED
      BY <1>4, <2>1, <2>2, <3>1
  <2>4. CASE s'.err = "none"
    <3>1. FairTrade(cfg, a, s.sqrtPrice, SettledNow)
      BY <1>1, <2>1 DEF Quoting, WalkPrice
    <3>2. FairTrade(cfg, a, step'.next,
                    AfterTrade(trader, q.amountIn - s'.amountRemaining, s'.amountOut, q.zeroForOne))
      BY <1>2, <1>7, <2>4, <3>1, CurveStaysFair
    <3>3. SettledNow' = AfterTrade(trader, q.amountIn - s'.amountRemaining, s'.amountOut, q.zeroForOne)
      BY <2>1 DEF SettledNow
    <3>4. WalkPrice' = step'.next
      BY <2>1, <2>4 DEF WalkPrice
    <3> QED
      BY <1>4, <2>1, <2>2, <3>2, <3>3, <3>4
  <2> QED
    BY <2>3, <2>4
<1>8. CASE ArriveAtPrice
  <2>1. /\ pc = "arrive" /\ cfg' = cfg /\ pool' = pool /\ trader' = trader /\ asks' = asks /\ q' = q
    BY <1>8 DEF ArriveAtPrice, poolVars
  <2>2. FairTrade(cfg, a, pool.sqrtPrice', trader') /\ FairTrade(cfg, a, step.next, SettledNow)
    BY <1>1, <2>1 DEF Quoting, WalkPrice
  <2>3. Types /\ BoundaryInv /\ step.unfilled \in 0 .. step.unfilled
    BY <2>1 DEF SwapInv, Quoting, Types, Steps
\* An arrival with the state st books what st says.
  <2>4. ASSUME NEW st \in States, NEW tick \in Int, NEW unfilled \in 0 .. step.unfilled, NEW liquidity \in Nat,
               Arrive(st, tick, unfilled, liquidity),
               FairTrade(cfg, a, step.next,
                         AfterTrade(trader, q.amountIn - st.amountRemaining, st.amountOut, q.zeroForOne))
        PROVE  FairInv'
    <3>1. Arrived(st, tick, unfilled, liquidity)
      BY <2>3, <2>4, Arrives
    <3>2. /\ s'.amountRemaining = st.amountRemaining /\ s'.amountOut = st.amountOut
          /\ s'.sqrtPrice = step.next /\ pc' # "arrive"
      BY <3>1 DEF Arrived
    <3>3. SettledNow' = AfterTrade(trader, q.amountIn - st.amountRemaining, st.amountOut, q.zeroForOne)
      BY <2>1, <3>2 DEF SettledNow
    <3>4. WalkPrice' = step.next
      BY <3>2 DEF WalkPrice
    <3> QED
      BY <1>4, <2>1, <2>2, <2>4, <3>3, <3>4
  <2>5. CASE StopShort
    <3>1. step.landing \in Int /\ step.liquidityNext \in Nat
      BY <2>3 DEF Types, Steps
    <3>2. Arrive(s, step.landing, step.unfilled, step.liquidityNext)
      BY <2>5 DEF StopShort
    <3>3. FairTrade(cfg, a, step.next,
                    AfterTrade(trader, q.amountIn - s.amountRemaining, s.amountOut, q.zeroForOne))
      BY <2>2 DEF SettledNow
    <3> QED
      BY <1>3, <2>3, <2>4, <3>1, <3>2, <3>3
  <2>6. CASE ReachBoundary
    <3> DEFINE m == BoundaryMatch
    <3>1. /\ m.st \in States /\ m.unfilled \in 0 .. step.unfilled /\ LiquidityBehind \in Int
          /\ \/ m.st.err # "none" /\ Fail(m.st.err)
             \/ LiquidityBehind < 0 /\ Fail("ErrNegativeLiquidity")
             \/ /\ m.st.err = "none" /\ LiquidityBehind >= 0
                /\ Arrive(m.st, tickAfterCross(step.tickIndex, m.unfilled > 0, q.zeroForOne),
                          m.unfilled, LiquidityBehind)
      BY <2>1, <2>6, BoundaryIsMatched
    <3>2. CASE pc' = "failed"
      <4>1. ~Quoting'
        BY <3>2 DEF Quoting
      <4> QED
        BY <1>4, <2>1, <2>2, <4>1
    <3>3. CASE pc' # "failed"
      <4> DEFINE tick == tickAfterCross(step.tickIndex, m.unfilled > 0, q.zeroForOne)
      <4>1. m.st.err = "none" /\ LiquidityBehind \in Nat /\ Arrive(m.st, tick, m.unfilled, LiquidityBehind)
        BY <3>1, <3>3 DEF Fail
      <4>2. tick \in Int
        BY <2>3, TicksAreInts DEF tickAfterCross, BoundaryInv
      <4>3. FairTrade(cfg, a, step.next,
                      AfterTrade(trader, q.amountIn - m.st.amountRemaining, m.st.amountOut, q.zeroForOne))
        BY <1>1, <1>2, <2>1, <2>2, <2>6, <4>1, MatchStaysFair
      <4> HIDE DEF m, tick
      <4> QED
        BY <2>4, <3>1, <4>1, <4>2, <4>3 DEF m
    <3> QED
      BY <3>2, <3>3
  <2> QED
    BY <1>8, <2>5, <2>6 DEF ArriveAtPrice
<1>9. CASE Forget
  <2>1. cfg' = cfg /\ pool' = pool /\ trader' = trader /\ asks' = asks /\ ~Quoting'
    BY <1>9 DEF Forget, poolVars, Quoting
  <2> QED
    BY <1>1, <1>4, <2>1
<1>10. CASE SwapLands
  <2>1. /\ pc = "done" /\ cfg' = cfg /\ asks' = asks /\ pool'.sqrtPrice = s.sqrtPrice
        /\ trader' = IF q.zeroForOne THEN <<trader[1] - consumed, trader[2] + s.amountOut>>
                                     ELSE <<trader[1] + s.amountOut, trader[2] - consumed>>
        /\ pc' = "idle"
    BY <1>10 DEF SwapLands
  <2>2. trader' = SettledNow
    BY <2>1 DEF SettledNow, AfterTrade, consumed
  <2>3. FairTrade(cfg, a, s.sqrtPrice, SettledNow) /\ ~Quoting'
    BY <1>1, <2>1 DEF Quoting, WalkPrice
  <2> QED
    BY <1>4, <2>1, <2>2, <2>3
<1> QED
  BY <1>5, <1>6, <1>7, <1>8, <1>9, <1>10 DEF Next, QuoteStep

\* No sequence of quoted swaps that land, in either direction, across initialized ticks,
\* tick-spacing groups and resting limit orders, leaves a trader with more of one token and
\* no less of the other: every rounding of a step (swap_math.go) and of an order's fill
\* (limit_order.go) goes against him.
THEOREM TradersNeverProfit ==
    Spec => []TraderNeverProfits
<1>1. Init => FairInv
  BY FairAtFirst
<1>2. SwapInv /\ FairInv /\ [Next]_vars => FairInv'
  BY FairKeeps
<1>3. SwapInv /\ FairInv => TraderNeverProfits
  <2> SUFFICES ASSUME SwapInv, FairInv, trader[1] >= 0, trader[2] >= 0
               PROVE  trader = <<0, 0>>
    BY DEF TraderNeverProfits
  <2>1. PICK a \in StartPrices : FairTrade(cfg, a, pool.sqrtPrice, trader)
    BY DEF FairInv, FairSo
  <2>2. /\ cfg \in Configs /\ pool.sqrtPrice \in MinSqrtPrice .. MaxSqrtPrice
        /\ a \in MinSqrtPrice .. MaxSqrtPrice
    BY PoolAssumption DEF SwapInv, Types
  <2> QED
    BY <2>1, <2>2, FairWinsNothing
<1> QED
  BY <1>1, <1>2, <1>3, WalkStaysTogether, PTL DEF Spec

=============================================================================
