---------------------------- MODULE DammSwapProofs ----------------------------
(***************************************************************************)
(* A DAMM v2 pool, compounding or concentrated, at any point of any fee    *)
(* schedule the code knows: its vaults cover it and nobody trades it at a  *)
(* profit, for every word width, fee, reserve, price and amount.           *)
(***************************************************************************)
EXTENDS DammSwap, ArithmeticLemmas

-----------------------------------------------------------------------------
\* The loop of Pow

\* A product of two Q64.64 numbers up to one, rounded down, is one again.
LEMMA ScaledProduct ==
    ASSUME NEW a \in 0 .. Q64, NEW b \in 0 .. Q64
    PROVE  (a * b) \div Q64 \in 0 .. Q64
<1>1. Q64 \in Pos /\ a \in Nat /\ b \in Nat
  BY DammMathAssumption DEF Pos
<1>2. a * b \in Nat /\ a * Q64 \in Nat
  BY <1>1, MulIsNat DEF Pos
<1>3. a * b <= Q64 * Q64
  <2>1. a * b <= Q64 * b
    BY <1>1, MulMonotone DEF Pos
  <2>2. b * Q64 <= Q64 * Q64
    BY <1>1, MulMonotone DEF Pos
  <2> QED
    BY <1>1, <2>1, <2>2 DEF Pos
<1>4. (a * b) \div Q64 \in Nat
  BY <1>1, <1>2, DivFacts
<1>5. ~((a * b) \div Q64 >= Q64 + 1)
  <2> DEFINE n == a * b
             k == n \div Q64
             top == (Q64 + 1) * Q64
             sq == Q64 * Q64
  <2>1. (Q64 + 1) * Q64 <= n <=> Q64 + 1 <= n \div Q64
    <3> HIDE DEF n
    <3>1. n \in Nat /\ Q64 + 1 \in Nat
      BY <1>1, <1>2 DEF Pos, n
    <3> QED
      BY <1>1, <3>1, FloorIsGreatest
  <2>2. Q64 \in Int /\ Q64 > 0 /\ n \in Nat /\ k \in Nat
    BY <1>1, <1>2, <1>4 DEF Pos
  <2>3. sq \in Int /\ top = sq + Q64 /\ n <= sq
    BY <1>3, <2>2
  <2>4. top <= n <=> Q64 + 1 <= k
    BY <2>1
  <2> HIDE DEF n, k, top, sq
  <2>5. ~(k >= Q64 + 1)
    BY <2>2, <2>3, <2>4
  <2> QED
    BY <2>5 DEF k, n
<1> QED
  BY <1>1, <1>4, <1>5 DEF Pos

\* Squaring again and again never leaves 0 .. Q64.
LEMMA SquaresAreFractions ==
    ASSUME NEW base \in 0 .. Q64
    PROVE  LET squared == squares(base)
           IN  /\ squared \in [0 .. 18 -> 0 .. Q64]
               /\ squared[0] = base
               /\ \A k \in 0 .. 17 : squared[k + 1] = (squared[k] * squared[k]) \div Q64
<1> DEFINE V == 0 .. Q64
           Eq(f) == f = [k \in 0 .. 18 |-> IF k = 0 THEN base ELSE (f[k - 1] * f[k - 1]) \div Q64]
           step == [k \in 1 .. 18 |-> [v \in V |-> (v * v) \div Q64]]
<1>1. step \in [1 .. 18 -> [V -> V]]
  BY ScaledProduct
<1>2. PICK g \in [0 .. 18 -> V] : g[0] = base /\ \A k \in 1 .. 18 : g[k] = step[k][g[k - 1]]
  <2>1. base \in V
    OBVIOUS
  <2>2. \E g : Trace(g, V, base, 18, step)
    <3> HIDE DEF step, V
    <3> QED
      BY <1>1, <2>1, LoopHasTrace
  <2> QED
    BY <2>2 DEF Trace
<1>3. \A k \in 1 .. 18 : g[k] = (g[k - 1] * g[k - 1]) \div Q64
  BY <1>2
<1>4. Eq(g)
  BY <1>2, <1>3
<1> DEFINE f == CHOOSE x : Eq(x)
<1>5. Eq(f)
  <2> HIDE DEF Eq
  <2> QED
    BY <1>4, Zenon
<1>6. squares(base) = f
  BY Zenon DEF squares
<1> HIDE DEF f
<1>7. f[0] = base /\ \A k \in 1 .. 18 : f[k] = (f[k - 1] * f[k - 1]) \div Q64
  BY <1>5
<1> DEFINE S == {k \in 0 .. 18 : f[k] \in V}
<1>8. 0 \in S
  BY <1>7
<1>9. ASSUME NEW n \in 0 .. 17, n \in S
      PROVE  n + 1 \in S
  <2>1. f[n + 1] = (f[n] * f[n]) \div Q64
    BY <1>7
  <2>2. f[n] \in 0 .. Q64
    BY <1>9
  <2>3. f[n + 1] \in V
    BY <2>1, <2>2, ScaledProduct
  <2> QED
    BY <2>3
<1>10. 0 .. 18 \subseteq S
  <2> HIDE DEF S
  <2>1. \A n \in 0 .. 18 - 1 : n \in S => n + 1 \in S
    BY <1>9
  <2> QED
    BY <1>8, <2>1, Induction
<1>11. \A k \in 0 .. 18 : f[k] \in V
  BY <1>10
<1> QED
  <2>1. \A k \in 0 .. 17 : f[k + 1] = (f[k] * f[k]) \div Q64
    BY <1>7
  <2> QED
    BY <1>5, <1>6, <1>7, <1>11, <2>1

\* The product of some of the squares is no more than one either.
LEMMA PowersAreFractions ==
    ASSUME NEW squared \in [0 .. 18 -> 0 .. Q64], NEW exp
    PROVE  LET result == powers(squared, exp)
           IN  /\ result[0] = Q64 /\ \A k \in 0 .. 19 : result[k] \in 0 .. Q64
               /\ \A k \in 0 .. 18 :
                      result[k + 1] = IF (exp \div 2 ^ k) % 2 = 1
                                      THEN (result[k] * squared[k]) \div Q64 ELSE result[k]
<1> DEFINE V == 0 .. Q64
           bit(k) == (exp \div 2 ^ (k - 1)) % 2 = 1
           turn(k, v) == IF bit(k) THEN (v * squared[k - 1]) \div Q64 ELSE v
           Eq(f) == f = [k \in 0 .. 19 |->
                            IF k = 0 THEN Q64
                            ELSE IF bit(k) THEN (f[k - 1] * squared[k - 1]) \div Q64 ELSE f[k - 1]]
           step == [k \in 1 .. 19 |-> [v \in V |-> turn(k, v)]]
<1> HIDE DEF bit
<1>1. ASSUME NEW k \in 1 .. 19, NEW v \in V
      PROVE  turn(k, v) \in V
  <2>1. k - 1 \in 0 .. 18
    OBVIOUS
  <2>2. squared[k - 1] \in 0 .. Q64
    BY <2>1
  <2> QED
    BY <2>2, ScaledProduct
<1>2. step \in [1 .. 19 -> [V -> V]]
  <2> HIDE DEF turn, V
  <2> QED
    BY <1>1
<1>3. PICK g \in [0 .. 19 -> V] : g[0] = Q64 /\ \A k \in 1 .. 19 : g[k] = step[k][g[k - 1]]
  <2>1. Q64 \in V
    BY DammMathAssumption
  <2>2. \E g : Trace(g, V, Q64, 19, step)
    <3> HIDE DEF step, V
    <3> QED
      BY <1>2, <2>1, LoopHasTrace
  <2> QED
    BY <2>2 DEF Trace
<1>4. \A k \in 1 .. 19 : g[k] = turn(k, g[k - 1])
  <2> HIDE DEF turn, V
  <2> QED
    BY <1>3
<1>5. Eq(g)
  BY <1>3, <1>4
<1> DEFINE f == CHOOSE x : Eq(x)
<1>6. Eq(f)
  <2> HIDE DEF Eq
  <2> QED
    BY <1>5, Zenon
<1>7. powers(squared, exp) = f
  BY Zenon DEF powers, bit
<1> HIDE DEF f
<1>8. f[0] = Q64 /\ \A k \in 1 .. 19 : f[k] = turn(k, f[k - 1])
  BY <1>6
<1> DEFINE S == {k \in 0 .. 19 : f[k] \in V}
<1>9. 0 \in S
  BY <1>8, DammMathAssumption
<1>10. ASSUME NEW n \in 0 .. 18, n \in S
       PROVE  n + 1 \in S
  <2>1. n + 1 \in 1 .. 19 /\ n + 1 - 1 = n /\ f[n] \in V
    BY <1>10
  <2>2. f[n + 1] = turn(n + 1, f[n])
    <3> HIDE DEF turn
    <3> QED
      BY <1>8, <2>1
  <2>3. f[n + 1] \in V
    <3> HIDE DEF turn, V
    <3> QED
      BY <1>1, <2>1, <2>2
  <2> QED
    BY <2>3
<1>11. 0 .. 19 \subseteq S
  <2> HIDE DEF S
  <2>1. \A n \in 0 .. 19 - 1 : n \in S => n + 1 \in S
    BY <1>10
  <2> QED
    BY <1>9, <2>1, Induction
<1>12. \A k \in 0 .. 19 : f[k] \in V
  BY <1>11
<1>13. ASSUME NEW k \in 0 .. 18
       PROVE  f[k + 1] = IF (exp \div 2 ^ k) % 2 = 1 THEN (f[k] * squared[k]) \div Q64 ELSE f[k]
  <2>1. k + 1 \in 1 .. 19 /\ (k + 1) - 1 = k
    OBVIOUS
  <2>2. f[k + 1] = IF bit(k + 1) THEN (f[(k + 1) - 1] * squared[(k + 1) - 1]) \div Q64 ELSE f[(k + 1) - 1]
    BY <1>8, <2>1
  <2>3. bit(k + 1) <=> (exp \div 2 ^ k) % 2 = 1
    BY <2>1, Zenon DEF bit
  <2> QED
    BY <2>1, <2>2, <2>3, Zenon
<1> QED
  BY <1>7, <1>8, <1>12, <1>13

\* A fraction to a power that is not negative is a fraction, or an error.
LEMMA PowIsFraction ==
    ASSUME NEW base \in 0 .. Q64 - 1, NEW exp \in Nat
    PROVE  Pow(base, exp) = Err \/ Pow(base, exp) \in 0 .. Q64
<1> DEFINE result == powers(squares(base), exp)[19]
<1>1. base \in 0 .. Q64 /\ ~(base >= Q64) /\ ~(exp < 0) /\ Q64 \in 0 .. Q64
  BY DammMathAssumption
<1>2. result \in 0 .. Q64
  <2>1. squares(base) \in [0 .. 18 -> 0 .. Q64] /\ 19 \in 0 .. 19
    BY <1>1, SquaresAreFractions
  <2> QED
    BY <2>1, PowersAreFractions
<1>3. Pow(base, exp) = IF exp = 0 THEN Q64
                       ELSE IF exp >= 2 ^ 19 \/ result = 0 THEN Err ELSE result
  BY <1>1 DEF Pow
<1> HIDE DEF result
<1> QED
  BY <1>1, <1>2, <1>3

-----------------------------------------------------------------------------
\* The base fee

\* A share of n that is no more than one, rounded down, is no more than n.
LEMMA ShareFits ==
    ASSUME NEW n \in Nat, NEW d \in Pos, NEW s \in 0 .. d
    PROVE  (n * s) \div d \in 0 .. n
<1>1. n * s \in Nat /\ n * s <= n * d /\ n * d \in Nat
  <2>1. s * n <= d * n
    BY MulMonotone DEF Pos
  <2> QED
    BY <2>1 DEF Pos
<1>2. (n * s) \div d \in Nat
  BY <1>1, DivFacts
<1>3. ~((n * s) \div d >= n + 1)
  <2> DEFINE m == n * s
  <2>1. (n + 1) * d <= m <=> n + 1 <= m \div d
    <3> HIDE DEF m
    <3>1. m \in Nat
      BY <1>1 DEF m
    <3> QED
      BY <3>1, FloorIsGreatest
  <2>2. (n + 1) * d = n * d + d
    BY DEF Pos
  <2> QED
    BY <1>1, <1>2, <2>1, <2>2 DEF Pos
<1> QED
  BY <1>2, <1>3

\* An exponential schedule charges at most its cliff.
LEMMA ExponentialFits ==
    ASSUME NEW cliff \in Rates, NEW factor \in Nat \ {0}, NEW period \in Nat
    PROVE  GetFeeInPeriod(cliff, factor, period) = Err
              \/ GetFeeInPeriod(cliff, factor, period) \in Rates
<1> DEFINE cut  == (factor * Q64) \div MaxBasisPoint
           base == Q64 - cut
           rate == IF base < 0 THEN Err ELSE Pow(base, period)
           fee  == (rate * cliff) \div Q64
<1>1. Q64 \in Pos /\ MaxBasisPoint \in Pos /\ MaxBasisPoint <= Q64 /\ cliff \in Nat
      /\ cliff < FeeDenominator /\ FeeDenominator < Q64 /\ FeeDenominator \in Nat
  BY DammMathAssumption DEF Pos, Rates
<1>2. cut \in Nat /\ cut >= 1
  <2> DEFINE n == factor * Q64
  <2>1. n \in Nat /\ n >= 1 * Q64
    <3>1. 1 * Q64 <= factor * Q64
      BY <1>1, MulMonotone DEF Pos
    <3> QED
      BY <1>1, <3>1 DEF Pos
  <2>2. 1 * MaxBasisPoint <= n
    BY <1>1, <2>1 DEF Pos
  <2> HIDE DEF n
  <2>3. 1 * MaxBasisPoint <= n <=> 1 <= n \div MaxBasisPoint
    BY <1>1, <2>1, FloorIsGreatest
  <2>4. n \div MaxBasisPoint \in Nat
    BY <1>1, <2>1, DivFacts
  <2> QED
    BY <2>2, <2>3, <2>4 DEF n
<1>3. GetFeeInPeriod(cliff, factor, period) = IF rate = Err THEN Err ELSE castToUnsigned(fee)
  BY DEF GetFeeInPeriod
<1> HIDE DEF cut
<1>4. CASE rate = Err
  BY <1>3, <1>4
<1>5. CASE rate # Err
  <2>1. base \in 0 .. Q64 - 1
    BY <1>1, <1>2, <1>5 DEF Pos
  <2>2. rate = Pow(base, period)
    BY <1>1, <1>2, <2>1 DEF Pos
  <2> HIDE DEF base, rate
  <2>3. rate \in 0 .. Q64
    BY <1>5, <2>1, <2>2, PowIsFraction
  <2>4. rate \in Nat /\ rate * cliff = cliff * rate
    BY <1>1, <2>3 DEF Pos
  <2>5. (cliff * rate) \div Q64 \in 0 .. cliff
    BY <1>1, <2>3, ShareFits
  <2>6. fee \in 0 .. cliff
    BY <2>4, <2>5
  <2> HIDE DEF fee
  <2>7. fee \in Rates /\ fee \in u64
    BY <1>1, <2>6 DEF Rates, u64, U64Max, Pos
  <2> QED
    BY <1>3, <1>5, <2>7 DEF castToUnsigned
<1> QED
  BY <1>4, <1>5

\* The numerator a quoter is built with is a rate below 100%, in every mode and at every
\* point of the schedule, or the pool is refused.
LEMMA BaseFeeFits ==
    ASSUME NEW b \in Blobs, NEW now \in Nat, NEW activation \in Nat
    PROVE  LET n == CurrentBaseFeeNumerator(ParseDAMMBaseFee(b), now, activation)
           IN  n = Err \/ n \in Rates
<1> DEFINE f == ParseDAMMBaseFee(b)
           period == timeSchedulerPeriod(f, now, activation)
<1>1. f.mode = b.mode
  BY DEF ParseDAMMBaseFee, RateLimiter, Mcap
<1>2. CASE b.mode \notin {TimeLinear, TimeExponential}
  BY <1>1, <1>2 DEF CurrentBaseFeeNumerator
<1>3. CASE b.mode \in {TimeLinear, TimeExponential}
  <2>1. /\ f.cliff = b.cliff /\ f.numberOfPeriod = b.at14
        /\ f.periodFrequency = b.at16 + Q32 * b.at20 /\ f.reductionFactor = b.at24
    BY <1>3 DEF ParseDAMMBaseFee, TimeLinear, TimeExponential, RateLimiter, Mcap
  <2>2. /\ b.cliff \in Rates /\ b.cliff \in Nat /\ b.at14 \in Nat /\ b.at24 \in Nat
        /\ b.at16 + Q32 * b.at20 \in Nat
    BY DammMathAssumption DEF Blobs, Rates
  <2> HIDE DEF f
  <2>3. period \in Nat
    <3>1. CASE now <= activation \/ f.periodFrequency = 0
      BY <3>1 DEF timeSchedulerPeriod
    <3>2. CASE ~(now <= activation \/ f.periodFrequency = 0)
      <4>1. f.periodFrequency \in Pos /\ now - activation \in Nat
        BY <2>1, <2>2, <3>2 DEF Pos
      <4>2. (now - activation) \div f.periodFrequency \in Nat
        BY <4>1, DivFacts
      <4> QED
        BY <2>1, <2>2, <3>2, <4>2 DEF timeSchedulerPeriod, lesser
    <3> QED
      BY <3>1, <3>2
  <2> HIDE DEF period
  <2>4. CASE IsStatic(f)
    <3>1. CurrentBaseFeeNumerator(f, now, activation) = b.cliff
      BY <1>1, <1>3, <2>1, <2>4 DEF CurrentBaseFeeNumerator
    <3> QED
      BY <2>2, <3>1 DEF f
  <2>5. CASE ~IsStatic(f) /\ f.mode = TimeLinear
    <3>1. CurrentBaseFeeNumerator(f, now, activation) = GetFeeInPeriodLinear(b.cliff, b.at24, period)
      BY <1>1, <1>3, <2>1, <2>5 DEF CurrentBaseFeeNumerator, period
    <3>2. b.at24 * period \in Nat
      BY <2>2, <2>3, MulIsNat
    <3>3. GetFeeInPeriodLinear(b.cliff, b.at24, period) \in Rates
      BY <2>2, <3>2, DammMathAssumption DEF GetFeeInPeriodLinear, Rates
    <3> QED
      BY <3>1, <3>3 DEF f
  <2>6. CASE ~IsStatic(f) /\ f.mode # TimeLinear
    <3>1. CurrentBaseFeeNumerator(f, now, activation) = GetFeeInPeriod(b.cliff, b.at24, period)
      BY <1>1, <1>3, <2>1, <2>6 DEF CurrentBaseFeeNumerator, period
    <3>2. b.at24 \in Nat \ {0}
      BY <2>1, <2>2, <2>6 DEF IsStatic
    <3> QED
      BY <2>2, <2>3, <3>1, <3>2, ExponentialFits DEF f
  <2> QED
    BY <2>4, <2>5, <2>6
<1> QED
  BY <1>2, <1>3

-----------------------------------------------------------------------------
\* quote/damm/fees.go, for a rate below 100%

\* A product over a share, in either rounding, is no more than the amount.
LEMMA ScaledDownFits ==
    ASSUME NEW x \in u64, NEW d \in Pos, NEW s \in 0 .. d, NEW up \in BOOLEAN
    PROVE  SafeMulDivCastU64(x, s, d, up) \in 0 .. x
<1>1. x \in Nat /\ s \in Nat /\ d \in Nat /\ d # 0 /\ 0 .. x \subseteq u64
  BY DammMathAssumption DEF u64, U64Max, Pos
<1>2. x * s \in Nat /\ x * s <= x * d
  <2>1. s * x <= d * x
    BY <1>1, MulMonotone DEF Pos
  <2> QED
    BY <1>1, <2>1
<1>3. (x * s) \div d \in 0 .. x
  BY <1>1, ShareFits
<1>4. divCeil(x * s, d) \in 0 .. x
  <2> DEFINE n == x * s
  <2>1. n \in Nat /\ n <= x * d
    BY <1>2
  <2> HIDE DEF n
  <2>2. (n + d - 1) \div d \in Nat /\ (n <= x * d <=> (n + d - 1) \div d <= x)
    BY <1>1, <2>1, CeilingIsLeast
  <2> QED
    BY <1>1, <2>1, <2>2 DEF divCeil, n
<1> QED
  BY <1>1, <1>3, <1>4 DEF SafeMulDivCastU64, castToUnsigned

\* What is left of an amount after its fee: the fee is at most the amount.
LEMMA ExcludedFits ==
    ASSUME NEW amount \in u64, NEW num \in Rates
    PROVE  LET r == GetExcludedFeeAmount(num, amount)
           IN  /\ r # Failed
               /\ r.fee \in 0 .. amount
               /\ r.amount = amount - r.fee
               /\ r.fee = SafeMulDivCastU64(amount, num, FeeDenominator, TRUE)
<1> DEFINE fee == SafeMulDivCastU64(amount, num, FeeDenominator, TRUE)
<1>1. FeeDenominator \in Pos /\ num \in 0 .. FeeDenominator
  BY DammMathAssumption DEF Rates, Pos
<1>2. fee \in 0 .. amount
  BY <1>1, ScaledDownFits
<1>3. GetExcludedFeeAmount(num, amount)
        = IF fee = Err THEN Failed ELSE [amount |-> wrap(amount - fee), fee |-> fee]
  BY DEF GetExcludedFeeAmount
<1> HIDE DEF fee
<1>4. fee # Err
  BY <1>2, DammMathAssumption DEF Err, u64, U64Max
<1>5. wrap(amount - fee) = amount - fee
  BY <1>2, DammMathAssumption DEF wrap, u64, U64Max
<1>6. [amount |-> wrap(amount - fee), fee |-> fee] # Failed
  BY DEF Failed
<1> DEFINE r == GetExcludedFeeAmount(num, amount)
<1>7. r = [amount |-> amount - fee, fee |-> fee]
  BY <1>3, <1>4, <1>5
<1>8. r # Failed
  BY <1>5, <1>6, <1>7
<1> HIDE DEF r
<1>9. r.fee = fee /\ r.amount = amount - fee
  BY <1>7
<1>10. r.fee \in 0 .. amount /\ r.amount = amount - r.fee
  BY <1>2, <1>9
<1> QED
  BY <1>8, <1>9, <1>10, Zenon DEF fee, r

\* What has to be charged so that an amount is left: at least that amount, and enough.
LEMMA IncludedFits ==
    ASSUME NEW amount \in u64, NEW num \in Rates,
           GetIncludedFeeAmount(num, amount) # Failed
    PROVE  LET r == GetIncludedFeeAmount(num, amount)
           IN  /\ r.amount \in u64
               /\ r.amount >= amount
               /\ r.fee = r.amount - amount
               /\ \A m \in Nat : amount * FeeDenominator <= m * (FeeDenominator - num) <=> r.amount <= m
<1> DEFINE d   == FeeDenominator - num
           n   == amount * FeeDenominator
           up  == (n + d - 1) \div d
           r   == GetIncludedFeeAmount(num, amount)
<1>1. /\ FeeDenominator \in Pos /\ d \in Pos /\ d <= FeeDenominator /\ FeeDenominator < Q64
      /\ amount \in Nat /\ Q64 \in Nat
  BY DammMathAssumption DEF Rates, Pos, u64, U64Max
<1>2. wrap(d) = d
  BY <1>1 DEF wrap, Pos
<1>3. n \in Nat
  BY <1>1, MulIsNat DEF Pos
<1>4. r = IF castToUnsigned(up) = Err THEN Failed
          ELSE [amount |-> castToUnsigned(up), fee |-> wrap(castToUnsigned(up) - amount)]
  <2>1. SafeMulDivCastU64(amount, FeeDenominator, wrap(d), TRUE) = castToUnsigned(up)
    BY <1>1, <1>2 DEF SafeMulDivCastU64, divCeil, Pos
  <2> QED
    BY <2>1 DEF GetIncludedFeeAmount
<1> HIDE DEF n, d
<1>5. ASSUME NEW m \in Nat
      PROVE  up \in Nat /\ (n <= m * d <=> up <= m)
  BY <1>1, <1>3, CeilingIsLeast
<1>6. up \in Nat /\ up >= amount
  <2>1. up \in Nat
    BY <1>1, <1>5
  <2>2. CASE amount = 0
    BY <2>1, <2>2
  <2>3. CASE amount # 0
    <3>1. amount - 1 \in Nat
      BY <1>1, <2>3
    <3>2. (amount - 1) * d < amount * d
      BY <1>1, <3>1, MulStrict
    <3>3. d * amount <= FeeDenominator * amount
      BY <1>1, MulMonotone DEF Pos
    <3>4. ~(n <= (amount - 1) * d)
      BY <1>1, <3>1, <3>2, <3>3 DEF n, Pos
    <3>5. ~(up <= amount - 1)
      BY <1>5, <3>1, <3>4
    <3> QED
      BY <1>1, <2>1, <3>5
  <2> QED
    BY <2>2, <2>3
<1> HIDE DEF up
<1>7. castToUnsigned(up) = up /\ up \in u64
  <2>1. castToUnsigned(up) # Err
    BY <1>4
  <2> QED
    BY <2>1 DEF castToUnsigned
<1>8. wrap(up - amount) = up - amount
  BY <1>1, <1>6, <1>7 DEF wrap, u64, U64Max
<1>9. r = [amount |-> up, fee |-> up - amount]
  <2>1. up # Err
    BY <1>6 DEF Err
  <2> QED
    BY <1>4, <1>7, <1>8, <2>1
<1> HIDE DEF r
<1>10. r.amount = up /\ r.fee = up - amount
  BY <1>9
<1>11. \A m \in Nat : n <= m * d <=> r.amount <= m
  BY <1>5, <1>10
<1>12. r.amount \in u64 /\ r.amount >= amount /\ r.fee = r.amount - amount
  BY <1>6, <1>7, <1>10
<1> QED
  BY <1>11, <1>12, Zenon DEF r, n, d

\* The parts of a fee add up to it: nothing is lost and nothing counted twice.
LEMMA SplitAddsUp ==
    ASSUME NEW fee \in u64, NEW split \in Splits
    PROVE  LET s == SplitTradingFees(fee, split)
           IN  /\ s # Failed
               /\ s.claiming \in Nat /\ s.compounding \in Nat /\ s.protocol \in Nat /\ s.referral \in Nat
               /\ s.claiming + s.compounding + s.protocol + s.referral = fee
<1> DEFINE protocol    == SafeMulDivCastU64(fee, split.protocol, 100, FALSE)
           trading     == wrap(fee - protocol)
           compounding == SafeMulDivCastU64(trading, split.compounding, MaxBasisPoint, FALSE)
           referral    == IF split.hasReferral THEN SafeMulDivCastU64(protocol, split.referral, 100, FALSE) ELSE 0
           s           == SplitTradingFees(fee, split)
<1>1. /\ split.protocol \in 0 .. 100 /\ split.compounding \in 0 .. MaxBasisPoint
      /\ split.referral \in 0 .. 100 /\ split.hasReferral \in BOOLEAN
  BY DEF Splits
<1>2. 100 \in Pos /\ MaxBasisPoint \in Pos /\ fee \in 0 .. Q64 - 1 /\ Q64 \in Nat
  BY DammMathAssumption DEF Pos, u64, U64Max
<1>3. s = IF Err \in {protocol, compounding, referral} THEN Failed
          ELSE [claiming |-> wrap(trading - compounding), compounding |-> compounding,
                protocol |-> wrap(protocol - referral), referral |-> referral]
  BY Zenon DEF SplitTradingFees
<1>4. protocol \in 0 .. fee
  BY <1>1, <1>2, ScaledDownFits
<1> HIDE DEF protocol
<1>5. trading = fee - protocol /\ trading \in u64 /\ protocol \in u64
  BY <1>2, <1>4 DEF wrap, u64, U64Max
<1> HIDE DEF trading
<1>6. compounding \in 0 .. trading
  BY <1>1, <1>2, <1>5, ScaledDownFits
<1> HIDE DEF compounding
<1>7. referral \in 0 .. protocol
  <2>1. SafeMulDivCastU64(protocol, split.referral, 100, FALSE) \in 0 .. protocol
    BY <1>1, <1>2, <1>5, ScaledDownFits
  <2>2. 0 \in 0 .. protocol
    BY <1>2, <1>4
  <2> QED
    BY <2>1, <2>2
<1> HIDE DEF referral
<1>8. /\ protocol \in Nat /\ trading \in Nat /\ compounding \in Nat /\ referral \in Nat
      /\ Err \notin {protocol, compounding, referral}
  BY <1>2, <1>4, <1>5, <1>6, <1>7 DEF Err
<1>9. wrap(trading - compounding) = trading - compounding /\ wrap(protocol - referral) = protocol - referral
  BY <1>2, <1>4, <1>5, <1>6, <1>7, <1>8 DEF wrap
<1>10. s = [claiming |-> trading - compounding, compounding |-> compounding,
            protocol |-> protocol - referral, referral |-> referral]
  BY <1>3, <1>8, <1>9
<1> HIDE DEF s
<1>11. s # Failed
  BY <1>10 DEF Failed
<1>12. /\ s.claiming = trading - compounding /\ s.compounding = compounding
       /\ s.protocol = protocol - referral /\ s.referral = referral
  BY <1>10
<1>13. /\ s.claiming \in Nat /\ s.compounding \in Nat /\ s.protocol \in Nat /\ s.referral \in Nat
       /\ s.claiming + s.compounding + s.protocol + s.referral = fee
  BY <1>2, <1>4, <1>5, <1>6, <1>7, <1>8, <1>12
<1> QED
  BY <1>11, <1>13, Zenon DEF s

-----------------------------------------------------------------------------
\* The compounding curve

\* What a swap on x * y = k may do: net comes into Ri, gross leaves Ro, which keeps some.
Fair(Ri, Ro, net, gross) ==
    /\ net \in Nat /\ gross \in 0 .. Ro - 1
    /\ gross * (Ri + net) <= Ro * net

\* An exact input is answered with the most the curve allows.
LEMMA CurveIn ==
    ASSUME NEW Ri \in Pos, NEW Ro \in u64 \ {0}, NEW net \in Nat, Ri + net <= U64Max,
           NEW reserves, NEW i, reserves[i] = Ri, reserves[other(i)] = Ro
    PROVE  /\ compoundingFromAmountIn(reserves, i, net) \in u64
           /\ Fair(Ri, Ro, net, compoundingFromAmountIn(reserves, i, net))
           /\ \A m \in Nat : m * (Ri + net) <= Ro * net <=> m <= compoundingFromAmountIn(reserves, i, net)
<1> DEFINE n == Ro * net
           d == Ri + net
           out == n \div d
<1>1. Q64 \in Nat /\ Ro \in Nat /\ Ro <= Q64 - 1 /\ Ro # 0 /\ d \in Pos /\ d <= Q64 - 1
  BY DammMathAssumption DEF u64, U64Max, Pos
<1>2. n \in Nat
  BY <1>1, MulIsNat
<1>3. wrap(d) = d /\ d # 0
  BY <1>1 DEF wrap, Pos
<1>4. compoundingFromAmountIn(reserves, i, net) = castToUnsigned(out)
  BY <1>3 DEF compoundingFromAmountIn, SafeMulDivCastU64
<1>5. n < Ro * d
  <2>1. net * Ro < d * Ro
    <3>1. net < d /\ Ro \in Pos
      BY <1>1 DEF Pos
    <3> HIDE DEF d
    <3> QED
      BY <1>1, <3>1, MulStrict DEF Pos
  <2> QED
    BY <1>1, <2>1 DEF Pos
<1> HIDE DEF n, d
<1>6. ASSUME NEW m \in Nat
      PROVE  out \in Nat /\ (m * d <= n <=> m <= out)
  BY <1>1, <1>2, FloorIsGreatest, DivFacts
<1>7. out \in 0 .. Ro - 1 /\ out * d <= n
  <2>1. ~(Ro * d <= n)
    BY <1>1, <1>2, <1>5 DEF Pos
  <2> HIDE DEF out
  <2>2. out \in Nat
    BY <1>1, <1>6
  <2> QED
    BY <1>1, <1>6, <2>1, <2>2
<1> HIDE DEF out
<1>8. castToUnsigned(out) = out /\ out \in u64
  BY <1>1, <1>7 DEF castToUnsigned, u64, U64Max
<1>9. \A m \in Nat : m * d <= n <=> m <= out
  BY <1>6
<1> QED
  BY <1>4, <1>7, <1>8, <1>9 DEF Fair, n, d

\* An exact output is charged the least input the curve allows.
LEMMA CurveOut ==
    ASSUME NEW Ri \in u64 \ {0}, NEW Ro \in u64 \ {0}, NEW gross \in u64,
           NEW reserves, NEW i, reserves[i] = Ri, reserves[other(i)] = Ro,
           compoundingInputForOutput(reserves, i, gross) # Err
    PROVE  LET net == compoundingInputForOutput(reserves, i, gross)
           IN  /\ net \in u64
               /\ Fair(Ri, Ro, net, gross)
               /\ \A m \in Nat : Ri * gross <= m * (Ro - gross) <=> net <= m
<1> DEFINE n  == Ri * gross
           d  == Ro - gross
           up == (n + d - 1) \div d
           net == compoundingInputForOutput(reserves, i, gross)
<1>1. /\ Q64 \in Nat /\ Ri \in Nat /\ Ro \in Nat /\ gross \in Nat /\ Ro <= Q64 - 1
  BY DammMathAssumption DEF u64, U64Max
<1>2. gross < Ro
  BY <1>1 DEF compoundingInputForOutput
<1>3. d \in Pos /\ wrap(d) = d /\ d # 0 /\ n \in Nat
  BY <1>1, <1>2 DEF Pos, wrap
<1>4. net = castToUnsigned(up)
  BY <1>1, <1>2, <1>3 DEF compoundingInputForOutput, compoundingFromAmountOut, SafeMulDivCastU64, divCeil
<1>5. castToUnsigned(up) # Err
  BY <1>4
<1> HIDE DEF n, d
<1>6. ASSUME NEW m \in Nat
      PROVE  up \in Nat /\ (n <= m * d <=> up <= m)
  BY <1>3, CeilingIsLeast
<1> HIDE DEF up
<1>7. net = up /\ up \in u64 /\ up \in Nat
  BY <1>1, <1>4, <1>5, <1>6 DEF castToUnsigned
<1> HIDE DEF net
<1>8. n <= up * d
  BY <1>6, <1>7
<1>9. gross * (Ri + up) <= Ro * up
  <2>1. gross * (Ri + up) = n + gross * up
    BY <1>1, <1>7 DEF n
  <2>2. up * d = Ro * up - gross * up
    BY <1>1, <1>7 DEF d
  <2>3. gross * up \in Nat /\ Ro * up \in Nat
    BY <1>1, <1>7, MulIsNat
  <2> QED
    BY <1>3, <1>8, <2>1, <2>2, <2>3
<1>10. \A m \in Nat : n <= m * d <=> net <= m
  BY <1>6, <1>7
<1>11. Fair(Ri, Ro, net, gross)
  BY <1>1, <1>2, <1>7, <1>9 DEF Fair
<1> QED
  BY <1>7, <1>10, <1>11 DEF n, d, net

-----------------------------------------------------------------------------
\* The compounding quotes

Total(fees) == fees.claiming + fees.compounding + fees.protocol + fees.referral

\* What a quote promises of the swap it describes: the curve is respected, and the fee,
\* taken on one side, is all of what that side moves beside the curve.
Settles(Ri, Ro, onInput, r, gross) ==
    /\ r.included \in Nat /\ r.out \in Nat
    /\ Fair(Ri, Ro, r.excluded, gross)
    /\ r.fees.claiming \in Nat /\ r.fees.compounding \in Nat
    /\ r.fees.protocol \in Nat /\ r.fees.referral \in Nat
    /\ IF onInput THEN r.out = gross /\ r.included = r.excluded + Total(r.fees)
                  ELSE r.included = r.excluded /\ gross = r.out + Total(r.fees)

\* GetFeeOnAmount leaves the amount without its fee, and splits all of the fee.
LEMMA FeeOnAmount ==
    ASSUME NEW amount \in u64, NEW num \in Rates, NEW split \in Splits
    PROVE  LET r == GetFeeOnAmount(amount, num, split)
           IN  /\ r # Failed
               /\ r.amount \in 0 .. amount
               /\ r.amount = GetExcludedFeeAmount(num, amount).amount
               /\ r.fees.claiming \in Nat /\ r.fees.compounding \in Nat
               /\ r.fees.protocol \in Nat /\ r.fees.referral \in Nat
               /\ amount = r.amount + Total(r.fees)
<1> DEFINE e == GetExcludedFeeAmount(num, amount)
           s == SplitTradingFees(e.fee, split)
           r == GetFeeOnAmount(amount, num, split)
<1>1. e # Failed /\ e.fee \in 0 .. amount /\ e.amount = amount - e.fee
  BY ExcludedFits
<1>2. r = IF e = Failed THEN Failed
          ELSE IF s = Failed THEN Failed ELSE [amount |-> e.amount, fees |-> s]
  BY DEF GetFeeOnAmount
<1> HIDE DEF e
<1>3. e.fee \in u64 /\ amount \in Nat /\ e.fee \in Nat
  BY <1>1, DammMathAssumption DEF u64, U64Max
<1>4. /\ s # Failed
      /\ s.claiming \in Nat /\ s.compounding \in Nat /\ s.protocol \in Nat /\ s.referral \in Nat
      /\ Total(s) = e.fee
  BY <1>3, SplitAddsUp DEF Total
<1> HIDE DEF s
<1>5. r = [amount |-> e.amount, fees |-> s]
  BY <1>1, <1>2, <1>4
<1> HIDE DEF r
<1>6. r # Failed
  BY <1>5 DEF Failed
<1>7. r.amount = e.amount /\ r.fees = s
  BY <1>5
<1>8. r.amount \in 0 .. amount /\ amount = r.amount + Total(s)
  BY <1>1, <1>3, <1>4, <1>7
<1> QED
  BY <1>4, <1>6, <1>7, <1>8 DEF r, e

LEMMA ExactInSettles ==
    ASSUME NEW Ri \in u64 \ {0}, NEW Ro \in u64 \ {0}, NEW amountIn \in u64, Ri + amountIn <= U64Max,
           NEW reserves, NEW i, reserves[i] = Ri, reserves[other(i)] = Ro,
           NEW num \in Rates, NEW onInput \in BOOLEAN, NEW split \in Splits
    PROVE  LET r == QuoteExactInCompounding(amountIn, reserves, i, num, onInput, split)
           IN  /\ r # Failed
               /\ r.included = amountIn
               /\ r.excluded = IF onInput THEN GetExcludedFeeAmount(num, amountIn).amount ELSE amountIn
               /\ r.out = LET gross == compoundingFromAmountIn(reserves, i, r.excluded)
                          IN  IF onInput THEN gross ELSE GetExcludedFeeAmount(num, gross).amount
               /\ Settles(Ri, Ro, onInput, r, compoundingFromAmountIn(reserves, i, r.excluded))
<1> DEFINE onIn  == GetFeeOnAmount(amountIn, num, split)
           net   == IF ~onInput THEN amountIn ELSE IF onIn = Failed THEN Err ELSE onIn.amount
           out   == IF net = Err THEN Err ELSE compoundingFromAmountIn(reserves, i, net)
           onOut == GetFeeOnAmount(out, num, split)
           r     == QuoteExactInCompounding(amountIn, reserves, i, num, onInput, split)
<1>1. r = IF out = Err THEN Failed
          ELSE IF onInput THEN swapResult(amountIn, net, out, onIn.fees)
          ELSE IF onOut = Failed THEN Failed
          ELSE swapResult(amountIn, amountIn, onOut.amount, onOut.fees)
  BY Zenon DEF QuoteExactInCompounding
<1>2. /\ onIn # Failed /\ onIn.amount \in 0 .. amountIn
      /\ onIn.amount = GetExcludedFeeAmount(num, amountIn).amount
      /\ onIn.fees.claiming \in Nat /\ onIn.fees.compounding \in Nat
      /\ onIn.fees.protocol \in Nat /\ onIn.fees.referral \in Nat
      /\ amountIn = onIn.amount + Total(onIn.fees)
  BY FeeOnAmount
<1> HIDE DEF onIn
<1>3. Q64 \in Nat /\ amountIn \in Nat /\ Ri \in Pos /\ Ri \in Nat /\ U64Max \in Nat
  BY DammMathAssumption DEF u64, U64Max, Pos
<1>4. net \in 0 .. amountIn
  <2>1. amountIn \in 0 .. amountIn
    BY <1>3
  <2> QED
    BY <1>2, <2>1
<1>5. net = IF onInput THEN onIn.amount ELSE amountIn
  BY <1>2
<1> HIDE DEF net
<1>6. net \in Nat /\ net # Err /\ Ri + net <= U64Max
  BY <1>3, <1>4 DEF Err
<1>7. out = compoundingFromAmountIn(reserves, i, net) /\ out \in u64 /\ Fair(Ri, Ro, net, out)
  BY <1>3, <1>6, CurveIn
<1> HIDE DEF out
<1>8. out # Err
  BY <1>7, DammMathAssumption DEF u64, U64Max, Err
<1>9. /\ onOut # Failed /\ onOut.amount \in 0 .. out
      /\ onOut.amount = GetExcludedFeeAmount(num, out).amount
      /\ onOut.fees.claiming \in Nat /\ onOut.fees.compounding \in Nat
      /\ onOut.fees.protocol \in Nat /\ onOut.fees.referral \in Nat
      /\ out = onOut.amount + Total(onOut.fees)
  BY <1>7, FeeOnAmount
<1> HIDE DEF onOut
<1>10. out \in Nat /\ onOut.amount \in Nat
  BY <1>7, <1>9, DammMathAssumption DEF u64, U64Max
<1>11. CASE onInput
  <2>1. r = swapResult(amountIn, net, out, onIn.fees)
    BY <1>1, <1>8, <1>11
  <2> HIDE DEF r
  <2>2. r # Failed
    BY <2>1 DEF swapResult, Failed
  <2>3. r.included = amountIn /\ r.excluded = net /\ r.out = out /\ r.fees = onIn.fees
    BY <2>1 DEF swapResult
  <2>4. net = onIn.amount
    BY <1>5, <1>11
  <2>5. Settles(Ri, Ro, onInput, r, out)
    BY <1>2, <1>3, <1>7, <1>10, <1>11, <2>3, <2>4 DEF Settles
  <2> QED
    BY <1>2, <1>7, <1>11, <2>2, <2>3, <2>4, <2>5 DEF r
<1>12. CASE ~onInput
  <2>1. r = swapResult(amountIn, amountIn, onOut.amount, onOut.fees)
    BY <1>1, <1>8, <1>9, <1>12
  <2> HIDE DEF r
  <2>2. r # Failed
    BY <2>1 DEF swapResult, Failed
  <2>3. r.included = amountIn /\ r.excluded = amountIn /\ r.out = onOut.amount /\ r.fees = onOut.fees
    BY <2>1 DEF swapResult
  <2>4. net = amountIn
    BY <1>5, <1>12
  <2>5. Settles(Ri, Ro, onInput, r, out)
    BY <1>3, <1>7, <1>9, <1>10, <1>12, <2>3, <2>4 DEF Settles
  <2> QED
    BY <1>7, <1>9, <1>12, <2>2, <2>3, <2>4, <2>5 DEF r
<1> QED
  BY <1>11, <1>12

\* What is left of an amount after its fee is the most whose share of it fits.
LEMMA ExcludedIsGreatest ==
    ASSUME NEW amount \in u64, NEW num \in Rates, NEW m \in Nat
    PROVE  m * FeeDenominator <= amount * (FeeDenominator - num)
              <=> m <= GetExcludedFeeAmount(num, amount).amount
<1> DEFINE D == FeeDenominator
           e == GetExcludedFeeAmount(num, amount)
           n == amount * num
           up == (n + D - 1) \div D
<1>1. D \in Pos /\ D \in Nat /\ D # 0 /\ num \in Nat /\ num < D /\ amount \in Nat /\ n \in Nat
  BY DammMathAssumption DEF Rates, Pos, u64, U64Max
<1>2. e.fee \in 0 .. amount /\ e.amount = amount - e.fee
  BY ExcludedFits
<1>2a. e.fee = SafeMulDivCastU64(amount, num, FeeDenominator, TRUE)
  BY ExcludedFits
<1>3. e.fee = castToUnsigned(up) /\ e.fee # Err
  BY <1>1, <1>2, <1>2a DEF SafeMulDivCastU64, divCeil, Err
<1>4. e.fee = up
  BY <1>3 DEF castToUnsigned
<1> SUFFICES m * D <= amount * (D - num) <=> m <= e.amount
  OBVIOUS
<1> HIDE DEF e, n
<1>5. amount * (D - num) = amount * D - n
  BY <1>1 DEF n
<1>6. m * D \in Nat /\ amount * D \in Nat
  BY <1>1, MulIsNat
<1>7. CASE m <= amount
  <2>1. amount - m \in Nat /\ (amount - m) * D = amount * D - m * D
    BY <1>1, <1>7
  <2> DEFINE k == amount - m
  <2>2. n <= k * D <=> up <= k
    <3>1. k \in Nat
      BY <2>1
    <3> HIDE DEF k, D
    <3> QED
      BY <1>1, <3>1, CeilingIsLeast
  <2>3. up <= amount - m <=> m <= amount - up
    BY <1>1, <1>2, <1>4
  <2>4. m * D <= amount * D - n <=> n <= (amount - m) * D
    BY <1>1, <1>6, <2>1
  <2> HIDE DEF up, D
  <2> QED
    BY <1>2, <1>4, <1>5, <2>2, <2>3, <2>4
<1>8. CASE amount < m
  <2>1. amount * D < m * D
    <3> HIDE DEF D
    <3> QED
      BY <1>1, <1>8, MulStrict
  <2>2. ~(m * D <= amount * D - n)
    BY <1>1, <1>6, <2>1
  <2>3. ~(m <= e.amount)
    <3>1. amount - e.fee <= amount
      BY <1>1, <1>2
    <3> QED
      BY <1>1, <1>2, <1>8, <3>1
  <2> HIDE DEF D
  <2> QED
    BY <1>5, <2>2, <2>3
<1> QED
  BY <1>1, <1>7, <1>8

LEMMA ExactOutSettles ==
    ASSUME NEW Ri \in u64 \ {0}, NEW Ro \in u64 \ {0}, NEW amountOut \in u64,
           NEW reserves, NEW i, reserves[i] = Ri, reserves[other(i)] = Ro,
           NEW num \in Rates, NEW onInput \in BOOLEAN, NEW split \in Splits,
           QuoteExactOutCompounding(amountOut, reserves, i, num, onInput, split) # Failed
    PROVE  LET r     == QuoteExactOutCompounding(amountOut, reserves, i, num, onInput, split)
               gross == IF onInput THEN amountOut ELSE GetIncludedFeeAmount(num, amountOut).amount
           IN  /\ r.out = amountOut
               /\ r.included \in u64
               /\ gross \in u64
               /\ onInput \/ GetIncludedFeeAmount(num, amountOut) # Failed
               /\ r.excluded = compoundingInputForOutput(reserves, i, gross)
               /\ r.excluded \in u64
               /\ IF onInput THEN /\ GetIncludedFeeAmount(num, r.excluded) # Failed
                                  /\ r.included = GetIncludedFeeAmount(num, r.excluded).amount
                             ELSE r.included = r.excluded
               /\ Settles(Ri, Ro, onInput, r, gross)
<1> DEFINE inc   == GetIncludedFeeAmount(num, amountOut)
           gross == IF onInput THEN [amount |-> amountOut, fee |-> 0] ELSE inc
           g     == IF onInput THEN amountOut ELSE inc.amount
           net   == IF gross = Failed THEN Err ELSE compoundingInputForOutput(reserves, i, gross.amount)
           incIn == GetIncludedFeeAmount(num, net)
           paid  == IF net = Err THEN Failed
                    ELSE IF onInput THEN incIn
                    ELSE [amount |-> net, fee |-> gross.fee]
           parts == IF paid = Failed THEN Failed ELSE SplitTradingFees(paid.fee, split)
           r     == QuoteExactOutCompounding(amountOut, reserves, i, num, onInput, split)
<1>1. r = IF parts = Failed THEN Failed ELSE swapResult(paid.amount, net, amountOut, parts)
  BY Zenon DEF QuoteExactOutCompounding
<1>2. parts # Failed /\ paid # Failed /\ net # Err /\ gross # Failed
  <2>1. parts # Failed
    BY <1>1
  <2>2. paid # Failed
    BY <2>1
  <2>3. net # Err
    BY <2>2
  <2> QED
    BY <2>1, <2>2, <2>3
<1>3. r = swapResult(paid.amount, net, amountOut, parts) /\ parts = SplitTradingFees(paid.fee, split)
  BY <1>1, <1>2
<1> HIDE DEF r, parts
<1>4. r.included = paid.amount /\ r.excluded = net /\ r.out = amountOut /\ r.fees = parts
  BY <1>3 DEF swapResult
<1>5. amountOut \in Nat /\ Q64 \in Nat /\ u64 \subseteq Nat
  BY DammMathAssumption DEF u64, U64Max
<1>6. g = gross.amount /\ g \in u64 /\ (onInput \/ inc # Failed)
  <2>1. CASE onInput
    BY <2>1
  <2>2. CASE ~onInput
    <3>1. inc # Failed
      BY <1>2, <2>2
    <3>2. inc.amount \in u64
      BY <3>1, IncludedFits
    <3> QED
      BY <2>2, <3>1, <3>2
  <2> QED
    BY <2>1, <2>2
<1>7. net = compoundingInputForOutput(reserves, i, g)
  BY <1>2, <1>6
<1> HIDE DEF net, g
<1>8. net \in u64 /\ Fair(Ri, Ro, net, g)
  BY <1>2, <1>6, <1>7, CurveOut
<1>9. CASE onInput
  <2>1. paid = incIn /\ incIn # Failed
    BY <1>2, <1>9
  <2>2. incIn.amount \in u64 /\ incIn.amount >= net /\ incIn.fee = incIn.amount - net
    BY <1>8, <2>1, IncludedFits
  <2>3. incIn.fee \in u64 /\ incIn.fee \in Nat
    BY <1>5, <1>8, <2>2 DEF u64, U64Max
  <2> HIDE DEF incIn, paid
  <2>4. /\ parts.claiming \in Nat /\ parts.compounding \in Nat
        /\ parts.protocol \in Nat /\ parts.referral \in Nat
        /\ Total(parts) = incIn.fee
    BY <1>3, <2>1, <2>3, SplitAddsUp DEF Total
  <2>5. r.included = net + Total(parts) /\ r.included \in u64
    <3>1. incIn.amount \in Nat /\ net \in Nat
      BY <1>5, <1>8, <2>2
    <3>2. incIn.amount = net + incIn.fee
      BY <2>2, <3>1
    <3> QED
      BY <1>4, <2>1, <2>2, <2>4, <3>2
  <2>6. g = amountOut
    BY <1>9 DEF g
  <2>7. Settles(Ri, Ro, onInput, r, g)
    BY <1>4, <1>5, <1>8, <1>9, <2>4, <2>5, <2>6 DEF Settles
  <2> QED
    BY <1>4, <1>6, <1>7, <1>8, <1>9, <2>1, <2>5, <2>7 DEF r, g, inc, incIn
<1>10. CASE ~onInput
  <2>1. inc # Failed /\ gross = inc /\ g = inc.amount
    BY <1>6, <1>10 DEF g
  <2>2. inc.amount \in u64 /\ inc.amount >= amountOut /\ inc.fee = inc.amount - amountOut
    BY <2>1, IncludedFits
  <2>3. inc.fee \in u64 /\ inc.fee \in Nat
    BY <1>5, <2>2 DEF u64, U64Max
  <2>4. paid.amount = net /\ paid.fee = inc.fee
    BY <1>2, <1>10
  <2> HIDE DEF inc, paid, gross
  <2>5. /\ parts.claiming \in Nat /\ parts.compounding \in Nat
        /\ parts.protocol \in Nat /\ parts.referral \in Nat
        /\ Total(parts) = inc.fee
    BY <1>3, <2>3, <2>4, SplitAddsUp DEF Total
  <2>6. g = r.out + Total(parts) /\ r.included = net /\ r.excluded = net
    <3>1. inc.amount \in Nat
      BY <1>5, <2>2
    <3>2. inc.amount = amountOut + inc.fee
      BY <1>5, <2>2, <3>1
    <3> QED
      BY <1>4, <2>1, <2>4, <2>5, <3>2
  <2>7. Settles(Ri, Ro, onInput, r, g)
    BY <1>4, <1>5, <1>8, <1>10, <2>5, <2>6 DEF Settles
  <2> QED
    BY <1>4, <1>6, <1>7, <1>8, <1>10, <2>1, <2>6, <2>7 DEF r, g, inc
<1> QED
  BY <1>9, <1>10

-----------------------------------------------------------------------------
\* Neither curve loses by a swap

\* The product of the reserves does not fall, and what is kept of the fee adds to it.
LEMMA ProductKept ==
    ASSUME NEW Ri \in Pos, NEW Ro \in Pos, NEW net, NEW gross, Fair(Ri, Ro, net, gross),
           NEW Si \in Nat, NEW So \in Nat, Si >= Ri + net, So >= Ro - gross
    PROVE  Ri * Ro <= Si * So
<1>1. /\ net \in Nat /\ gross \in Nat /\ gross < Ro /\ gross * (Ri + net) <= Ro * net
      /\ Ri \in Nat /\ Ro \in Nat
  BY DEF Fair, Pos
<1> DEFINE A == Ri + net
           B == Ro - gross
<1>2. A \in Nat /\ B \in Nat
  BY <1>1
<1>3. A * B = Ri * Ro + Ro * net - gross * (Ri + net)
  BY <1>1
<1>4. Ri * Ro \in Nat /\ Ro * net \in Nat /\ gross * (Ri + net) \in Nat
  BY <1>1, MulIsNat
<1>5. Ri * Ro <= A * B
  BY <1>1, <1>3, <1>4
<1> HIDE DEF A, B
<1>6. A * B <= Si * B
  BY <1>2, MulMonotone DEF A
<1>7. B * Si <= So * Si
  BY <1>2, MulMonotone DEF B
<1>8. A * B \in Nat /\ Si * B \in Nat /\ Si * So \in Nat /\ B * Si = Si * B /\ So * Si = Si * So
  BY <1>2, MulIsNat
<1> QED
  BY <1>4, <1>5, <1>6, <1>7, <1>8

\* Two reserves that are both no larger, and whose product is no smaller, are the same.
LEMMA ProductPinsReserves ==
    ASSUME NEW a \in Pos, NEW b \in Pos, NEW c \in Nat, NEW d \in Nat,
           c <= a, d <= b, a * b <= c * d
    PROVE  c = a /\ d = b
<1>0. a \in Nat /\ b \in Nat
  BY DEF Pos
<1>1. c * d <= a * d /\ d * a <= b * a
  BY <1>0, MulMonotone
<1>2. c * d \in Nat /\ a * d \in Nat /\ a * b \in Nat /\ d * a = a * d /\ b * a = a * b
  BY <1>0, MulIsNat
<1>3. c * d = a * d /\ d * a = b * a
  BY <1>1, <1>2
<1>4. d = b
  <2>1. ~(d < b)
    BY <1>0, <1>3, MulStrict
  <2> QED
    BY <1>0, <2>1
<1>5. ~(c < a)
  <2> SUFFICES ASSUME c < a PROVE FALSE
    OBVIOUS
  <2>1. c * b < a * b
    BY <1>0, MulStrict
  <2>2. c * b = a * b /\ a * b \in Nat
    BY <1>2, <1>3, <1>4
  <2> QED
    BY <2>1, <2>2
<1> QED
  BY <1>0, <1>4, <1>5

\* A move of the price from p to n that is worth no more than the pool takes in, a of
\* token A and b of token B, either of them negative when the pool pays it.
Paid(L, p, n, a, b) ==
    /\ L * (p - n) <= a * (p * n)
    /\ L * (n - p) <= b * (Q64 * Q64)

\* x units of token A are worth the liquidity between the prices p and q.
CoversA(L, p, q, x) == L * (q - p) <= x * (p * q)
CoversB(L, p, q, x) == L * (p - q) <= x * (Q64 * Q64)

LEMMA PaidKeepsA ==
    ASSUME NEW L \in Nat, NEW p \in Pos, NEW n \in Pos, NEW q \in Pos, NEW a \in Int, NEW b,
           NEW x \in Int, NEW y \in Int, y >= x + a, Paid(L, p, n, a, b), CoversA(L, p, q, x)
    PROVE  CoversA(L, n, q, y)
<1>0. p \in Nat /\ n \in Nat /\ q \in Nat /\ n * q \in Nat /\ p * n \in Nat /\ p * q \in Nat
  BY MulIsNat DEF Pos
<1>1. L * (p - n) \in Int /\ a * (p * n) \in Int /\ L * (q - p) \in Int /\ x * (p * q) \in Int
  BY <1>0
<1>2. (L * (p - n)) * q <= (a * (p * n)) * q
  BY <1>0, <1>1, MulMonotone DEF Paid
<1>3. (L * (q - p)) * n <= (x * (p * q)) * n
  BY <1>0, <1>1, MulMonotone DEF CoversA
<1>4. (L * (p - n)) * q + (L * (q - p)) * n = (L * (q - n)) * p
  <2>1. (L * (p - n)) * q = L * p * q - L * n * q
    BY <1>0
  <2>2. (L * (q - p)) * n = L * q * n - L * p * n
    BY <1>0
  <2>3. (L * (q - n)) * p = L * q * p - L * n * p
    BY <1>0
  <2>4. L * p * q = L * q * p /\ L * n * q = L * q * n /\ L * p * n = L * n * p
    BY <1>0
  <2>5. L * p * q \in Int /\ L * n * q \in Int /\ L * p * n \in Int
    BY <1>0
  <2> QED
    BY <2>1, <2>2, <2>3, <2>4, <2>5
<1>5. (a * (p * n)) * q + (x * (p * q)) * n = ((x + a) * (n * q)) * p
  <2>1. (a * (p * n)) * q = a * p * n * q
    BY <1>0
  <2>2. (x * (p * q)) * n = x * p * n * q
    BY <1>0
  <2>3. ((x + a) * (n * q)) * p = x * p * n * q + a * p * n * q
    BY <1>0
  <2>4. a * p * n * q \in Int /\ x * p * n * q \in Int
    BY <1>0
  <2> QED
    BY <2>1, <2>2, <2>3, <2>4
<1> DEFINE u == L * (q - n)
           v == (x + a) * (n * q)
           w == y * (n * q)
<1>6. u \in Int /\ v \in Int /\ w \in Int
  BY <1>0
<1>7. u * p <= v * p
  <2>1. (L * (p - n)) * q \in Int /\ (L * (q - p)) * n \in Int
        /\ (a * (p * n)) * q \in Int /\ (x * (p * q)) * n \in Int
    BY <1>0, <1>1
  <2> QED
    BY <1>2, <1>3, <1>4, <1>5, <2>1
<1> HIDE DEF u, v, w
<1>8. u <= v
  <2>1. ~(v < u)
    <3> SUFFICES ASSUME v < u PROVE FALSE
      OBVIOUS
    <3>1. v * p < u * p
      BY <1>6, MulStrict
    <3>2. v * p \in Int /\ u * p \in Int
      BY <1>0, <1>6
    <3> QED
      BY <1>7, <3>1, <3>2
  <2> QED
    BY <1>6, <2>1
<1>9. v <= w
  BY <1>0, MulMonotone DEF v, w
<1>10. u <= w
  BY <1>6, <1>8, <1>9
<1> QED
  BY <1>10 DEF u, w, CoversA

LEMMA PaidKeepsB ==
    ASSUME NEW L \in Nat, NEW p \in Pos, NEW n \in Pos, NEW q \in Pos, NEW a, NEW b \in Int,
           NEW x \in Int, NEW y \in Int, y >= x + b, Paid(L, p, n, a, b), CoversB(L, p, q, x)
    PROVE  CoversB(L, n, q, y)
<1> DEFINE Q == Q64 * Q64
<1>0. p \in Nat /\ n \in Nat /\ q \in Nat /\ Q \in Nat
  BY MulIsNat, DammMathAssumption DEF Pos
<1>1. L * (n - p) <= b * Q /\ L * (p - q) <= x * Q
  BY DEF Paid, CoversB
<1> HIDE DEF Q
<1>2. L * (n - q) = L * (n - p) + L * (p - q) /\ (x + b) * Q = x * Q + b * Q
  BY <1>0
<1>3. (x + b) * Q <= y * Q
  BY <1>0, MulMonotone
<1>4. /\ L * (n - p) \in Int /\ L * (p - q) \in Int /\ b * Q \in Int /\ x * Q \in Int
      /\ y * Q \in Int
  BY <1>0
<1>5. L * (n - q) <= y * Q
  BY <1>1, <1>2, <1>3, <1>4
<1> QED
  BY <1>5 DEF CoversB, Q

-----------------------------------------------------------------------------
\* The concentrated curve

\* What the quoter of a concentrated pool is made of.
Curves(c) ==
    /\ c.liquidity \in Nat
    /\ c.sqrtMinPrice \in Pos /\ c.sqrtMaxPrice \in Nat
    /\ c.sqrtPrice \in c.sqrtMinPrice .. c.sqrtMaxPrice
    /\ c.baseFeeNumerator \in Rates
    /\ c.volatilityAccumulator \in Nat /\ c.binStep \in Nat /\ c.variableFeeControl \in Nat
    /\ c.dynamicFeeInitialized \in BOOLEAN

\* The dynamic fee never brings the fee to 100%.
LEMMA TotalFeeFits ==
    ASSUME NEW c, Curves(c)
    PROVE  totalTradingFeeNumerator(c) \in Rates
<1> DEFINE vfa == c.volatilityAccumulator * c.binStep
           n   == vfa * vfa * c.variableFeeControl
<1>1. n \in Nat
  <2>1. vfa \in Nat
    BY MulIsNat DEF Curves
  <2> HIDE DEF vfa
  <2>2. vfa * vfa \in Nat
    BY <2>1, MulIsNat
  <2> QED
    BY <2>2, MulIsNat DEF Curves
<1> HIDE DEF n
<1>2. n + variableFeeScale - 1 \in Nat /\ variableFeeScale \in Pos
  BY <1>1, DammMathAssumption DEF Pos
<1>3. (n + variableFeeScale - 1) \div variableFeeScale \in Nat
  BY <1>2, DivFacts
<1>4. variableFee(c) \in Nat
  BY <1>3 DEF variableFee, n
<1> DEFINE sum == c.baseFeeNumerator + (IF c.dynamicFeeInitialized THEN variableFee(c) ELSE 0)
           cap == IF c.feeVersion = 0 THEN maxFeeNumeratorV0 ELSE maxFeeNumeratorV1
<1>5. sum \in Nat
  BY <1>4, DammMathAssumption DEF Curves, Rates
<1>6. cap \in Rates /\ cap \in Nat
  BY DammMathAssumption DEF Rates
<1>7. totalTradingFeeNumerator(c) = lesser(sum, cap)
  BY DEF totalTradingFeeNumerator
<1> HIDE DEF sum, cap
<1> QED
  BY <1>5, <1>6, <1>7, DammMathAssumption DEF lesser, Rates

\* What reaches the curve is at most what was given.
LEMMA NetInputFits ==
    ASSUME NEW c, Curves(c), NEW amountIn \in u64, NEW aToB \in BOOLEAN
    PROVE  netInput(amountIn, aToB, c) \in 0 .. amountIn
<1> DEFINE e == GetExcludedFeeAmount(totalTradingFeeNumerator(c), amountIn)
<1>1. amountIn \in Nat
  BY DammMathAssumption DEF u64, U64Max
<1>2. e.fee \in 0 .. amountIn /\ e.amount = amountIn - e.fee
  BY TotalFeeFits, ExcludedFits
<1>3. netInput(amountIn, aToB, c) = IF feeOnInput(c.collectFeeMode, aToB) THEN e.amount ELSE amountIn
  BY DEF netInput
<1> HIDE DEF e
<1>4. e.amount \in 0 .. amountIn /\ amountIn \in 0 .. amountIn
  BY <1>1, <1>2
<1> QED
  BY <1>3, <1>4

\* An input moves the price by no more than it pays for.
LEMMA NextPriceIsPaid ==
    ASSUME NEW L \in Nat, NEW p \in Pos, NEW net \in Nat, NEW aToB \in BOOLEAN,
           GetNextSqrtPriceFromInput(p, L, net, aToB) # Err
    PROVE  LET n == GetNextSqrtPriceFromInput(p, L, net, aToB)
           IN  /\ L \in Pos /\ n \in Pos
               /\ aToB => n <= p /\ L * (p - n) <= net * (p * n)
               /\ ~aToB => p <= n /\ L * (n - p) <= net * (Q64 * Q64)
<1> DEFINE n == GetNextSqrtPriceFromInput(p, L, net, aToB)
           Q == Q64 * Q64
<1>1. L \in Pos /\ p \in Nat /\ Q \in Nat /\ ~(p <= 0 \/ L <= 0)
  BY DammMathAssumption, MulIsNat DEF GetNextSqrtPriceFromInput, Pos
<1>2. n = IF net = 0 THEN p
          ELSE IF aToB THEN divCeil(L * p, L + net * p)
          ELSE p + (net * Q64 * Q64) \div L
  BY <1>1 DEF GetNextSqrtPriceFromInput
<1>3. CASE net = 0
  <2>1. n = p
    BY <1>2, <1>3
  <2>2. L * (p - p) = 0 /\ 0 * (p * p) = 0 /\ 0 * Q = 0
    BY <1>1
  <2> QED
    BY <1>1, <1>3, <2>1, <2>2
<1>4. CASE net # 0 /\ aToB
  <2> DEFINE d == L + net * p
             k == L * p
  <2>1. d \in Pos /\ k \in Nat /\ net * p \in Nat /\ k >= 1
    <3>1. net * p \in Nat /\ k \in Nat
      BY <1>1, MulIsNat DEF Pos
    <3>2. 1 * p <= L * p
      BY <1>1, MulMonotone DEF Pos
    <3> QED
      BY <1>1, <3>1, <3>2 DEF Pos
  <2>2. n = (k + d - 1) \div d
    BY <1>2, <1>4 DEF divCeil
  <2>3. k <= p * d
    <3>1. p * d = k + p * (net * p)
      BY <1>1, <2>1 DEF Pos
    <3>2. p * (net * p) \in Nat
      BY <1>1, <2>1, MulIsNat
    <3> QED
      BY <2>1, <3>1, <3>2
  <2> HIDE DEF d, k, n
  <2>4. ASSUME NEW m \in Nat
        PROVE  n \in Nat /\ (k <= m * d <=> n <= m)
    BY <2>1, <2>2, CeilingIsLeast
  <2>5. n \in Nat /\ n <= p /\ k <= n * d
    <3>1. n \in Nat
      BY <1>1, <2>4
    <3> QED
      BY <1>1, <2>3, <2>4, <3>1
  <2>6. n # 0
    <3> SUFFICES ASSUME n = 0 PROVE FALSE
      OBVIOUS
    <3>1. 0 * d = 0
      BY <2>1 DEF Pos
    <3> QED
      BY <2>1, <2>5, <3>1
  <2>7. L * (p - n) <= net * (p * n)
    <3>1. L * (p - n) = k - L * n
      BY <1>1, <2>5 DEF k, Pos
    <3>2. n * d = L * n + net * (p * n)
      BY <1>1, <2>5 DEF d, Pos
    <3>3. L * n \in Nat /\ net * (p * n) \in Nat
      <4>1. p * n \in Nat
        BY <1>1, <2>5, MulIsNat
      <4> QED
        BY <1>1, <2>5, <4>1, MulIsNat DEF Pos
    <3> QED
      BY <2>1, <2>5, <3>1, <3>2, <3>3
  <2> QED
    BY <1>1, <1>4, <2>5, <2>6, <2>7 DEF n, Pos
<1>5. CASE net # 0 /\ ~aToB
  <2> DEFINE k == net * Q
             m == k \div L
  <2>1. net * Q64 * Q64 = k
    BY DammMathAssumption
  <2>2. k \in Nat
    BY <1>1, MulIsNat
  <2>3. n = p + m
    BY <1>2, <1>5, <2>1
  <2> HIDE DEF k
  <2>4. m \in Nat
    BY <1>1, <2>2, DivFacts
  <2>5. m * L <= k <=> m <= m
    <3>1. ASSUME NEW j \in Nat
          PROVE  j * L <= k <=> j <= m
      BY <1>1, <2>2, FloorIsGreatest
    <3> QED
      BY <2>4, <3>1
  <2> HIDE DEF m, n
  <2>6. L * (n - p) = m * L
    BY <1>1, <2>3, <2>4 DEF Pos
  <2> QED
    BY <1>1, <1>5, <2>3, <2>4, <2>5, <2>6 DEF n, k, Pos
<1> QED
  BY <1>3, <1>4, <1>5

\* An input moves the price inside its range and pays for the move; what the curve gives
\* out is worth no more than the move.
LEMMA ConcentratedPays ==
    ASSUME NEW c, Curves(c), NEW net \in Nat, NEW aToB \in BOOLEAN,
           concentratedOutput(net, aToB, c) # Err
    PROVE  LET n   == GetNextSqrtPriceFromInput(c.sqrtPrice, c.liquidity, net, aToB)
               out == concentratedOutput(net, aToB, c)
           IN  /\ n \in c.sqrtMinPrice .. c.sqrtMaxPrice
               /\ out \in u64
               /\ aToB => Paid(c.liquidity, c.sqrtPrice, n, net, -out)
               /\ ~aToB => Paid(c.liquidity, c.sqrtPrice, n, -out, net)
<1> DEFINE L == c.liquidity
           p == c.sqrtPrice
           lo == c.sqrtMinPrice
           hi == c.sqrtMaxPrice
           Q == Q64 * Q64
           n == GetNextSqrtPriceFromInput(p, L, net, aToB)
           past == IF aToB THEN n < lo ELSE n > hi
           out == concentratedOutput(net, aToB, c)
<1>1. /\ L \in Nat /\ p \in Pos /\ p \in Nat /\ Q \in Pos /\ Q \in Nat
      /\ lo \in Pos /\ lo \in Nat /\ hi \in Nat /\ lo <= p /\ p <= hi
  BY DammMathAssumption, MulIsNat DEF Curves, Pos
<1>2. out = IF n = Err \/ past THEN Err
            ELSE IF aToB THEN GetDeltaAmountB(n, p, L, FALSE) ELSE GetDeltaAmountA(p, n, L, FALSE)
  BY Zenon DEF concentratedOutput
<1> HIDE DEF L, p, lo, hi
<1>3. n # Err /\ ~past
  BY <1>2
<1>4. /\ L \in Pos /\ n \in Pos
      /\ aToB => n <= p /\ L * (p - n) <= net * (p * n)
      /\ ~aToB => p <= n /\ L * (n - p) <= net * Q
  BY <1>1, <1>3, NextPriceIsPaid
<1> HIDE DEF n, Q
<1>5. n \in Nat /\ n \in lo .. hi
  BY <1>1, <1>3, <1>4 DEF Pos
<1>6. CASE aToB
  <2> DEFINE k == L * (p - n)
  <2>1. k \in Nat
    BY <1>1, <1>4, <1>5, <1>6, MulIsNat
  <2>2. out = castToUnsigned(k \div Q)
    BY <1>1, <1>2, <1>3, <1>4, <1>5, <1>6 DEF GetDeltaAmountB, Q
  <2>3. out = k \div Q /\ out \in u64
    BY <2>2 DEF castToUnsigned
  <2> HIDE DEF k
  <2>4. out \in Nat
    <3>1. k \div Q \in Nat
      BY <1>1, <2>1, DivFacts
    <3> HIDE DEF out
    <3> QED
      BY <2>3, <3>1
  <2>5. out * Q <= k
    <3>1. ASSUME NEW j \in Nat
          PROVE  j * Q <= k <=> j <= k \div Q
      BY <1>1, <2>1, FloorIsGreatest
    <3> HIDE DEF out
    <3> QED
      BY <2>3, <2>4, <3>1
  <2> HIDE DEF out
  <2>6. L * (n - p) = -k /\ (-out) * Q = -(out * Q) /\ out * Q \in Nat
    BY <1>1, <1>5, <2>4 DEF k
  <2>7. L * (n - p) <= (-out) * Q
    BY <2>1, <2>5, <2>6
  <2>8. Paid(L, p, n, net, -out)
    BY <1>4, <1>6, <2>7 DEF Paid, Q
  <2> QED
    BY <1>5, <1>6, <2>3, <2>8 DEF out, n, L, p, lo, hi
<1>7. CASE ~aToB
  <2> DEFINE k == L * (n - p)
             d == p * n
  <2>1. k \in Nat /\ d \in Pos
    BY <1>1, <1>4, <1>5, <1>7, MulIsNat DEF Pos
  <2>2. out = castToUnsigned(k \div d)
    BY <1>1, <1>2, <1>3, <1>4, <1>5, <1>7 DEF GetDeltaAmountA, Pos
  <2>3. out = k \div d /\ out \in u64
    BY <2>2 DEF castToUnsigned
  <2> HIDE DEF k, d
  <2>4. out \in Nat
    <3>1. k \div d \in Nat
      BY <2>1, DivFacts
    <3> HIDE DEF out
    <3> QED
      BY <2>3, <3>1
  <2>5. out * d <= k
    <3>1. ASSUME NEW j \in Nat
          PROVE  j * d <= k <=> j <= k \div d
      BY <1>1, <2>1, FloorIsGreatest
    <3> HIDE DEF out
    <3> QED
      BY <2>3, <2>4, <3>1
  <2> HIDE DEF out
  <2>6. L * (p - n) = -k /\ (-out) * d = -(out * d) /\ out * d \in Nat
    <3>1. d \in Nat
      BY <2>1 DEF Pos
    <3> QED
      BY <1>1, <1>5, <2>4, <3>1 DEF k
  <2>7. L * (p - n) <= (-out) * d
    BY <2>1, <2>5, <2>6
  <2>8. Paid(L, p, n, -out, net)
    BY <1>4, <1>7, <2>7 DEF Paid, Q, d
  <2> QED
    BY <1>5, <1>7, <2>3, <2>8 DEF out, n, L, p, lo, hi
<1> QED
  BY <1>6, <1>7

-----------------------------------------------------------------------------
\* The invariant

\* What a swap leaves alone in the account.
Unmoved(p) ==
    /\ pool.baseFeeInfo = p.baseFeeInfo /\ pool.activationPoint = p.activationPoint
    /\ pool.collectFeeMode = p.collectFeeMode /\ pool.liquidity = p.liquidity
    /\ pool.sqrtMinPrice = p.sqrtMinPrice /\ pool.sqrtMaxPrice = p.sqrtMaxPrice

\* A compounding pool since it was p: the vaults hold its reserves and the fees, what
\* the traders have won is missing from them, and the product has not fallen.
CompoundingInv(p) ==
    /\ \A i \in 1 .. 2 : /\ pool.reserves[i] > 0
                        /\ vault[i] = pool.reserves[i] + owed[i]
                        /\ vault[i] + trader[i] = p.reserves[i]
    /\ p.reserves[1] * p.reserves[2] <= pool.reserves[1] * pool.reserves[2]

\* A concentrated pool since it was p: the vaults without the fees cover its liquidity on
\* both sides of the price, and the traders have paid for the way from p's price to this.
ConcentratedInv(p) ==
    /\ pool.sqrtPrice \in pool.sqrtMinPrice .. pool.sqrtMaxPrice
    /\ CoversA(pool.liquidity, pool.sqrtPrice, pool.sqrtMaxPrice, vault[1] - owed[1])
    /\ CoversB(pool.liquidity, pool.sqrtPrice, pool.sqrtMinPrice, vault[2] - owed[2])
    /\ CoversA(pool.liquidity, pool.sqrtPrice, p.sqrtPrice, -trader[1])
    /\ CoversB(pool.liquidity, pool.sqrtPrice, p.sqrtPrice, -trader[2])

DammTypes ==
    /\ pool \in Accounts
    /\ vault \in [1 .. 2 -> u64]
    /\ owed \in [1 .. 2 -> Nat]
    /\ trader \in [1 .. 2 -> Int]
    /\ point \in Nat

Since(p) ==
    /\ Unmoved(p)
    /\ IF p.collectFeeMode = CollectFeeModeCompounding THEN CompoundingInv(p) ELSE ConcentratedInv(p)

DammInv == DammTypes /\ \E p \in Pools : Since(p)

LEMMA OtherSide ==
    ASSUME NEW i \in 1 .. 2
    PROVE  other(i) \in 1 .. 2 /\ other(i) # i /\ other(other(i)) = i /\ 1 .. 2 = {i, other(i)}
BY DEF other

\* What an exchange of tokens does to the vaults, the fees set aside and the traders.
Exchanged(i, in, out, feeIn, feeOut) ==
    /\ vault' \in [1 .. 2 -> u64] /\ owed' \in [1 .. 2 -> Nat] /\ trader' \in [1 .. 2 -> Int]
    /\ point' \in Nat
    /\ vault'[i] = vault[i] + in /\ vault'[other(i)] = vault[other(i)] - out
    /\ owed'[i] = owed[i] + feeIn /\ owed'[other(i)] = owed[other(i)] + feeOut
    /\ trader'[i] = trader[i] - in /\ trader'[other(i)] = trader[other(i)] + out

LEMMA ExchangeMoves ==
    ASSUME DammTypes, NEW i \in 1 .. 2, NEW in \in Nat, NEW out \in Nat, NEW feeIn \in Nat,
           NEW feeOut \in Nat, Exchange(i, in, out, feeIn, feeOut)
    PROVE  Exchanged(i, in, out, feeIn, feeOut)
<1> DEFINE o == other(i)
<1>1. o \in 1 .. 2 /\ o # i
  BY OtherSide
<1>2. /\ out <= vault[o] /\ vault[i] + in <= U64Max
      /\ vault'  = [vault EXCEPT ![i] = @ + in, ![o] = @ - out]
      /\ owed'   = [owed EXCEPT ![i] = @ + feeIn, ![o] = @ + feeOut]
      /\ trader' = [trader EXCEPT ![i] = @ - in, ![o] = @ + out]
      /\ point' = point
  BY DEF Exchange
<1> HIDE DEF o
<1>3. /\ vault[i] \in u64 /\ vault[o] \in u64 /\ owed[i] \in Nat /\ owed[o] \in Nat
      /\ trader[i] \in Int /\ trader[o] \in Int /\ U64Max \in Nat
  BY <1>1, DammMathAssumption DEF DammTypes, U64Max
<1>4. vault[i] + in \in u64 /\ vault[o] - out \in u64
  BY <1>2, <1>3 DEF u64
<1>5. vault' \in [1 .. 2 -> u64] /\ vault'[i] = vault[i] + in /\ vault'[o] = vault[o] - out
  BY <1>1, <1>2, <1>4 DEF DammTypes
<1>6. owed' \in [1 .. 2 -> Nat] /\ owed'[i] = owed[i] + feeIn /\ owed'[o] = owed[o] + feeOut
  BY <1>1, <1>2, <1>3 DEF DammTypes
<1>7. trader' \in [1 .. 2 -> Int] /\ trader'[i] = trader[i] - in /\ trader'[o] = trader[o] + out
  BY <1>1, <1>2, <1>3 DEF DammTypes
<1> QED
  BY <1>2, <1>5, <1>6, <1>7 DEF o, DammTypes, Exchanged

\* A swap a compounding quote describes keeps the invariant, on whichever side its fee is.
LEMMA SettlementKeepsInv ==
    ASSUME DammTypes, NEW p \in Pools, Since(p), p.collectFeeMode = CollectFeeModeCompounding,
           NEW i \in 1 .. 2, NEW onInput \in BOOLEAN, NEW r, NEW gross,
           Settles(pool.reserves[i], pool.reserves[other(i)], onInput, r, gross),
           SettleCompounding(i, onInput, r, gross)
    PROVE  DammInv'
<1> DEFINE o     == other(i)
           Ri    == pool.reserves[i]
           Ro    == pool.reserves[o]
           aside == r.fees.claiming + r.fees.protocol + r.fees.referral
           kept  == r.fees.compounding
           keptI == IF onInput THEN kept ELSE 0
           keptO == IF onInput THEN 0 ELSE kept
           feeI  == IF onInput THEN aside ELSE 0
           feeO  == IF onInput THEN 0 ELSE aside
<1>1. o \in 1 .. 2 /\ o # i /\ 1 .. 2 = {i, o}
  BY OtherSide
<1>2. /\ Exchange(i, r.included, r.out, feeI, feeO)
      /\ pool' = [pool EXCEPT !.reserves[i] = @ + r.excluded + keptI, !.reserves[o] = @ - gross + keptO]
  BY Zenon DEF SettleCompounding
<1>3. Unmoved(p) /\ CompoundingInv(p)
  BY DEF Since
<1>4. /\ Ri \in Pos /\ Ro \in Pos /\ p.reserves[i] \in Nat /\ p.reserves[o] \in Nat
  BY <1>1, <1>3, PoolAssumption DEF CompoundingInv, DammTypes, Accounts, Pos
<1>5. /\ r.included \in Nat /\ r.out \in Nat /\ Fair(Ri, Ro, r.excluded, gross)
      /\ aside \in Nat /\ kept \in Nat
      /\ IF onInput THEN r.out = gross /\ r.included = r.excluded + (aside + kept)
                    ELSE r.included = r.excluded /\ gross = r.out + (aside + kept)
  BY DEF Settles, Total
<1>6. r.excluded \in Nat /\ gross \in Nat /\ gross < Ro
  BY <1>4, <1>5 DEF Fair, Pos
<1> HIDE DEF aside, kept
<1>7. keptI \in Nat /\ keptO \in Nat /\ feeI \in Nat /\ feeO \in Nat
  BY <1>5
<1>8. r.included = r.excluded + (feeI + keptI) /\ gross = r.out + (feeO + keptO)
  BY <1>5, <1>6
<1> HIDE DEF keptI, keptO, feeI, feeO, o
<1>9. /\ vault' \in [1 .. 2 -> u64] /\ owed' \in [1 .. 2 -> Nat] /\ trader' \in [1 .. 2 -> Int]
      /\ point' \in Nat
      /\ vault'[i] = vault[i] + r.included /\ vault'[o] = vault[o] - r.out
      /\ owed'[i] = owed[i] + feeI /\ owed'[o] = owed[o] + feeO
      /\ trader'[i] = trader[i] - r.included /\ trader'[o] = trader[o] + r.out
  <2>1. r.included \in Nat /\ r.out \in Nat /\ Exchange(i, r.included, r.out, feeI, feeO)
    BY <1>2, <1>5
  <2> DEFINE in == r.included
             out == r.out
  <2>2. in \in Nat /\ out \in Nat /\ Exchange(i, in, out, feeI, feeO)
    BY <2>1
  <2> HIDE DEF in, out
  <2>3. Exchanged(i, in, out, feeI, feeO)
    BY <1>7, <2>2, ExchangeMoves
  <2> QED
    BY <2>3 DEF Exchanged, o, in, out
<1> DEFINE Si == Ri + r.excluded + keptI
           So == Ro - gross + keptO
<1>10. Si \in Nat /\ So \in Nat /\ Si > 0 /\ So > 0 /\ Si >= Ri + r.excluded /\ So >= Ro - gross
  BY <1>4, <1>6, <1>7 DEF Pos
<1>11. /\ pool' \in Accounts
       /\ pool'.reserves[i] = Si /\ pool'.reserves[o] = So
       /\ pool'.baseFeeInfo = pool.baseFeeInfo /\ pool'.activationPoint = pool.activationPoint
       /\ pool'.collectFeeMode = pool.collectFeeMode /\ pool'.liquidity = pool.liquidity
       /\ pool'.sqrtMinPrice = pool.sqrtMinPrice /\ pool'.sqrtMaxPrice = pool.sqrtMaxPrice
  BY <1>1, <1>2, <1>10 DEF DammTypes, Accounts
<1>12. Ri * Ro <= Si * So
  <2> HIDE DEF Ri, Ro, Si, So
  <2> QED
    BY <1>4, <1>5, <1>10, ProductKept
<1>13. p.reserves[1] * p.reserves[2] <= pool'.reserves[1] * pool'.reserves[2]
  <2>1. p.reserves[1] * p.reserves[2] <= Ri * Ro
    <3>1. pool.reserves[1] * pool.reserves[2] = Ri * Ro
      <4>1. CASE i = 1
        BY <4>1 DEF o, other
      <4>2. CASE i = 2
        BY <1>4, <4>2 DEF o, other, Pos
      <4> QED
        BY <4>1, <4>2
    <3> QED
      BY <1>3, <3>1 DEF CompoundingInv
  <2>2. pool'.reserves[1] * pool'.reserves[2] = Si * So
    <3> HIDE DEF Si, So
    <3>1. CASE i = 1
      BY <1>11, <3>1 DEF o, other
    <3>2. CASE i = 2
      BY <1>10, <1>11, <3>2 DEF o, other
    <3> QED
      BY <3>1, <3>2
  <2>3. p.reserves[1] * p.reserves[2] \in Nat /\ Ri * Ro \in Nat /\ Si * So \in Nat
    <3>1. p.reserves[1] \in Nat /\ p.reserves[2] \in Nat
      BY PoolAssumption DEF Accounts
    <3> HIDE DEF Ri, Ro, Si, So
    <3> QED
      BY <1>4, <1>10, <3>1, MulIsNat DEF Pos
  <2> HIDE DEF Ri, Ro, Si, So
  <2> QED
    BY <1>12, <2>1, <2>2, <2>3
<1>14. \A j \in {i, o} : /\ pool'.reserves[j] > 0
                         /\ vault'[j] = pool'.reserves[j] + owed'[j]
                         /\ vault'[j] + trader'[j] = p.reserves[j]
  <2>1. /\ vault[i] = Ri + owed[i] /\ vault[i] + trader[i] = p.reserves[i]
        /\ vault[o] = Ro + owed[o] /\ vault[o] + trader[o] = p.reserves[o]
    BY <1>1, <1>3 DEF CompoundingInv
  <2>2. /\ owed[i] \in Nat /\ owed[o] \in Nat /\ trader[i] \in Int /\ trader[o] \in Int
        /\ Ri \in Nat /\ Ro \in Nat
    BY <1>1, <1>4 DEF DammTypes, Pos
  <2> HIDE DEF Ri, Ro
  <2>3. /\ vault'[i] = Si + owed'[i] /\ vault'[i] + trader'[i] = p.reserves[i]
    <3>1. vault'[i] = Ri + owed[i] + r.included /\ vault'[i] + trader'[i] = vault[i] + trader[i]
      BY <1>5, <1>9, <2>1, <2>2
    <3>2. Si = Ri + r.included - feeI
      BY <1>5, <1>6, <1>7, <1>8, <2>2
    <3> HIDE DEF Si
    <3> QED
      BY <1>5, <1>7, <1>9, <2>1, <2>2, <3>1, <3>2
  <2>4. /\ vault'[o] = So + owed'[o] /\ vault'[o] + trader'[o] = p.reserves[o]
    <3>1. vault'[o] = Ro + owed[o] - r.out /\ vault'[o] + trader'[o] = vault[o] + trader[o]
      BY <1>5, <1>9, <2>1, <2>2
    <3>2. So = Ro - r.out - feeO
      BY <1>5, <1>6, <1>7, <1>8, <2>2
    <3> HIDE DEF So
    <3> QED
      BY <1>5, <1>7, <1>9, <2>1, <2>2, <3>1, <3>2
  <2> HIDE DEF Si, So
  <2> QED
    BY <1>10, <1>11, <2>3, <2>4
<1>15. CompoundingInv(p)'
  BY <1>1, <1>13, <1>14 DEF CompoundingInv
<1>16. Unmoved(p)'
  BY <1>3, <1>11 DEF Unmoved
<1>17. Since(p)'
  BY <1>15, <1>16 DEF Since
<1>18. DammTypes'
  BY <1>9, <1>11 DEF DammTypes
<1> QED
  BY <1>17, <1>18 DEF DammInv

\* The quoters of a pool: built with a rate below 100%, and of the pool as it is.
LEMMA QuotersFit ==
    ASSUME DammTypes, NEW qt \in Quoters
    PROVE  \/ /\ qt.kind = "compounding" /\ pool.collectFeeMode = CollectFeeModeCompounding
              /\ qt.reserves = pool.reserves /\ qt.feeNumerator \in Rates
              /\ qt.onInput \in BOOLEAN /\ qt.split \in Splits
           \/ /\ qt.kind = "concentrated" /\ pool.collectFeeMode # CollectFeeModeCompounding
              /\ qt.p.sqrtPrice = pool.sqrtPrice /\ qt.p.liquidity = pool.liquidity
              /\ qt.p.sqrtMinPrice = pool.sqrtMinPrice /\ qt.p.sqrtMaxPrice = pool.sqrtMaxPrice
              /\ qt.p.collectFeeMode = pool.collectFeeMode /\ qt.p.baseFeeNumerator \in Rates
              /\ qt.p.volatilityAccumulator \in Nat /\ qt.p.binStep \in Nat
              /\ qt.p.variableFeeControl \in Nat /\ qt.p.dynamicFeeInitialized \in BOOLEAN
<1> DEFINE num == CurrentBaseFeeNumerator(ParseDAMMBaseFee(pool.baseFeeInfo), point, pool.activationPoint)
           from == FromDAMMPool(pool, point)
           conc == [sqrtPrice |-> pool.sqrtPrice, sqrtMinPrice |-> pool.sqrtMinPrice,
                    sqrtMaxPrice |-> pool.sqrtMaxPrice, liquidity |-> pool.liquidity,
                    collectFeeMode |-> pool.collectFeeMode, feeVersion |-> pool.feeVersion,
                    baseFeeNumerator |-> num,
                    dynamicFeeInitialized |-> pool.dynamicFee.initialized,
                    volatilityAccumulator |-> pool.dynamicFee.volatilityAccumulator,
                    binStep |-> pool.dynamicFee.binStep,
                    variableFeeControl |-> pool.dynamicFee.variableFeeControl]
<1>1. /\ pool.baseFeeInfo \in Blobs /\ pool.activationPoint \in Nat /\ point \in Nat
      /\ pool.split \in Splits
      /\ pool.dynamicFee \in [initialized : BOOLEAN, volatilityAccumulator : Nat, binStep : Nat,
                              variableFeeControl : Nat]
  BY DEF DammTypes, Accounts
<1>2. num = Err \/ num \in Rates
  BY <1>1, BaseFeeFits
<1>3. from = IF num = Err THEN Failed
             ELSE IF pool.collectFeeMode = CollectFeeModeCompounding
             THEN DAMMCompounding(pool.reserves, num, FALSE, [pool.split EXCEPT !.hasReferral = FALSE])
             ELSE DAMMConcentrated(conc)
  BY Zenon DEF FromDAMMPool
<1>4. from # Failed
  BY DEF Quoters
<1>5. num \in Rates
  BY <1>2, <1>3, <1>4
<1>6. num # Err
  BY <1>3, <1>4
<1> HIDE DEF num, from
<1>7. CASE pool.collectFeeMode = CollectFeeModeCompounding
  <2>1. from = DAMMCompounding(pool.reserves, num, FALSE, [pool.split EXCEPT !.hasReferral = FALSE])
    BY <1>3, <1>6, <1>7
  <2>2. from.kind = "compounding" /\ from.reserves = pool.reserves /\ from.feeNumerator = num
    BY <2>1 DEF DAMMCompounding
  <2>3. from.kind # "concentrated"
    BY <2>2
  <2>4. PICK c \in BOOLEAN \X {FALSE, pool.split.hasReferral} :
            qt = DAMMCompounding(from.reserves, from.feeNumerator, c[1],
                                 [pool.split EXCEPT !.hasReferral = c[2]])
    BY <1>4, <2>3 DEF Quoters, from
  <2>5. [pool.split EXCEPT !.hasReferral = c[2]] \in Splits /\ c[1] \in BOOLEAN
    BY <1>1 DEF Splits
  <2> QED
    BY <1>5, <1>7, <2>2, <2>4, <2>5 DEF DAMMCompounding
<1>8. CASE pool.collectFeeMode # CollectFeeModeCompounding
  <2>1. from = DAMMConcentrated(conc)
    BY <1>3, <1>6, <1>8
  <2>2. from.kind = "concentrated" /\ from.p = conc
    BY <2>1 DEF DAMMConcentrated
  <2>3. qt = from
    BY <1>4, <2>2 DEF Quoters, from
  <2>4. /\ conc.sqrtPrice = pool.sqrtPrice /\ conc.liquidity = pool.liquidity
        /\ conc.sqrtMinPrice = pool.sqrtMinPrice /\ conc.sqrtMaxPrice = pool.sqrtMaxPrice
        /\ conc.collectFeeMode = pool.collectFeeMode /\ conc.baseFeeNumerator = num
        /\ conc.volatilityAccumulator = pool.dynamicFee.volatilityAccumulator
        /\ conc.binStep = pool.dynamicFee.binStep
        /\ conc.variableFeeControl = pool.dynamicFee.variableFeeControl
        /\ conc.dynamicFeeInitialized = pool.dynamicFee.initialized
    OBVIOUS
  <2> HIDE DEF conc
  <2>5. /\ conc.volatilityAccumulator \in Nat /\ conc.binStep \in Nat
        /\ conc.variableFeeControl \in Nat /\ conc.dynamicFeeInitialized \in BOOLEAN
    BY <1>1, <2>4
  <2> QED
    BY <1>5, <1>8, <2>2, <2>3, <2>4, <2>5
<1> QED
  BY <1>7, <1>8

-----------------------------------------------------------------------------
\* Initial states and steps

\* A new pool: its vaults hold its liquidity rounded up, and nobody has traded.
LEMMA InitKeepsInv == Init => DammInv
<1> SUFFICES ASSUME Init PROVE DammInv
  OBVIOUS
<1>1. /\ pool \in Pools /\ pool \in Accounts /\ vault = principal(pool, TRUE)
      /\ owed = <<0, 0>> /\ trader = <<0, 0>> /\ point = 0
  BY PoolAssumption DEF Init
<1>2. \A i \in 1 .. 2 : owed[i] = 0 /\ trader[i] = 0
  BY <1>1
<1>3. \A i \in 1 .. 2 : vault[i] \in u64
  BY <1>1, PoolAssumption
<1>4. Unmoved(pool)
  BY DEF Unmoved
<1>5. point \in Nat /\ owed \in [1 .. 2 -> Nat] /\ trader \in [1 .. 2 -> Int]
  BY <1>1
<1>6. CASE pool.collectFeeMode = CollectFeeModeCompounding
  <2>1. vault = pool.reserves
    BY <1>1, <1>6 DEF principal
  <2>2. pool.reserves \in [1 .. 2 -> Nat] /\ \A i \in 1 .. 2 : pool.reserves[i] > 0
    BY <1>1, <1>6, PoolAssumption DEF Accounts
  <2>3. pool.reserves[1] * pool.reserves[2] \in Nat
    BY <2>2, MulIsNat
  <2>4. CompoundingInv(pool)
    BY <1>2, <2>1, <2>2, <2>3 DEF CompoundingInv
  <2>5. vault \in [1 .. 2 -> u64]
    BY <1>3, <2>1, <2>2
  <2> QED
    BY <1>1, <1>4, <1>5, <1>6, <2>4, <2>5 DEF DammInv, DammTypes, Since
<1>7. CASE pool.collectFeeMode # CollectFeeModeCompounding
  <2> DEFINE L   == pool.liquidity
             p   == pool.sqrtPrice
             low == pool.sqrtMinPrice
             top == pool.sqrtMaxPrice
             a   == GetDeltaAmountA(p, top, L, TRUE)
             b   == GetDeltaAmountB(low, p, L, TRUE)
  <2>1. vault = <<a, b>>
    BY <1>1, <1>7, Zenon DEF principal
  <2>2. /\ L \in Nat /\ p \in Pos /\ low \in Pos /\ top \in Pos /\ low <= p /\ p <= top
        /\ p \in low .. top
    <3>1. low > 0 /\ p \in low .. top
      BY <1>1, <1>7, PoolAssumption
    <3>2. L \in Nat /\ p \in Nat /\ low \in Nat /\ top \in Nat
      BY <1>1 DEF Accounts
    <3> HIDE DEF L, p, low, top
    <3> QED
      BY <3>1, <3>2 DEF Pos
  <2>3. a \in u64 /\ b \in u64
    <3> HIDE DEF a, b
    <3> QED
      BY <1>3, <2>1
  <2>4. vault \in [1 .. 2 -> u64]
    <3> HIDE DEF a, b
    <3> QED
      BY <2>1, <2>3
  <2>5. L * (top - p) <= a * (p * top)
    <3> DEFINE n == L * (top - p)
               d == p * top
    <3>1. n \in Nat /\ d \in Pos
      BY <2>2 DEF Pos
    <3>2. ~(p <= 0 \/ top <= 0)
      BY <2>2 DEF Pos
    <3>3. a = castToUnsigned(divCeil(n, d))
      BY <3>2, Zenon DEF GetDeltaAmountA
    <3>4. Err \notin u64
      BY DammMathAssumption DEF Err, u64, U64Max
    <3>5. a = divCeil(n, d)
      BY <2>3, <3>3, <3>4, Zenon DEF castToUnsigned
    <3> HIDE DEF n, d, a
    <3>6. a = (n + d - 1) \div d
      BY <3>5 DEF divCeil
    <3>7. a \in Nat
      BY <2>3, DammMathAssumption DEF u64, U64Max
    <3>8. n <= a * d
      BY <3>1, <3>6, <3>7, CeilingIsLeast
    <3> QED
      BY <3>8 DEF n, d
  <2>6. L * (p - low) <= b * (Q64 * Q64)
    <3> DEFINE n == L * (p - low)
               d == Q64 * Q64
    <3>1. n \in Nat /\ d \in Pos
      BY <2>2, DammMathAssumption DEF Pos
    <3>2. ~(p < low)
      BY <2>2 DEF Pos
    <3>3. b = castToUnsigned(divCeil(n, d))
      BY <3>2, Zenon DEF GetDeltaAmountB
    <3>4. Err \notin u64
      BY DammMathAssumption DEF Err, u64, U64Max
    <3>5. b = divCeil(n, d)
      BY <2>3, <3>3, <3>4, Zenon DEF castToUnsigned
    <3> HIDE DEF n, d, b
    <3>6. b = (n + d - 1) \div d
      BY <3>5 DEF divCeil
    <3>7. b \in Nat
      BY <2>3, DammMathAssumption DEF u64, U64Max
    <3>8. n <= b * d
      BY <3>1, <3>6, <3>7, CeilingIsLeast
    <3> QED
      BY <3>8 DEF n, d
  <2>7. CoversA(L, p, top, vault[1] - owed[1]) /\ CoversB(L, p, low, vault[2] - owed[2])
    <3>1. vault[1] - owed[1] = a /\ vault[2] - owed[2] = b
      <4> HIDE DEF a, b
      <4> QED
        BY <1>2, <2>1, <2>3, DammMathAssumption DEF u64, U64Max
    <3> HIDE DEF L, p, low, top, a, b
    <3> QED
      BY <2>5, <2>6, <3>1 DEF CoversA, CoversB
  <2>8. CoversA(L, p, p, -trader[1]) /\ CoversB(L, p, p, -trader[2])
    <3> HIDE DEF L, p, low, top, a, b
    <3>1. p - p = 0 /\ L * 0 = 0 /\ 0 * (p * p) = 0 /\ 0 * (Q64 * Q64) = 0
      BY <2>2, DammMathAssumption DEF Pos
    <3>2. -trader[1] = 0 /\ -trader[2] = 0
      BY <1>2
    <3> QED
      BY <3>1, <3>2 DEF CoversA, CoversB
  <2>9. ConcentratedInv(pool)
    BY <2>2, <2>7, <2>8, Zenon DEF ConcentratedInv
  <2> QED
    BY <1>1, <1>4, <1>5, <1>7, <2>4, <2>9 DEF DammInv, DammTypes, Since
<1> QED
  BY <1>6, <1>7

\* An exact-in swap on a compounding pool.
LEMMA ExactInKeepsInv ==
    ASSUME DammInv, NEW i \in 1 .. 2, NEW amountIn \in Amounts, SwapExactIn(i, amountIn)
    PROVE  DammInv'
<1>1. PICK p \in Pools : Since(p)
  BY DEF DammInv
<1>2. DammTypes /\ amountIn \in u64
  BY PoolAssumption DEF DammInv
<1>3. PICK qt \in Quoters :
          /\ qt.kind = "compounding"
          /\ \E r \in {QuoteExactInCompounding(amountIn, qt.reserves, i, qt.feeNumerator, qt.onInput, qt.split)} :
                 /\ r # Failed
                 /\ SettleCompounding(i, qt.onInput, r, compoundingFromAmountIn(qt.reserves, i, r.excluded))
  BY Zenon DEF SwapExactIn
<1> DEFINE R     == pool.reserves
           num   == qt.feeNumerator
           onIn  == qt.onInput
           split == qt.split
           r     == QuoteExactInCompounding(amountIn, R, i, num, onIn, split)
           gross == compoundingFromAmountIn(R, i, r.excluded)
<1>4. /\ qt.reserves = R /\ pool.collectFeeMode = CollectFeeModeCompounding
      /\ num \in Rates /\ onIn \in BOOLEAN /\ split \in Splits
  BY <1>2, <1>3, QuotersFit
<1>5. SettleCompounding(i, onIn, r, gross)
  BY <1>3, <1>4, Zenon
<1>6. p.collectFeeMode = CollectFeeModeCompounding /\ CompoundingInv(p)
  BY <1>1, <1>4 DEF Since, Unmoved
<1>7. other(i) \in 1 .. 2
  BY OtherSide
<1>8. R[i] \in u64 \ {0} /\ R[other(i)] \in u64 \ {0} /\ vault[i] >= R[i] /\ vault[i] \in u64
  <2>1. \A j \in 1 .. 2 : R[j] \in Nat /\ R[j] > 0 /\ vault[j] = R[j] + owed[j] /\ owed[j] \in Nat /\ vault[j] \in u64
    BY <1>2, <1>6 DEF CompoundingInv, DammTypes, Accounts
  <2> HIDE DEF R
  <2>2. \A j \in 1 .. 2 : R[j] \in u64 \ {0} /\ vault[j] >= R[j]
    BY <2>1, DammMathAssumption DEF u64, U64Max
  <2> QED
    BY <1>7, <2>1, <2>2
<1>9. r.included = amountIn
  <2>1. CASE onIn
    BY <2>1, <1>3, <1>4, Zenon DEF QuoteExactInCompounding, swapResult
  <2>2. CASE ~onIn
    <3>1. r # Failed
      BY <1>3, <1>4, Zenon
    <3> DEFINE out   == compoundingFromAmountIn(R, i, amountIn)
               onOut == GetFeeOnAmount(out, num, split)
    <3>2. r = IF out = Err THEN Failed ELSE IF onOut = Failed THEN Failed
              ELSE swapResult(amountIn, amountIn, onOut.amount, onOut.fees)
      <4>1. amountIn # Err
        BY <1>2, DammMathAssumption DEF Err, u64, U64Max
      <4> QED
        BY <2>2, <4>1, Zenon DEF QuoteExactInCompounding
    <3> HIDE DEF r, onOut, out
    <3> QED
      BY <3>1, <3>2, Zenon DEF swapResult
  <2> QED
    BY <2>1, <2>2
<1>10. vault[i] + r.included <= U64Max
  BY <1>5, Zenon DEF SettleCompounding, Exchange
<1>11. R[i] + amountIn <= U64Max
  BY <1>2, <1>8, <1>9, <1>10, DammMathAssumption DEF u64, U64Max
<1>12. Settles(R[i], R[other(i)], onIn, r, gross)
  <2> DEFINE Ri == R[i]
             Ro == R[other(i)]
  <2>1. /\ Ri \in u64 \ {0} /\ Ro \in u64 \ {0} /\ Ri + amountIn <= U64Max
        /\ R[i] = Ri /\ R[other(i)] = Ro
    BY <1>8, <1>11
  <2> HIDE DEF Ri, Ro, R, num, onIn, split
  <2>2. Settles(Ri, Ro, onIn, r, gross)
    BY <1>2, <1>4, <2>1, ExactInSettles
  <2> QED
    BY <2>1, <2>2
<1> HIDE DEF num, onIn, split, r, gross
<1> QED
  BY <1>1, <1>2, <1>4, <1>5, <1>6, <1>12, SettlementKeepsInv

\* An exact-out swap on a compounding pool.
LEMMA ExactOutKeepsInv ==
    ASSUME DammInv, NEW i \in 1 .. 2, NEW amountOut \in Amounts, SwapExactOut(i, amountOut)
    PROVE  DammInv'
<1>1. PICK p \in Pools : Since(p)
  BY DEF DammInv
<1>2. DammTypes /\ amountOut \in u64
  BY PoolAssumption DEF DammInv
<1>3. PICK qt \in Quoters :
          /\ qt.kind = "compounding"
          /\ \E r \in {QuoteExactOutCompounding(amountOut, qt.reserves, i, qt.feeNumerator, qt.onInput, qt.split)} :
                 /\ r # Failed
                 /\ SettleCompounding(i, qt.onInput, r,
                        IF qt.onInput THEN amountOut ELSE GetIncludedFeeAmount(qt.feeNumerator, amountOut).amount)
  BY Zenon DEF SwapExactOut
<1> DEFINE R     == pool.reserves
           num   == qt.feeNumerator
           onIn  == qt.onInput
           split == qt.split
           r     == QuoteExactOutCompounding(amountOut, R, i, num, onIn, split)
           gross == IF onIn THEN amountOut ELSE GetIncludedFeeAmount(num, amountOut).amount
<1>4. /\ qt.reserves = R /\ pool.collectFeeMode = CollectFeeModeCompounding
      /\ num \in Rates /\ onIn \in BOOLEAN /\ split \in Splits
  BY <1>2, <1>3, QuotersFit
<1>5. r # Failed /\ SettleCompounding(i, onIn, r, gross)
  BY <1>3, <1>4, Zenon
<1>6. p.collectFeeMode = CollectFeeModeCompounding /\ CompoundingInv(p)
  BY <1>1, <1>4 DEF Since, Unmoved
<1>7. other(i) \in 1 .. 2
  BY OtherSide
<1>8. R[i] \in u64 \ {0} /\ R[other(i)] \in u64 \ {0}
  <2>1. \A j \in 1 .. 2 : R[j] \in Nat /\ R[j] > 0 /\ vault[j] = R[j] + owed[j] /\ owed[j] \in Nat /\ vault[j] \in u64
    BY <1>2, <1>6 DEF CompoundingInv, DammTypes, Accounts
  <2> HIDE DEF R
  <2>2. \A j \in 1 .. 2 : R[j] \in u64 \ {0}
    BY <2>1, DammMathAssumption DEF u64, U64Max
  <2> QED
    BY <1>7, <2>2
<1>9. Settles(R[i], R[other(i)], onIn, r, gross)
  <2> DEFINE Ri == R[i]
             Ro == R[other(i)]
  <2>1. Ri \in u64 \ {0} /\ Ro \in u64 \ {0} /\ R[i] = Ri /\ R[other(i)] = Ro
    BY <1>8
  <2> HIDE DEF Ri, Ro, R, num, onIn, split
  <2>2. Settles(Ri, Ro, onIn, r, gross)
    BY <1>2, <1>4, <1>5, <2>1, ExactOutSettles
  <2> QED
    BY <2>1, <2>2
<1> HIDE DEF num, onIn, split, r, gross
<1> QED
  BY <1>1, <1>2, <1>4, <1>5, <1>6, <1>9, SettlementKeepsInv

\* A swap on a concentrated pool pays for the move of the price, whichever way it goes.
LEMMA ConcentratedKeepsInv ==
    ASSUME DammInv, NEW i \in 1 .. 2, NEW amountIn \in Amounts, SwapConcentrated(i, amountIn)
    PROVE  DammInv'
<1>1. PICK p0 \in Pools : Since(p0)
  BY DEF DammInv
<1>2. DammTypes /\ amountIn \in u64
  BY PoolAssumption DEF DammInv
<1> DEFINE aToB == i = 1
<1>3. PICK qt \in Quoters :
        /\ qt.kind = "concentrated"
        /\ QuoteConcentratedExactIn(amountIn, aToB, qt.p) # Err
        /\ LET net == netInput(amountIn, aToB, qt.p)
               out == QuoteConcentratedExactIn(amountIn, aToB, qt.p)
           IN  /\ Exchange(i, amountIn, out, amountIn - net, concentratedOutput(net, aToB, qt.p) - out)
               /\ pool' = [pool EXCEPT !.sqrtPrice =
                              GetNextSqrtPriceFromInput(@, pool.liquidity, net, aToB)]
  BY Zenon DEF SwapConcentrated
<1> DEFINE c     == qt.p
           L     == pool.liquidity
           p     == pool.sqrtPrice
           net   == netInput(amountIn, aToB, c)
           gross == concentratedOutput(net, aToB, c)
           out   == QuoteConcentratedExactIn(amountIn, aToB, c)
           n     == GetNextSqrtPriceFromInput(p, L, net, aToB)
<1>4. out # Err /\ Exchange(i, amountIn, out, amountIn - net, gross - out)
  BY <1>3, Zenon
<1>5. pool' = [pool EXCEPT !.sqrtPrice = n]
  BY <1>2, <1>3 DEF DammTypes, Accounts
<1>6. /\ pool.collectFeeMode # CollectFeeModeCompounding
      /\ c.sqrtPrice = p /\ c.liquidity = L
      /\ c.sqrtMinPrice = pool.sqrtMinPrice /\ c.sqrtMaxPrice = pool.sqrtMaxPrice
      /\ c.baseFeeNumerator \in Rates
      /\ c.volatilityAccumulator \in Nat /\ c.binStep \in Nat
      /\ c.variableFeeControl \in Nat /\ c.dynamicFeeInitialized \in BOOLEAN
  BY <1>2, <1>3, QuotersFit
<1>7. Unmoved(p0) /\ ConcentratedInv(p0) /\ p0.collectFeeMode # CollectFeeModeCompounding
  BY <1>1, <1>6 DEF Since, Unmoved
<1>8. /\ L \in Nat /\ pool.sqrtMinPrice \in Pos /\ pool.sqrtMaxPrice \in Pos
      /\ p \in Pos /\ p0.sqrtPrice \in Pos /\ p \in pool.sqrtMinPrice .. pool.sqrtMaxPrice
  <2>1. /\ L \in Nat /\ pool.sqrtMinPrice \in Nat /\ pool.sqrtMaxPrice \in Nat
        /\ p0.sqrtPrice \in Nat /\ p0.sqrtMinPrice \in Nat /\ p0.sqrtMaxPrice \in Nat
    BY <1>2, PoolAssumption DEF DammTypes, Accounts
  <2>2. p0.sqrtMinPrice > 0 /\ p0.sqrtPrice \in p0.sqrtMinPrice .. p0.sqrtMaxPrice
    BY <1>7, PoolAssumption
  <2>3. p \in pool.sqrtMinPrice .. pool.sqrtMaxPrice /\ pool.sqrtMinPrice = p0.sqrtMinPrice
    BY <1>7 DEF ConcentratedInv, Unmoved
  <2> QED
    BY <2>1, <2>2, <2>3 DEF Pos
<1>9. Curves(c)
  <2> HIDE DEF c, L, p
  <2> QED
    BY <1>6, <1>8 DEF Curves, Pos
<1>10. net \in 0 .. amountIn /\ net \in Nat
  <2> HIDE DEF c
  <2>1. net \in 0 .. amountIn
    BY <1>2, <1>9, NetInputFits
  <2> QED
    BY <1>2, <2>1, DammMathAssumption DEF u64, U64Max
<1>11. gross # Err /\ gross \in u64 /\ out \in 0 .. gross
  <2> HIDE DEF c, net
  <2>1. gross # Err
    BY <1>4, Zenon DEF net, QuoteConcentratedExactIn
  <2>2. gross \in u64
    BY <1>9, <1>10, <2>1, ConcentratedPays
  <2>3. out = gross \/ out = GetExcludedFeeAmount(totalTradingFeeNumerator(c), gross).amount
    BY <1>4, <2>1, Zenon DEF net, QuoteConcentratedExactIn
  <2> DEFINE e == GetExcludedFeeAmount(totalTradingFeeNumerator(c), gross)
  <2>4. e.fee \in 0 .. gross /\ e.amount = gross - e.fee
    <3>1. totalTradingFeeNumerator(c) \in Rates
      BY <1>9, TotalFeeFits
    <3> DEFINE num == totalTradingFeeNumerator(c)
    <3>2. num \in Rates
      BY <3>1
    <3> HIDE DEF num, gross
    <3>3. LET x == GetExcludedFeeAmount(num, gross) IN x.fee \in 0 .. gross /\ x.amount = gross - x.fee
      BY <2>2, <3>2, ExcludedFits
    <3> QED
      BY <3>3 DEF num
  <2> HIDE DEF e, gross, out
  <2>5. out = gross \/ out = e.amount
    BY <2>3 DEF e
  <2> QED
    BY <2>1, <2>2, <2>4, <2>5, DammMathAssumption DEF u64, U64Max
<1>12. /\ n \in pool.sqrtMinPrice .. pool.sqrtMaxPrice
       /\ aToB => Paid(L, p, n, net, -gross)
       /\ ~aToB => Paid(L, p, n, -gross, net)
  <2>1. LET m == GetNextSqrtPriceFromInput(c.sqrtPrice, c.liquidity, net, aToB)
        IN  /\ m \in c.sqrtMinPrice .. c.sqrtMaxPrice
            /\ aToB => Paid(c.liquidity, c.sqrtPrice, m, net, -gross)
            /\ ~aToB => Paid(c.liquidity, c.sqrtPrice, m, -gross, net)
    <3> HIDE DEF c, net
    <3>1. concentratedOutput(net, aToB, c) # Err
      BY <1>11
    <3> QED
      BY <1>9, <1>10, <3>1, ConcentratedPays
  <2> HIDE DEF c, net, gross
  <2> QED
    BY <1>6, <2>1
<1> HIDE DEF c, net, gross, out, n
<1>13. amountIn \in Nat /\ gross \in Nat /\ out \in Nat /\ amountIn - net \in Nat /\ gross - out \in Nat
  BY <1>2, <1>10, <1>11, DammMathAssumption DEF u64, U64Max
<1> DEFINE o    == other(i)
           feeI == amountIn - net
           feeO == gross - out
<1>14. /\ vault' \in [1 .. 2 -> u64] /\ owed' \in [1 .. 2 -> Nat] /\ trader' \in [1 .. 2 -> Int]
       /\ point' \in Nat
       /\ vault'[i] = vault[i] + amountIn /\ vault'[o] = vault[o] - out
       /\ owed'[i] = owed[i] + feeI /\ owed'[o] = owed[o] + feeO
       /\ trader'[i] = trader[i] - amountIn /\ trader'[o] = trader[o] + out
  <2>1. feeI \in Nat /\ feeO \in Nat /\ Exchange(i, amountIn, out, feeI, feeO)
    BY <1>4, <1>13
  <2> HIDE DEF feeI, feeO
  <2>2. Exchanged(i, amountIn, out, feeI, feeO)
    BY <1>2, <1>13, <2>1, ExchangeMoves
  <2> QED
    BY <2>2 DEF Exchanged
<1> DEFINE a  == IF aToB THEN net ELSE -gross
           b  == IF aToB THEN -gross ELSE net
           x1 == vault[1] - owed[1]
           y1 == vault'[1] - owed'[1]
           x2 == vault[2] - owed[2]
           y2 == vault'[2] - owed'[2]
           s1 == -trader[1]
           t1 == -trader'[1]
           s2 == -trader[2]
           t2 == -trader'[2]
<1>15. a \in Int /\ b \in Int /\ Paid(L, p, n, a, b)
  BY <1>10, <1>12, <1>13
<1>16. /\ x1 \in Int /\ y1 \in Int /\ x2 \in Int /\ y2 \in Int
       /\ s1 \in Int /\ t1 \in Int /\ s2 \in Int /\ t2 \in Int
  BY <1>2, <1>14, DammMathAssumption DEF DammTypes, u64, U64Max
<1>17. /\ vault[1] \in Int /\ vault[2] \in Int /\ owed[1] \in Int /\ owed[2] \in Int
       /\ trader[1] \in Int /\ trader[2] \in Int
  BY <1>2, DammMathAssumption DEF DammTypes, u64, U64Max
<1>18. y1 >= x1 + a /\ y2 >= x2 + b /\ t1 >= s1 + a /\ t2 >= s2 + b
  <2>1. CASE i = 1
    <3>1. o = 2 /\ a = net /\ b = -gross
      BY <2>1 DEF other
    <3> HIDE DEF a, b
    <3> QED
      BY <1>10, <1>11, <1>13, <1>14, <1>17, <2>1, <3>1
  <2>2. CASE i = 2
    <3>1. o = 1 /\ a = -gross /\ b = net
      BY <2>2 DEF other
    <3> HIDE DEF a, b
    <3> QED
      BY <1>10, <1>11, <1>13, <1>14, <1>17, <2>2, <3>1
  <2> QED
    BY <2>1, <2>2
<1>19. n \in Pos
  BY <1>8, <1>12 DEF Pos
<1> DEFINE top == pool.sqrtMaxPrice
           low == pool.sqrtMinPrice
           q   == p0.sqrtPrice
<1>20. CoversA(L, p, top, x1) /\ CoversB(L, p, low, x2) /\ CoversA(L, p, q, s1) /\ CoversB(L, p, q, s2)
  BY <1>7, Zenon DEF ConcentratedInv
<1>21. CoversA(L, n, top, y1) /\ CoversB(L, n, low, y2) /\ CoversA(L, n, q, t1) /\ CoversB(L, n, q, t2)
  <2>1. L \in Nat /\ p \in Pos /\ top \in Pos /\ low \in Pos /\ q \in Pos
    BY <1>8
  <2> HIDE DEF L, p, a, b, x1, x2, y1, y2, s1, s2, t1, t2, top, low, q
  <2>2. CoversA(L, n, top, y1) /\ CoversA(L, n, q, t1)
    BY <1>15, <1>16, <1>18, <1>19, <1>20, <2>1, PaidKeepsA
  <2>3. CoversB(L, n, low, y2) /\ CoversB(L, n, q, t2)
    BY <1>15, <1>16, <1>18, <1>19, <1>20, <2>1, PaidKeepsB
  <2> QED
    BY <2>2, <2>3
<1>22. /\ pool' \in Accounts /\ pool'.sqrtPrice = n
       /\ pool'.baseFeeInfo = pool.baseFeeInfo /\ pool'.activationPoint = pool.activationPoint
       /\ pool'.collectFeeMode = pool.collectFeeMode /\ pool'.liquidity = pool.liquidity
       /\ pool'.sqrtMinPrice = pool.sqrtMinPrice /\ pool'.sqrtMaxPrice = pool.sqrtMaxPrice
  <2>1. n \in Nat
    BY <1>19 DEF Pos
  <2> QED
    BY <1>2, <1>5, <2>1 DEF DammTypes, Accounts
<1>23. ConcentratedInv(p0)'
  <2>1. pool'.sqrtPrice \in pool'.sqrtMinPrice .. pool'.sqrtMaxPrice
    BY <1>12, <1>22
  <2> QED
    BY <1>21, <1>22, <2>1, Zenon DEF ConcentratedInv, CoversA, CoversB
<1>24. Unmoved(p0)'
  BY <1>7, <1>22 DEF Unmoved
<1>25. DammTypes'
  BY <1>14, <1>22 DEF DammTypes
<1> QED
  BY <1>7, <1>23, <1>24, <1>25 DEF DammInv, Since

LEMMA StepKeepsInv == DammInv /\ [Next]_vars => DammInv'
<1> SUFFICES ASSUME DammInv, [Next]_vars PROVE DammInv'
  OBVIOUS
<1>1. ASSUME NEW i \in 1 .. 2, NEW a \in Amounts,
             SwapExactIn(i, a) \/ SwapExactOut(i, a) \/ SwapConcentrated(i, a)
      PROVE  DammInv'
  BY <1>1, ExactInKeepsInv, ExactOutKeepsInv, ConcentratedKeepsInv
<1>2. CASE TimePasses
  <2>1. pool' = pool /\ vault' = vault /\ owed' = owed /\ trader' = trader /\ point' = point + 1
    BY <1>2 DEF TimePasses
  <2>2. point' \in Nat
    BY <2>1 DEF DammInv, DammTypes
  <2> QED
    BY <2>1, <2>2 DEF DammInv, DammTypes, Since, Unmoved, CompoundingInv, ConcentratedInv, CoversA, CoversB
<1>3. CASE UNCHANGED vars
  BY <1>3 DEF vars, DammInv, DammTypes, Since, Unmoved, CompoundingInv, ConcentratedInv, CoversA, CoversB
<1> QED
  BY <1>1, <1>2, <1>3 DEF Next

\* The invariant holds in every state of every behaviour.
THEOREM PoolIsSound == Spec => []DammInv
BY InitKeepsInv, StepKeepsInv, PTL DEF Spec

-----------------------------------------------------------------------------
\* What the invariant says

\* The vaults hold what the pool may still have to pay (from_models.go, fees.go): no part
\* of a fee is lost or paid twice, and no rounding of a concentrated swap is the pool's loss.
THEOREM VaultsStayCovered == Spec => []VaultsCoverPool
<1>1. DammInv => VaultsCoverPool
  <2> SUFFICES ASSUME DammInv PROVE VaultsCoverPool
    OBVIOUS
  <2>1. PICK p0 \in Pools : Since(p0)
    BY DEF DammInv
  <2>2. \A i \in 1 .. 2 : vault[i] \in Nat /\ owed[i] \in Nat
    BY DammMathAssumption DEF DammInv, DammTypes, u64, U64Max
  <2>3. pool \in Accounts /\ pool.collectFeeMode = p0.collectFeeMode
    BY <2>1 DEF DammInv, DammTypes, Since, Unmoved
  <2>4. CASE pool.collectFeeMode = CollectFeeModeCompounding
    <3>1. CompoundingInv(p0)
      BY <2>1, <2>3, <2>4 DEF Since
    <3>2. principal(pool, FALSE) = pool.reserves
      BY <2>4 DEF principal
    <3>3. \A i \in 1 .. 2 : pool.reserves[i] \in Nat
      BY <2>3 DEF Accounts
    <3> QED
      <4>1. \A i \in 1 .. 2 : vault[i] = pool.reserves[i] + owed[i]
        BY <3>1 DEF CompoundingInv
      <4>2. \A i \in 1 .. 2 : vault[i] >= principal(pool, FALSE)[i] + owed[i]
        <5>1. \A i \in 1 .. 2 : vault[i] >= pool.reserves[i] + owed[i]
          BY <2>2, <3>3, <4>1
        <5> QED
          BY <3>2, <5>1, Zenon
      <4> QED
        BY <4>1, <4>2, Zenon DEF VaultsCoverPool
  <2>5. CASE pool.collectFeeMode # CollectFeeModeCompounding
    <3> DEFINE L   == pool.liquidity
               p   == pool.sqrtPrice
               low == pool.sqrtMinPrice
               top == pool.sqrtMaxPrice
               a   == GetDeltaAmountA(p, top, L, FALSE)
               b   == GetDeltaAmountB(low, p, L, FALSE)
               x   == vault[1] - owed[1]
               y   == vault[2] - owed[2]
    <3>1. principal(pool, FALSE) = <<a, b>>
      BY <2>5, Zenon DEF principal
    <3>2. ConcentratedInv(p0) /\ p0.sqrtMinPrice > 0 /\ low = p0.sqrtMinPrice
      BY <2>1, <2>3, <2>5, PoolAssumption DEF Since, Unmoved
    <3>3. L \in Nat /\ p \in Pos /\ low \in Pos /\ top \in Pos /\ low <= p /\ p <= top
      <4>1. L \in Nat /\ p \in Nat /\ low \in Nat /\ top \in Nat /\ p \in low .. top /\ low > 0
        BY <2>3, <3>2 DEF ConcentratedInv, Accounts
      <4> HIDE DEF L, p, low, top
      <4> QED
        BY <4>1 DEF Pos
    <3>4. L * (top - p) <= x * (p * top) /\ L * (p - low) <= y * (Q64 * Q64)
      BY <3>2, Zenon DEF ConcentratedInv, CoversA, CoversB
    <3>5. x \in Int /\ y \in Int
      BY <2>2
    <3> HIDE DEF x, y
    <3>6. ASSUME NEW n \in Nat, NEW d \in Pos, NEW z \in Int, n <= z * d
          PROVE  n \div d \in Nat /\ n \div d <= z /\ z >= 0
      <4> DEFINE k == n \div d
      <4>1. k \in Nat /\ k * d <= n
        BY DivFacts, FloorIsGreatest DEF Pos
      <4> HIDE DEF k
      <4>2. k <= z
        <5> SUFFICES ASSUME z < k PROVE FALSE
          BY <4>1
        <5>1. z * d < k * d
          BY <4>1, MulStrict
        <5>2. z * d \in Int /\ k * d \in Int
          BY <4>1 DEF Pos
        <5> QED
          BY <3>6, <4>1, <5>1, <5>2
      <4> QED
        BY <4>1, <4>2 DEF k
    <3>7. ASSUME NEW k \in Nat PROVE castToUnsigned(k) = k \/ castToUnsigned(k) = -1
      BY DEF castToUnsigned, Err
    <3>8. a \in Int /\ a <= x
      <4> DEFINE n == L * (top - p)
                 d == p * top
      <4>1. n \in Nat /\ d \in Pos
        BY <3>3 DEF Pos
      <4>2. ~(p <= 0 \/ top <= 0)
        BY <3>3 DEF Pos
      <4>3. a = castToUnsigned(n \div d)
        BY <4>2, Zenon DEF GetDeltaAmountA
      <4> HIDE DEF n, d, a
      <4>4. n \div d \in Nat /\ n \div d <= x /\ x >= 0
        BY <3>4, <3>5, <3>6, <4>1 DEF n, d
      <4> QED
        BY <3>5, <3>7, <4>3, <4>4
    <3>9. b \in Int /\ b <= y
      <4> DEFINE n == L * (p - low)
                 d == Q64 * Q64
      <4>1. n \in Nat /\ d \in Pos
        BY <3>3, DammMathAssumption DEF Pos
      <4>2. ~(p < low)
        BY <3>3 DEF Pos
      <4>3. b = castToUnsigned(n \div d)
        BY <4>2, Zenon DEF GetDeltaAmountB
      <4> HIDE DEF n, d, b
      <4>4. n \div d \in Nat /\ n \div d <= y /\ y >= 0
        BY <3>4, <3>5, <3>6, <4>1 DEF n, d
      <4> QED
        BY <3>5, <3>7, <4>3, <4>4
    <3> HIDE DEF a, b
    <3>10. vault[1] >= a + owed[1] /\ vault[2] >= b + owed[2]
      BY <2>2, <3>8, <3>9 DEF x, y
    <3> QED
      <4> HIDE DEF L, p, low, top
      <4>1. \A i \in 1 .. 2 : vault[i] >= principal(pool, FALSE)[i] + owed[i]
        <5>1. \A i \in 1 .. 2 : vault[i] >= <<a, b>>[i] + owed[i]
          BY <3>10
        <5> QED
          BY <3>1, <5>1, Zenon
      <4> QED
        BY <2>5, <4>1, Zenon DEF VaultsCoverPool
  <2> QED
    BY <2>4, <2>5
<1> QED
  BY <1>1, PoolIsSound, PTL

\* No sequence of swaps pays (compounding_quote.go, concentrated_quote.go, curve_math.go):
\* on x * y = k the product pins the reserves; on a concentrated curve what was paid in
\* one token covers what was won in the other.
THEOREM TradersNeverProfit == Spec => []TraderNeverProfits
<1>1. DammInv => TraderNeverProfits
  <2> SUFFICES ASSUME DammInv, trader[1] >= 0, trader[2] >= 0 PROVE trader = <<0, 0>>
    BY DEF TraderNeverProfits
  <2>1. PICK p0 \in Pools : Since(p0)
    BY DEF DammInv
  <2>2. /\ \A i \in 1 .. 2 : vault[i] \in Nat /\ owed[i] \in Nat /\ trader[i] \in Int
        /\ trader \in [1 .. 2 -> Int]
    BY DammMathAssumption DEF DammInv, DammTypes, u64, U64Max
  <2>3. pool \in Accounts /\ p0 \in Accounts /\ pool.collectFeeMode = p0.collectFeeMode
    BY <2>1, PoolAssumption DEF DammInv, DammTypes, Since, Unmoved
  <2>4. SUFFICES trader[1] = 0 /\ trader[2] = 0
    BY <2>2
  <2>5. CASE pool.collectFeeMode = CollectFeeModeCompounding
    <3> DEFINE a == p0.reserves[1]
               b == p0.reserves[2]
               c == pool.reserves[1]
               d == pool.reserves[2]
    <3>1. CompoundingInv(p0) /\ a > 0 /\ b > 0
      <4>1. \A i \in 1 .. 2 : p0.reserves[i] > 0
        BY <2>3, <2>5, PoolAssumption
      <4>2. CompoundingInv(p0)
        BY <2>1, <2>3, <2>5 DEF Since
      <4> QED
        BY <4>1, <4>2
    <3>2. a \in Pos /\ b \in Pos /\ c \in Nat /\ d \in Nat
      BY <2>3, <3>1 DEF Accounts, Pos
    <3>3. /\ vault[1] = c + owed[1] /\ vault[1] + trader[1] = a
          /\ vault[2] = d + owed[2] /\ vault[2] + trader[2] = b
          /\ a * b <= c * d
      BY <3>1 DEF CompoundingInv
    <3> HIDE DEF a, b, c, d
    <3>4. c <= a /\ d <= b
      BY <2>2, <3>2, <3>3 DEF Pos
    <3>5. c = a /\ d = b
      BY <3>2, <3>3, <3>4, ProductPinsReserves
    <3> QED
      BY <2>2, <3>2, <3>3, <3>5 DEF Pos
  <2>6. CASE pool.collectFeeMode # CollectFeeModeCompounding
    <3> DEFINE L  == pool.liquidity
               p  == pool.sqrtPrice
               q  == p0.sqrtPrice
               t1 == trader[1]
               t2 == trader[2]
    <3>1. /\ ConcentratedInv(p0) /\ p0.sqrtMinPrice > 0 /\ pool.sqrtMinPrice = p0.sqrtMinPrice
          /\ q \in p0.sqrtMinPrice .. p0.sqrtMaxPrice
      BY <2>1, <2>3, <2>6, PoolAssumption DEF Since, Unmoved
    <3>2. L \in Nat /\ p \in Pos /\ q \in Pos
      <4>1. /\ L \in Nat /\ p \in Nat /\ q \in Nat /\ pool.sqrtMinPrice \in Nat /\ p0.sqrtMinPrice \in Nat
            /\ p >= pool.sqrtMinPrice /\ q >= p0.sqrtMinPrice
        BY <2>3, <3>1 DEF ConcentratedInv, Accounts
      <4> HIDE DEF L, p, q
      <4> QED
        BY <3>1, <4>1 DEF Pos
    <3>3. L * (q - p) <= (-t1) * (p * q) /\ L * (p - q) <= (-t2) * (Q64 * Q64)
      BY <3>1, Zenon DEF ConcentratedInv, CoversA, CoversB
    <3>4. t1 \in Nat /\ t2 \in Nat
      BY <2>2
    <3> HIDE DEF L, p, q, t1, t2
    <3> DEFINE u == p * q
               v == Q64 * Q64
               w == L * (q - p)
    <3>5. u \in Pos /\ v \in Pos
      BY <3>2, DammMathAssumption DEF Pos
    <3>6. w \in Int /\ L * (p - q) = -w
      BY <3>2 DEF Pos
    <3>7. w <= (-t1) * u /\ -w <= (-t2) * v
      BY <3>3, <3>6
    <3> HIDE DEF u, v, w
    <3>8. (-t1) * u = -(t1 * u) /\ (-t2) * v = -(t2 * v) /\ t1 * u \in Int /\ t2 * v \in Int
      BY <3>4, <3>5 DEF Pos
    <3>9. /\ t1 * u >= t1 /\ t2 * v >= t2
      BY <3>4, <3>5 DEF Pos
    <3>10. t1 = 0 /\ t2 = 0
      <4> DEFINE f == t1 * u
                 g == t2 * v
      <4>1. f \in Int /\ g \in Int /\ w <= -f /\ -w <= -g /\ f >= t1 /\ g >= t2
        BY <3>7, <3>8, <3>9
      <4> HIDE DEF f, g
      <4> QED
        BY <3>4, <3>6, <4>1
    <3> QED
      BY <3>10 DEF t1, t2
  <2> QED
    BY <2>5, <2>6
<1> QED
  BY <1>1, PoolIsSound, PTL

\* Exact-in and exact-out are adjoint (compounding_quote.go:115-122): an input is quoted
\* at least what was asked for exactly when it is at least what exact-out charges.
LEMMA QuotesAreAdjoint ==
    ASSUME NEW Ri \in u64 \ {0}, NEW Ro \in u64 \ {0}, NEW out \in u64,
           NEW reserves, NEW i, reserves[i] = Ri, reserves[other(i)] = Ro,
           NEW num \in Rates, NEW onInput \in BOOLEAN, NEW split \in Splits,
           QuoteExactOutCompounding(out, reserves, i, num, onInput, split) # Failed,
           NEW a \in u64, Ri + a <= U64Max
    PROVE  LET given == QuoteExactInCompounding(a, reserves, i, num, onInput, split)
               asked == QuoteExactOutCompounding(out, reserves, i, num, onInput, split)
           IN  /\ given # Failed /\ given.out \in Nat
               /\ given.out >= out <=> asked.included <= a
<1> DEFINE given == QuoteExactInCompounding(a, reserves, i, num, onInput, split)
           asked == QuoteExactOutCompounding(out, reserves, i, num, onInput, split)
           gross == IF onInput THEN out ELSE GetIncludedFeeAmount(num, out).amount
           need  == compoundingInputForOutput(reserves, i, gross)
           net   == IF onInput THEN GetExcludedFeeAmount(num, a).amount ELSE a
           curve == compoundingFromAmountIn(reserves, i, net)
<1> SUFFICES given # Failed /\ given.out \in Nat /\ (given.out >= out <=> asked.included <= a)
  OBVIOUS
<1>1. /\ given # Failed /\ given.excluded = net
      /\ given.out = IF onInput THEN curve ELSE GetExcludedFeeAmount(num, curve).amount
      /\ given.out \in Nat
  <2>1. /\ given # Failed /\ given.excluded = net
        /\ given.out = LET g == compoundingFromAmountIn(reserves, i, given.excluded)
                       IN  IF onInput THEN g ELSE GetExcludedFeeAmount(num, g).amount
        /\ Settles(Ri, Ro, onInput, given, compoundingFromAmountIn(reserves, i, given.excluded))
    BY ExactInSettles
  <2> HIDE DEF given, net
  <2> QED
    BY <2>1 DEF Settles
<1>2. /\ gross \in u64 /\ need \in u64
      /\ onInput \/ GetIncludedFeeAmount(num, out) # Failed
      /\ IF onInput THEN /\ GetIncludedFeeAmount(num, need) # Failed
                         /\ asked.included = GetIncludedFeeAmount(num, need).amount
                    ELSE asked.included = need
      /\ Fair(Ri, Ro, need, gross)
  <2>1. /\ gross \in u64 /\ asked.excluded = need /\ asked.excluded \in u64
        /\ onInput \/ GetIncludedFeeAmount(num, out) # Failed
        /\ IF onInput THEN /\ GetIncludedFeeAmount(num, asked.excluded) # Failed
                           /\ asked.included = GetIncludedFeeAmount(num, asked.excluded).amount
                      ELSE asked.included = asked.excluded
        /\ Settles(Ri, Ro, onInput, asked, gross)
    BY ExactOutSettles
  <2> HIDE DEF asked, gross, need
  <2> QED
    BY <2>1 DEF Settles
<1> HIDE DEF given, asked
<1>3. a \in Nat /\ Ri \in Pos /\ Ri \in Nat /\ Ro \in Nat /\ out \in Nat /\ gross \in Nat /\ need \in Nat /\ gross < Ro
  <2> HIDE DEF gross, need
  <2> QED
    BY <1>2, DammMathAssumption DEF u64, U64Max, Pos, Fair
<1>4. net \in 0 .. a /\ net \in Nat
  <2>1. CASE onInput
    <3> DEFINE e == GetExcludedFeeAmount(num, a)
    <3>1. e.fee \in 0 .. a /\ e.amount = a - e.fee
      BY ExcludedFits
    <3> HIDE DEF e
    <3>2. e.amount \in 0 .. a
      BY <1>3, <3>1
    <3> QED
      BY <1>3, <2>1, <3>2 DEF e
  <2>2. CASE ~onInput
    BY <1>3, <2>2
  <2> QED
    BY <2>1, <2>2
<1>5. /\ curve \in u64
      /\ gross <= curve <=> gross * (Ri + net) <= Ro * net
  <2> HIDE DEF net, gross
  <2>1. Ri + net <= U64Max
    BY <1>3, <1>4, DammMathAssumption DEF u64, U64Max
  <2> QED
    BY <1>3, <1>4, <2>1, CurveIn
<1>6. need <= net <=> Ri * gross <= net * (Ro - gross)
  <2> HIDE DEF net, gross
  <2>1. compoundingInputForOutput(reserves, i, gross) # Err
    <3>1. need # Err
      <4> HIDE DEF need
      <4> QED
        BY <1>3 DEF Err
    <3> QED
      BY <3>1
  <2> QED
    BY <1>2, <1>4, <2>1, CurveOut
<1>7. gross * (Ri + net) <= Ro * net <=> Ri * gross <= net * (Ro - gross)
  <2> HIDE DEF net, gross
  <2>1. gross * (Ri + net) = Ri * gross + gross * net
    BY <1>3, <1>4
  <2>2. net * (Ro - gross) = Ro * net - gross * net
    BY <1>3, <1>4
  <2>3. gross * net \in Int /\ Ri * gross \in Int /\ Ro * net \in Int
    BY <1>3, <1>4
  <2> QED
    BY <2>1, <2>2, <2>3
<1>8. gross <= curve <=> need <= net
  BY <1>5, <1>6, <1>7
<1>9. CASE onInput
  <2>1. gross = out /\ given.out = curve
    BY <1>1, <1>9
  <2> DEFINE inc == GetIncludedFeeAmount(num, need).amount
  <2>2. need * FeeDenominator <= a * (FeeDenominator - num) <=> inc <= a
    <3>1. GetIncludedFeeAmount(num, need) # Failed
      BY <1>2, <1>9
    <3> HIDE DEF need
    <3> QED
      BY <1>2, <1>3, <3>1, IncludedFits
  <2>3. need * FeeDenominator <= a * (FeeDenominator - num) <=> need <= net
    <3>1. net = GetExcludedFeeAmount(num, a).amount
      BY <1>9
    <3> HIDE DEF need, net
    <3>2. need * FeeDenominator <= a * (FeeDenominator - num) <=> need <= GetExcludedFeeAmount(num, a).amount
      BY <1>3, ExcludedIsGreatest
    <3> QED
      BY <3>1, <3>2
  <2>4. asked.included = inc
    BY <1>2, <1>9
  <2>5. curve \in Nat
    <3> HIDE DEF curve
    <3> QED
      BY <1>5, DammMathAssumption DEF u64, U64Max
  <2> HIDE DEF inc, need, net, gross, curve
  <2>6. given.out >= out <=> gross <= curve
    BY <1>3, <2>1, <2>5
  <2> QED
    BY <1>1, <1>8, <2>2, <2>3, <2>4, <2>6
<1>10. CASE ~onInput
  <2>1. gross = GetIncludedFeeAmount(num, out).amount /\ net = a
    BY <1>10
  <2>2. given.out = GetExcludedFeeAmount(num, curve).amount /\ asked.included = need
    BY <1>1, <1>2, <1>10
  <2>3. curve \in Nat
    <3> HIDE DEF curve
    <3> QED
      BY <1>5, DammMathAssumption DEF u64, U64Max
  <2> HIDE DEF need, net, gross, curve
  <2>4. out * FeeDenominator <= curve * (FeeDenominator - num) <=> gross <= curve
    BY <1>2, <1>10, <2>1, <2>3, IncludedFits
  <2>5. out * FeeDenominator <= curve * (FeeDenominator - num) <=> out <= GetExcludedFeeAmount(num, curve).amount
    BY <1>3, <1>5, ExcludedIsGreatest
  <2>6. given.out >= out <=> out <= given.out
    BY <1>1, <1>3
  <2> QED
    BY <1>1, <1>8, <2>1, <2>2, <2>4, <2>5, <2>6
<1> QED
  BY <1>9, <1>10

NamesTheLeast(qt, i, out, r) ==
    r # Failed /\ qt.reserves[i] + r.included <= U64Max =>
        /\ QuoteExactIn(qt, r.included, i) >= out
        /\ r.included > 0 => QuoteExactIn(qt, r.included - 1, i) < out

\* An exact-out quote names the least input that is enough, on either fee side, at every
\* rate of every schedule and in every state a pool can be traded into
\* (compounding_quote.go:115-122).
THEOREM ExactOutNamesTheLeast == Spec => []ExactOutIsLeast
<1>1. DammInv => ExactOutIsLeast
  <2> SUFFICES ASSUME DammInv, NEW qt \in Quoters, qt.kind = "compounding", NEW i \in 1 .. 2,
                      NEW out \in Amounts,
                      QuoteExactOutCompounding(out, qt.reserves, i, qt.feeNumerator, qt.onInput, qt.split) # Failed,
                      qt.reserves[i] + QuoteExactOutCompounding(out, qt.reserves, i, qt.feeNumerator,
                                                                qt.onInput, qt.split).included <= U64Max
               PROVE  LET r == QuoteExactOutCompounding(out, qt.reserves, i, qt.feeNumerator, qt.onInput, qt.split)
                      IN  /\ QuoteExactIn(qt, r.included, i) >= out
                          /\ r.included > 0 => QuoteExactIn(qt, r.included - 1, i) < out
    <3> SUFFICES ASSUME DammInv, NEW qt \in {x \in Quoters : x.kind = "compounding"},
                        NEW i \in 1 .. 2, NEW out \in Amounts
                 PROVE  NamesTheLeast(qt, i, out, QuoteExactOutCompounding(out, qt.reserves, i,
                                                      qt.feeNumerator, qt.onInput, qt.split))
      BY Zenon DEF ExactOutIsLeast, NamesTheLeast
    <3> QED
      BY Zenon DEF NamesTheLeast
  <2> DEFINE R     == qt.reserves
             Ri    == R[i]
             Ro    == R[other(i)]
             num   == qt.feeNumerator
             onIn  == qt.onInput
             split == qt.split
             r     == QuoteExactOutCompounding(out, R, i, num, onIn, split)
             n     == r.included
             in(a) == QuoteExactInCompounding(a, R, i, num, onIn, split)
  <2>1. DammTypes /\ out \in u64
    BY PoolAssumption DEF DammInv
  <2>2. /\ pool.collectFeeMode = CollectFeeModeCompounding /\ R = pool.reserves
        /\ num \in Rates /\ onIn \in BOOLEAN /\ split \in Splits
    BY <2>1, QuotersFit
  <2>3. PICK p0 \in Pools : CompoundingInv(p0)
    BY <2>2 DEF DammInv, Since, Unmoved
  <2>4. Ri \in u64 \ {0} /\ Ro \in u64 \ {0}
    <3>1. \A j \in 1 .. 2 : R[j] \in Nat /\ R[j] > 0 /\ vault[j] = R[j] + owed[j] /\ owed[j] \in Nat /\ vault[j] \in u64
      BY <2>1, <2>2, <2>3 DEF CompoundingInv, DammTypes, Accounts
    <3> HIDE DEF R
    <3>2. \A j \in 1 .. 2 : R[j] \in u64 \ {0}
      BY <3>1, DammMathAssumption DEF u64, U64Max
    <3> QED
      BY <3>2, OtherSide
  <2>5. r # Failed /\ Ri + n <= U64Max
    OBVIOUS
  <2>6. R[i] = Ri /\ R[other(i)] = Ro
    OBVIOUS
  <2>7. ASSUME NEW a \in Nat PROVE QuoteExactIn(qt, a, i) = IF in(a) = Failed THEN Err ELSE in(a).out
    BY Zenon DEF QuoteExactIn
  <2> HIDE DEF R, Ri, Ro, num, onIn, split, in
  <2>8. n \in u64
    BY <2>1, <2>2, <2>4, <2>5, <2>6, ExactOutSettles
  <2>9. ASSUME NEW a \in u64, Ri + a <= U64Max
        PROVE  in(a) # Failed /\ in(a).out \in Nat /\ (in(a).out >= out <=> n <= a)
    BY <2>1, <2>2, <2>4, <2>5, <2>6, <2>9, QuotesAreAdjoint DEF in
  <2> HIDE DEF r, n
  <2>10. n \in Nat /\ out \in Nat /\ Ri \in Nat
    BY <2>1, <2>4, <2>8, DammMathAssumption DEF u64, U64Max
  <2>11. QuoteExactIn(qt, n, i) >= out
    <3>1. in(n) # Failed /\ in(n).out >= out
      BY <2>5, <2>8, <2>9, <2>10
    <3> QED
      BY <2>7, <2>10, <3>1
  <2>12. ASSUME n > 0 PROVE QuoteExactIn(qt, n - 1, i) < out
    <3> DEFINE m == n - 1
    <3>1. m \in u64 /\ Ri + m <= U64Max /\ ~(n <= m) /\ m \in Nat
      BY <2>5, <2>8, <2>10, <2>12, DammMathAssumption DEF u64, U64Max
    <3> HIDE DEF m
    <3>2. in(m) # Failed /\ in(m).out \in Nat /\ ~(in(m).out >= out)
      BY <2>9, <3>1
    <3>3. QuoteExactIn(qt, m, i) = in(m).out
      BY <2>7, <3>1, <3>2
    <3>4. QuoteExactIn(qt, m, i) < out
      BY <2>10, <3>2, <3>3
    <3> QED
      BY <3>4 DEF m
  <2> QED
    BY <2>11, <2>12, Zenon DEF r, n, R, num, onIn, split
<1> QED
  BY <1>1, PoolIsSound, PTL

-----------------------------------------------------------------------------
\* A schedule only decays

LEMMA PowersOfTwo ==
    ASSUME NEW k \in 0 .. 18
    PROVE  2 ^ k \in Pos /\ 2 ^ (k + 1) = 2 * 2 ^ k
<1>1. CASE k \in 0 .. 4
  <2>1. k = 0 \/ k = 1 \/ k = 2 \/ k = 3 \/ k = 4
    BY <1>1
  <2>2. CASE k = 0
    BY <2>2 DEF Pos
  <2>3. CASE k = 1
    BY <2>3 DEF Pos
  <2>4. CASE k = 2
    BY <2>4 DEF Pos
  <2>5. CASE k = 3
    BY <2>5 DEF Pos
  <2>6. CASE k = 4
    BY <2>6 DEF Pos
  <2> QED
    BY <2>1, <2>2, <2>3, <2>4, <2>5, <2>6
<1>2. CASE k \in 5 .. 9
  <2>1. k = 5 \/ k = 6 \/ k = 7 \/ k = 8 \/ k = 9
    BY <1>2
  <2>2. CASE k = 5
    BY <2>2 DEF Pos
  <2>3. CASE k = 6
    BY <2>3 DEF Pos
  <2>4. CASE k = 7
    BY <2>4 DEF Pos
  <2>5. CASE k = 8
    BY <2>5 DEF Pos
  <2>6. CASE k = 9
    BY <2>6 DEF Pos
  <2> QED
    BY <2>1, <2>2, <2>3, <2>4, <2>5, <2>6
<1>3. CASE k \in 10 .. 14
  <2>1. k = 10 \/ k = 11 \/ k = 12 \/ k = 13 \/ k = 14
    BY <1>3
  <2>2. CASE k = 10
    BY <2>2 DEF Pos
  <2>3. CASE k = 11
    BY <2>3 DEF Pos
  <2>4. CASE k = 12
    BY <2>4 DEF Pos
  <2>5. CASE k = 13
    BY <2>5 DEF Pos
  <2>6. CASE k = 14
    BY <2>6 DEF Pos
  <2> QED
    BY <2>1, <2>2, <2>3, <2>4, <2>5, <2>6
<1>4. CASE k \in 15 .. 18
  <2>1. k = 15 \/ k = 16 \/ k = 17 \/ k = 18
    BY <1>4
  <2>2. CASE k = 15
    BY <2>2 DEF Pos
  <2>3. CASE k = 16
    BY <2>3 DEF Pos
  <2>4. CASE k = 17
    BY <2>4 DEF Pos
  <2>5. CASE k = 18
    BY <2>5 DEF Pos
  <2> QED
    BY <2>1, <2>2, <2>3, <2>4, <2>5
<1> QED
  BY <1>1, <1>2, <1>3, <1>4

\* Halving after a division by d is a division by 2 * d.
LEMMA HalfOfQuotient ==
    ASSUME NEW n \in Nat, NEW d \in Pos
    PROVE  n \div (2 * d) = (n \div d) \div 2
<1> DEFINE q == n \div d
           h == q \div 2
<1>1. q \in Nat /\ d * q <= n /\ n < d * q + d
  <2>1. q \in Nat /\ n % d \in 0 .. d - 1 /\ n = d * q + (n % d)
    BY DivFacts
  <2> HIDE DEF q
  <2> QED
    BY <2>1 DEF Pos
<1> HIDE DEF q
<1>2. h \in Nat /\ 2 * h <= q /\ q <= 2 * h + 1
  BY <1>1
<1> HIDE DEF h
<1>3. 2 * d \in Pos /\ n \div (2 * d) \in Nat
  BY DivFacts DEF Pos
<1>4. h * (2 * d) <= n
  <2>1. (2 * h) * d <= q * d
    BY <1>1, <1>2, MulMonotone DEF Pos
  <2> QED
    BY <1>1, <1>2, <2>1 DEF Pos
<1>5. n < (h + 1) * (2 * d)
  <2>1. (q + 1) * d <= (2 * h + 2) * d
    BY <1>1, <1>2, MulMonotone DEF Pos
  <2>2. (2 * h + 2) * d = (h + 1) * (2 * d) /\ (q + 1) * d = d * q + d
    BY <1>1, <1>2 DEF Pos
  <2> QED
    BY <1>1, <1>2, <2>1, <2>2 DEF Pos
<1>6. h <= n \div (2 * d) /\ ~(h + 1 <= n \div (2 * d))
  BY <1>2, <1>3, <1>4, <1>5, FloorIsGreatest DEF Pos
<1> QED
  BY <1>2, <1>3, <1>6 DEF q, h

\* A larger factor leaves a larger product, rounded down or not.
LEMMA ScaledMonotone ==
    ASSUME NEW a \in 0 .. Q64, NEW b \in 0 .. Q64, NEW c \in 0 .. Q64, a <= b
    PROVE  (a * c) \div Q64 <= (b * c) \div Q64
<1>1. Q64 \in Pos /\ a \in Nat /\ b \in Nat /\ c \in Nat
  BY DammMathAssumption DEF Pos
<1> DEFINE m == a * c
           n == b * c
<1>2. m \in Nat /\ n \in Nat /\ m <= n
  BY <1>1, MulIsNat, MulMonotone
<1> HIDE DEF m, n
<1> QED
  <2>1. m \div Q64 \in Nat
    BY <1>1, <1>2, DivFacts
  <2>2. (m \div Q64) * Q64 <= m
    BY <1>1, <1>2, <2>1, FloorIsGreatest
  <2>3. (m \div Q64) * Q64 <= n
    BY <1>1, <1>2, <2>1, <2>2 DEF Pos
  <2> QED
    BY <1>1, <1>2, <2>1, <2>3, FloorIsGreatest DEF m, n

LEMMA OneTimes ==
    ASSUME NEW a \in 0 .. Q64
    PROVE  (Q64 * a) \div Q64 = a
<1>1. Q64 \in Pos /\ a \in Nat /\ Q64 * a \in Nat /\ Q64 \in Nat
  BY DammMathAssumption, MulIsNat DEF Pos
<1> DEFINE n == Q64 * a
           q == n \div Q64
<1>2. n = a * Q64 /\ (a + 1) * Q64 = a * Q64 + Q64
  BY <1>1
<1> HIDE DEF n
<1>3. n \in Nat
  BY <1>1 DEF n
<1>4. q \in Nat
  BY <1>1, <1>3, DivFacts
<1>5. a <= q /\ ~(a + 1 <= q)
  <2>1. a * Q64 <= n <=> a <= q
    BY <1>1, <1>3, FloorIsGreatest
  <2>2. (a + 1) * Q64 <= n <=> a + 1 <= q
    BY <1>1, <1>3, FloorIsGreatest
  <2> QED
    BY <1>1, <1>2, <1>3, <1>4, <2>1, <2>2 DEF Pos
<1> QED
  BY <1>1, <1>4, <1>5 DEF n

\* One more period is one more factor: while adding one carries, the sum has chosen no
\* square and the other exponent all of them; from the carry's end on they choose the same.
LEMMA PowersFall ==
    ASSUME NEW base \in 0 .. Q64, NEW n \in Nat, n + 1 < 2 ^ 19
    PROVE  powers(squares(base), n + 1)[19] <= powers(squares(base), n)[19]
<1> DEFINE q == squares(base)
           r == powers(q, n)
           x == powers(q, n + 1)
           h(k) == n \div 2 ^ k
           y(k) == (n + 1) \div 2 ^ k
<1>1. /\ q \in [0 .. 18 -> 0 .. Q64] /\ q[0] = base
      /\ \A k \in 0 .. 17 : q[k + 1] = (q[k] * q[k]) \div Q64
  BY SquaresAreFractions
<1> HIDE DEF q
<1>2. /\ r[0] = Q64 /\ \A k \in 0 .. 19 : r[k] \in 0 .. Q64
      /\ \A k \in 0 .. 18 : r[k + 1] = IF h(k) % 2 = 1 THEN (r[k] * q[k]) \div Q64 ELSE r[k]
  BY <1>1, PowersAreFractions
<1>3. /\ x[0] = Q64 /\ \A k \in 0 .. 19 : x[k] \in 0 .. Q64
      /\ \A k \in 0 .. 18 : x[k + 1] = IF y(k) % 2 = 1 THEN (x[k] * q[k]) \div Q64 ELSE x[k]
  BY <1>1, PowersAreFractions
<1> HIDE DEF r, x
<1>4. ASSUME NEW k \in 0 .. 18
      PROVE  h(k) \in Nat /\ y(k) \in Nat /\ h(k + 1) = h(k) \div 2 /\ y(k + 1) = y(k) \div 2
  <2>1. 2 ^ k \in Pos /\ 2 ^ (k + 1) = 2 * 2 ^ k
    BY PowersOfTwo
  <2>2. n + 1 \in Nat
    OBVIOUS
  <2> QED
    BY <2>1, <2>2, DivFacts, HalfOfQuotient
<1> DEFINE carries(k) == y(k) = h(k) + 1 /\ x[k] = Q64 /\ (k <= 18 => q[k] <= r[k])
           agrees(k)  == y(k) = h(k) /\ x[k] <= r[k]
           S == {k \in 0 .. 19 : carries(k) \/ agrees(k)}
<1>5. 0 \in S
  <2>1. 2 ^ 0 = 1
    OBVIOUS
  <2>2. y(0) = n + 1 /\ h(0) = n
    BY <2>1
  <2> HIDE DEF y, h
  <2> QED
    BY <1>1, <1>2, <1>3, <2>2
<1>6. ASSUME NEW k \in 0 .. 18, k \in S
      PROVE  k + 1 \in S
  <2> HIDE DEF S
  <2>1. /\ k \in 0 .. 19 /\ k + 1 \in 0 .. 19 /\ k \in Nat /\ Q64 \in Nat
        /\ q[k] \in 0 .. Q64 /\ r[k] \in 0 .. Q64 /\ x[k] \in 0 .. Q64
    <3>1. k \in 0 .. 19 /\ k + 1 \in 0 .. 19 /\ k \in Nat
      OBVIOUS
    <3>2. q[k] \in 0 .. Q64
      BY <1>1
    <3>3. r[k] \in 0 .. Q64 /\ x[k] \in 0 .. Q64
      BY <1>2, <1>3, <3>1, Zenon
    <3> QED
      BY <3>1, <3>2, <3>3, DammMathAssumption
  <2>2. h(k) \in Nat /\ y(k) \in Nat /\ h(k + 1) = h(k) \div 2 /\ y(k + 1) = y(k) \div 2
    BY <1>4
  <2>3. r[k + 1] = IF h(k) % 2 = 1 THEN (r[k] * q[k]) \div Q64 ELSE r[k]
    BY <1>2
  <2>4. x[k + 1] = IF y(k) % 2 = 1 THEN (x[k] * q[k]) \div Q64 ELSE x[k]
    BY <1>3
  <2> HIDE DEF h, y
  <2>5. CASE agrees(k)
    <3>1. (x[k] * q[k]) \div Q64 <= (r[k] * q[k]) \div Q64
      BY <2>1, <2>5, ScaledMonotone
    <3>2. agrees(k + 1)
      BY <2>2, <2>3, <2>4, <2>5, <3>1
    <3> QED
      BY <2>1, <3>2 DEF S
  <2>6. CASE carries(k) /\ h(k) % 2 = 0
    <3>1. y(k) % 2 = 1 /\ y(k) \div 2 = h(k) \div 2
      BY <2>2, <2>6
    <3>2. x[k + 1] = q[k] /\ r[k + 1] = r[k]
      BY <2>1, <2>3, <2>4, <2>6, <3>1, OneTimes
    <3>3. agrees(k + 1)
      BY <2>1, <2>2, <2>6, <3>1, <3>2
    <3> QED
      BY <2>1, <3>3 DEF S
  <2>7. CASE carries(k) /\ h(k) % 2 = 1
    <3>1. y(k) % 2 = 0 /\ y(k) \div 2 = h(k) \div 2 + 1
      BY <2>2, <2>7
    <3>2. x[k + 1] = Q64 /\ r[k + 1] = (r[k] * q[k]) \div Q64
      BY <2>3, <2>4, <2>7, <3>1
    <3>3. k <= 18 => (q[k] * q[k]) \div Q64 <= (r[k] * q[k]) \div Q64
      <4>1. q[k] <= r[k]
        BY <2>7
      <4> QED
        BY <2>1, <4>1, ScaledMonotone
    <3>4. k + 1 <= 18 => q[k + 1] = (q[k] * q[k]) \div Q64
      BY <1>1, <2>1
    <3>5. carries(k + 1)
      BY <2>2, <3>1, <3>2, <3>3, <3>4
    <3> QED
      BY <2>1, <3>5 DEF S
  <2>8. h(k) % 2 = 0 \/ h(k) % 2 = 1
    BY <2>2
  <2> QED
    BY <1>6, <2>5, <2>6, <2>7, <2>8 DEF S
<1>7. 19 \in S
  <2> HIDE DEF S
  <2>1. \A k \in 0 .. 19 - 1 : k \in S => k + 1 \in S
    BY <1>6
  <2>2. 0 .. 19 \subseteq S
    BY <1>5, <2>1, Induction
  <2> QED
    BY <2>2
<1>8. ~(y(19) = h(19) + 1)
  <2>1. 2 ^ 19 \in Pos /\ 2 ^ 19 \in Nat
    BY DEF Pos
  <2>2. n + 1 \in Nat /\ n \in Nat /\ 1 * 2 ^ 19 = 2 ^ 19
    OBVIOUS
  <2>3. y(19) \in Nat /\ h(19) \in Nat
    BY <2>1, <2>2, DivFacts
  <2>4. 1 <= y(19) => 1 * 2 ^ 19 <= n + 1
    BY <2>1, <2>2, <2>3, FloorIsGreatest
  <2> HIDE DEF y, h
  <2> QED
    BY <2>2, <2>3, <2>4
<1> QED
  BY <1>7, <1>8 DEF q, r, x

\* A fraction to a larger power is smaller, and defined no more often.
LEMMA PowFalls ==
    ASSUME NEW base \in 0 .. Q64 - 1, NEW n \in Nat, NEW m \in Nat, n <= m, Pow(base, m) # Err
    PROVE  /\ Pow(base, n) \in 0 .. Q64 /\ Pow(base, m) \in 0 .. Q64
           /\ Pow(base, m) <= Pow(base, n)
<1> DEFINE result(e) == powers(squares(base), e)[19]
           S == {d \in 0 .. m : Pow(base, m - d) # Err /\ Pow(base, m) <= Pow(base, m - d)}
<1>1. base \in 0 .. Q64 /\ ~(base >= Q64) /\ Q64 \in Nat /\ Q64 # 0
  BY DammMathAssumption
<1>2. ASSUME NEW e \in Nat
      PROVE  Pow(base, e) = IF e = 0 THEN Q64
                            ELSE IF e >= 2 ^ 19 \/ result(e) = 0 THEN Err ELSE result(e)
  BY <1>1 DEF Pow
<1>3. ASSUME NEW e \in Nat
      PROVE  Pow(base, e) = Err \/ Pow(base, e) \in 0 .. Q64
  BY PowIsFraction
<1>4. ASSUME NEW e \in Nat, Pow(base, e + 1) # Err
      PROVE  Pow(base, e) # Err /\ Pow(base, e + 1) <= Pow(base, e)
  <2>1. CASE e = 0
    <3>1. Pow(base, e) = Q64 /\ Pow(base, e + 1) \in 0 .. Q64
      BY <1>2, <1>3, <1>4, <2>1
    <3> QED
      BY <1>1, <3>1 DEF Err
  <2>2. CASE e # 0
    <3>1. /\ e + 1 \in Nat /\ e + 1 # 0 /\ 2 ^ 19 \in Nat
          /\ ~(e + 1 >= 2 ^ 19 \/ result(e + 1) = 0) /\ Pow(base, e + 1) = result(e + 1)
      <4>1. e + 1 \in Nat /\ e + 1 # 0 /\ 2 ^ 19 \in Nat
        OBVIOUS
      <4> HIDE DEF result
      <4> QED
        BY <1>2, <1>4, <4>1
    <3>2. e + 1 < 2 ^ 19 /\ ~(e >= 2 ^ 19)
      BY <3>1
    <3>3. result(e + 1) <= result(e)
      BY <1>1, <3>2, PowersFall
    <3>4. result(e) \in 0 .. Q64 /\ result(e + 1) \in 0 .. Q64
      <4>1. squares(base) \in [0 .. 18 -> 0 .. Q64] /\ 19 \in 0 .. 19
        BY <1>1, SquaresAreFractions
      <4> QED
        BY <4>1, PowersAreFractions
    <3> HIDE DEF result
    <3>5. Pow(base, e) = result(e) /\ result(e) # 0
      BY <1>1, <1>2, <2>2, <3>1, <3>2, <3>3, <3>4
    <3> QED
      BY <3>1, <3>3, <3>4, <3>5 DEF Err
  <2> QED
    BY <2>1, <2>2
<1>5. 0 \in S
  <2>1. m - 0 = m /\ Pow(base, m) \in 0 .. Q64
    BY <1>3
  <2> QED
    BY <2>1
<1>6. ASSUME NEW d \in 0 .. m - 1, d \in S PROVE d + 1 \in S
  <2> DEFINE e == m - (d + 1)
  <2>1. e \in Nat /\ e + 1 = m - d /\ d + 1 \in 0 .. m /\ m - d \in Nat
    OBVIOUS
  <2>2. Pow(base, m - d) # Err /\ Pow(base, m) <= Pow(base, m - d)
    BY <1>6
  <2> HIDE DEF e
  <2>3. Pow(base, e) # Err /\ Pow(base, m - d) <= Pow(base, e)
    <3>1. Pow(base, e + 1) # Err
      BY <2>1, <2>2
    <3> QED
      BY <1>4, <2>1, <3>1
  <2>4. Pow(base, e) \in 0 .. Q64 /\ Pow(base, m) \in 0 .. Q64 /\ Pow(base, m - d) \in 0 .. Q64
    BY <1>3, <2>1, <2>2, <2>3
  <2>5. Pow(base, m) <= Pow(base, e)
    BY <1>1, <2>2, <2>3, <2>4
  <2> QED
    BY <2>1, <2>3, <2>5 DEF e
<1>7. m - n \in 0 .. m /\ m - (m - n) = n
  OBVIOUS
<1>8. m - n \in S
  <2> HIDE DEF S
  <2>1. 0 .. m \subseteq S
    BY <1>5, <1>6, Induction
  <2> QED
    BY <1>7, <2>1
<1> QED
  BY <1>3, <1>7, <1>8

\* The fee of an exponential schedule falls from period to period.
LEMMA ExponentialFalls ==
    ASSUME NEW cliff \in Rates, NEW factor \in Nat \ {0}, NEW n \in Nat, NEW m \in Nat, n <= m,
           GetFeeInPeriod(cliff, factor, n) # Err, GetFeeInPeriod(cliff, factor, m) # Err
    PROVE  GetFeeInPeriod(cliff, factor, m) <= GetFeeInPeriod(cliff, factor, n)
<1> DEFINE cut  == (factor * Q64) \div MaxBasisPoint
           base == Q64 - cut
           rate(p) == IF base < 0 THEN Err ELSE Pow(base, p)
           fee(p)  == (rate(p) * cliff) \div Q64
<1>1. Q64 \in Pos /\ Q64 \in Nat /\ MaxBasisPoint \in Pos /\ cliff \in Nat /\ cliff <= Q64
      /\ factor * Q64 \in Nat /\ factor * Q64 >= MaxBasisPoint
  <2>1. Q64 \in Pos /\ Q64 \in Nat /\ MaxBasisPoint \in Pos /\ cliff \in Nat /\ cliff <= Q64
        /\ MaxBasisPoint <= Q64
    BY DammMathAssumption DEF Rates, Pos
  <2>2. 1 * Q64 <= factor * Q64
    BY <2>1, MulMonotone
  <2> QED
    BY <2>1, <2>2, MulIsNat DEF Pos
<1>2. cut \in Nat /\ cut >= 1
  <2> DEFINE k == factor * Q64
  <2>1. k \in Nat /\ 1 * MaxBasisPoint <= k
    BY <1>1 DEF Pos
  <2> HIDE DEF k
  <2>2. k \div MaxBasisPoint \in Nat /\ (1 * MaxBasisPoint <= k <=> 1 <= k \div MaxBasisPoint)
    BY <1>1, <2>1, DivFacts, FloorIsGreatest
  <2> QED
    BY <2>1, <2>2 DEF k
<1>3. ASSUME NEW p \in Nat
      PROVE  GetFeeInPeriod(cliff, factor, p) = IF rate(p) = Err THEN Err ELSE castToUnsigned(fee(p))
  BY DEF GetFeeInPeriod
<1> HIDE DEF cut
<1>4. base \in 0 .. Q64 - 1 /\ rate(n) = Pow(base, n) /\ rate(m) = Pow(base, m) /\ Pow(base, m) # Err
  <2>1. rate(m) # Err
    BY <1>3
  <2> QED
    BY <1>1, <1>2, <2>1
<1> HIDE DEF base
<1>5. rate(n) \in 0 .. Q64 /\ rate(m) \in 0 .. Q64 /\ rate(m) <= rate(n)
  BY <1>4, PowFalls
<1> HIDE DEF rate
<1>6. fee(m) <= fee(n)
  BY <1>1, <1>5, ScaledMonotone
<1>7. GetFeeInPeriod(cliff, factor, n) = fee(n) /\ GetFeeInPeriod(cliff, factor, m) = fee(m)
  <2> HIDE DEF fee
  <2> QED
    BY <1>3 DEF castToUnsigned
<1> QED
  BY <1>6, <1>7

\* Periods only add up.
LEMMA PeriodsGrow ==
    ASSUME NEW f, f.periodFrequency \in Nat, f.numberOfPeriod \in Nat, NEW activation \in Nat,
           NEW now \in Nat, NEW later \in Nat, now <= later
    PROVE  /\ timeSchedulerPeriod(f, now, activation) \in Nat
           /\ timeSchedulerPeriod(f, later, activation) \in Nat
           /\ timeSchedulerPeriod(f, now, activation) <= timeSchedulerPeriod(f, later, activation)
<1> DEFINE d == f.periodFrequency
           q(t) == (t - activation) \div d
<1>1. ASSUME NEW t \in Nat
      PROVE  /\ timeSchedulerPeriod(f, t, activation) =
                    IF t <= activation \/ d = 0 THEN 0 ELSE lesser(q(t), f.numberOfPeriod)
             /\ ~(t <= activation \/ d = 0) => q(t) \in Nat
  <2>1. ~(t <= activation \/ d = 0) => d \in Pos /\ t - activation \in Nat
    BY DEF Pos
  <2> QED
    BY <2>1, DivFacts DEF timeSchedulerPeriod
<1>2. ASSUME ~(now <= activation \/ d = 0)
      PROVE  q(now) <= q(later)
  <2> DEFINE x == now - activation
             y == later - activation
  <2>1. d \in Pos /\ d \in Nat /\ x \in Nat /\ y \in Nat /\ x <= y
    BY <1>2 DEF Pos
  <2> HIDE DEF x, y, d
  <2>2. x \div d \in Nat
    BY <2>1, DivFacts
  <2>3. (x \div d) * d <= x
    BY <2>1, <2>2, FloorIsGreatest
  <2>4. (x \div d) * d <= y
    BY <2>1, <2>2, <2>3
  <2>5. x \div d <= y \div d
    BY <2>1, <2>2, <2>4, FloorIsGreatest
  <2> QED
    BY <2>5 DEF x, y
<1> HIDE DEF q, d
<1>3. ASSUME NEW t \in Nat
      PROVE  timeSchedulerPeriod(f, t, activation) \in Nat
  BY <1>1 DEF lesser
<1>4. CASE now <= activation \/ d = 0
  <2>1. timeSchedulerPeriod(f, now, activation) = 0
    BY <1>1, <1>4
  <2> QED
    BY <1>3, <2>1
<1>5. CASE ~(now <= activation \/ d = 0)
  <2>1. ~(later <= activation \/ d = 0)
    BY <1>5
  <2> QED
    BY <1>1, <1>2, <1>3, <1>5, <2>1 DEF lesser
<1> QED
  BY <1>4, <1>5

\* The base fee at a later point is no higher, in every mode a pool is quoted in.
LEMMA BaseFeeFalls ==
    ASSUME NEW b \in Blobs, NEW activation \in Nat, NEW now \in Nat, NEW later \in Nat, now <= later,
           CurrentBaseFeeNumerator(ParseDAMMBaseFee(b), now, activation) # Err,
           CurrentBaseFeeNumerator(ParseDAMMBaseFee(b), later, activation) # Err
    PROVE  CurrentBaseFeeNumerator(ParseDAMMBaseFee(b), later, activation)
              <= CurrentBaseFeeNumerator(ParseDAMMBaseFee(b), now, activation)
<1> DEFINE f == ParseDAMMBaseFee(b)
           fee(t) == CurrentBaseFeeNumerator(f, t, activation)
           n == timeSchedulerPeriod(f, now, activation)
           m == timeSchedulerPeriod(f, later, activation)
<1>1. f.mode = b.mode
  BY DEF ParseDAMMBaseFee, RateLimiter, Mcap
<1>2. b.mode \in {TimeLinear, TimeExponential}
  BY <1>1 DEF CurrentBaseFeeNumerator
<1>3. /\ f.cliff = b.cliff /\ f.numberOfPeriod = b.at14
      /\ f.periodFrequency = b.at16 + Q32 * b.at20 /\ f.reductionFactor = b.at24
  BY <1>2 DEF ParseDAMMBaseFee, TimeLinear, TimeExponential, RateLimiter, Mcap
<1>4. /\ b.cliff \in Rates /\ b.cliff \in Nat /\ b.at14 \in Nat /\ b.at24 \in Nat
      /\ b.at16 + Q32 * b.at20 \in Nat
  BY DammMathAssumption DEF Blobs, Rates
<1> HIDE DEF f
<1>5. n \in Nat /\ m \in Nat /\ n <= m
  BY <1>3, <1>4, PeriodsGrow
<1>6. ASSUME NEW t \in Nat
      PROVE  fee(t) = LET period == timeSchedulerPeriod(f, t, activation)
                      IN  IF IsStatic(f) THEN b.cliff
                          ELSE IF f.mode = TimeLinear THEN GetFeeInPeriodLinear(b.cliff, b.at24, period)
                          ELSE GetFeeInPeriod(b.cliff, b.at24, period)
  BY <1>1, <1>2, <1>3 DEF CurrentBaseFeeNumerator
<1>7. fee(now) # Err /\ fee(later) # Err
  BY DEF f
<1> SUFFICES fee(later) <= fee(now)
  BY DEF f
<1> HIDE DEF fee, n, m
<1>8. CASE IsStatic(f)
  BY <1>4, <1>6, <1>8
<1>9. CASE ~IsStatic(f) /\ f.mode = TimeLinear
  <2>1. fee(now) = GetFeeInPeriodLinear(b.cliff, b.at24, n) /\ fee(later) = GetFeeInPeriodLinear(b.cliff, b.at24, m)
    BY <1>6, <1>9 DEF n, m
  <2>2. n * b.at24 <= m * b.at24 /\ n * b.at24 \in Nat /\ m * b.at24 \in Nat
        /\ n * b.at24 = b.at24 * n /\ m * b.at24 = b.at24 * m
    BY <1>4, <1>5, MulMonotone, MulIsNat
  <2> QED
    BY <1>4, <2>1, <2>2 DEF GetFeeInPeriodLinear
<1>10. CASE ~IsStatic(f) /\ f.mode # TimeLinear
  <2>1. fee(now) = GetFeeInPeriod(b.cliff, b.at24, n) /\ fee(later) = GetFeeInPeriod(b.cliff, b.at24, m)
    BY <1>6, <1>10 DEF n, m
  <2>2. b.at24 \in Nat \ {0}
    BY <1>3, <1>4, <1>10 DEF IsStatic
  <2> QED
    BY <1>4, <1>5, <1>7, <2>1, <2>2, ExponentialFalls
<1> QED
  BY <1>8, <1>9, <1>10

\* A lower rate leaves more of any amount.
LEMMA LowerRateLeavesMore ==
    ASSUME NEW amount \in u64, NEW low \in Rates, NEW high \in Rates, low <= high
    PROVE  /\ GetExcludedFeeAmount(low, amount).amount \in 0 .. amount
           /\ GetExcludedFeeAmount(high, amount).amount \in 0 .. amount
           /\ GetExcludedFeeAmount(high, amount).amount <= GetExcludedFeeAmount(low, amount).amount
<1> DEFINE D == FeeDenominator
           e == GetExcludedFeeAmount(low, amount).amount
           g == GetExcludedFeeAmount(high, amount).amount
<1>1. D \in Nat /\ low \in Nat /\ high \in Nat /\ low < D /\ high < D /\ amount \in Nat
  BY DammMathAssumption DEF Rates, u64, U64Max
<1>2. e \in 0 .. amount /\ g \in 0 .. amount
  <2>1. ASSUME NEW num \in Rates
        PROVE  GetExcludedFeeAmount(num, amount).amount \in 0 .. amount
    <3> DEFINE r == GetExcludedFeeAmount(num, amount)
    <3>1. r.fee \in 0 .. amount /\ r.amount = amount - r.fee
      BY ExcludedFits
    <3>2. r.amount \in 0 .. amount
      <4> HIDE DEF r
      <4> QED
        BY <1>1, <3>1
    <3> QED
      BY <3>2
  <2> QED
    BY <2>1
<1>3. g * D <= amount * (D - high)
  <2>1. g \in Nat /\ g <= g
    BY <1>2
  <2> QED
    BY <2>1, ExcludedIsGreatest
<1>4. amount * (D - high) <= amount * (D - low)
  <2>1. (D - high) * amount <= (D - low) * amount
    BY <1>1, MulMonotone
  <2> QED
    BY <1>1, <2>1
<1>5. g * D <= amount * (D - low)
  <2>1. g \in Nat
    BY <1>2
  <2> HIDE DEF g, D
  <2> QED
    BY <1>1, <1>3, <1>4, <2>1
<1>6. g <= e
  <2>1. g \in Nat
    BY <1>2
  <2> QED
    BY <1>5, <2>1, ExcludedIsGreatest
<1> QED
  BY <1>2, <1>6

\* The curve gives more for more: a larger input leaves a higher price, and a higher
\* price is farther from the old one.
LEMMA MoreInMoreOut ==
    ASSUME NEW c, Curves(c), NEW net \in Nat, NEW more \in Nat, net <= more,
           concentratedOutput(net, FALSE, c) # Err, concentratedOutput(more, FALSE, c) # Err
    PROVE  concentratedOutput(net, FALSE, c) <= concentratedOutput(more, FALSE, c)
<1> DEFINE L == c.liquidity
           p == c.sqrtPrice
           Q == Q64 * Q64
           next(m) == GetNextSqrtPriceFromInput(p, L, m, FALSE)
           out(m)  == concentratedOutput(m, FALSE, c)
<1>1. p \in Pos /\ p \in Nat /\ L \in Nat /\ Q \in Nat
  BY DammMathAssumption, MulIsNat DEF Curves, Pos
<1>2. ASSUME NEW m \in Nat, out(m) # Err
      PROVE  /\ L \in Pos /\ next(m) = p + (m * Q) \div L /\ next(m) \in Pos
             /\ out(m) = (L * (next(m) - p)) \div (p * next(m))
  <2>1. next(m) # Err /\ out(m) = GetDeltaAmountA(p, next(m), L, FALSE)
    BY <1>2, Zenon DEF concentratedOutput
  <2>2. L \in Pos /\ next(m) \in Pos
    BY <1>1, <2>1, NextPriceIsPaid
  <2>3. next(m) = p + (m * Q) \div L
    <3>1. CASE m = 0
      <4>1. next(m) = p
        BY <2>1, <3>1 DEF GetNextSqrtPriceFromInput
      <4>2. (0 * Q) \div L = 0
        <5>1. 0 * Q = 0 /\ 0 \div L = 0
          BY <1>1, <2>2 DEF Pos
        <5> QED
          BY <5>1
      <4> HIDE DEF Q, L, p, next
      <4> QED
        BY <1>1, <3>1, <4>1, <4>2
    <3>2. CASE m # 0
      <4>1. next(m) = p + (m * Q64 * Q64) \div L
        BY <2>1, <3>2 DEF GetNextSqrtPriceFromInput
      <4>2. m * Q64 * Q64 = m * Q
        BY DammMathAssumption
      <4> QED
        BY <4>1, <4>2
    <3> QED
      BY <3>1, <3>2
  <2>4. out(m) = castToUnsigned((L * (next(m) - p)) \div (p * next(m)))
    <3> HIDE DEF next, p, out
    <3>1. p > 0 /\ next(m) > 0
      BY <1>1, <2>2 DEF Pos
    <3> QED
      BY <1>1, <2>1, <2>2, <3>1 DEF GetDeltaAmountA, Pos
  <2> HIDE DEF next, out
  <2> QED
    BY <1>2, <2>2, <2>3, <2>4 DEF castToUnsigned
<1> DEFINE a == next(net)
           b == next(more)
<1>3. /\ L \in Pos /\ a \in Pos /\ b \in Pos
      /\ a = p + (net * Q) \div L /\ b = p + (more * Q) \div L
      /\ out(net) = (L * (a - p)) \div (p * a) /\ out(more) = (L * (b - p)) \div (p * b)
  BY <1>2
<1> HIDE DEF next, out, L, p, Q
<1>4. p <= a /\ a <= b
  <2> DEFINE x == net * Q
             y == more * Q
  <2>1. x \in Nat /\ y \in Nat /\ x <= y
    BY <1>1, MulIsNat, MulMonotone
  <2>2. a = p + x \div L /\ b = p + y \div L
    BY <1>3
  <2> HIDE DEF x, y, a, b
  <2>3. x \div L \in Nat /\ y \div L \in Nat
    BY <1>3, <2>1, DivFacts
  <2>4. (x \div L) * L <= x
    BY <1>3, <2>1, <2>3, FloorIsGreatest
  <2>5. (x \div L) * L <= y
    BY <1>3, <2>1, <2>3, <2>4 DEF Pos
  <2>6. x \div L <= y \div L
    BY <1>3, <2>1, <2>3, <2>5, FloorIsGreatest
  <2> QED
    BY <1>1, <2>2, <2>3, <2>6
<1> HIDE DEF a, b
<1> DEFINE k == out(net)
           d == p * a
           e == p * b
           m == L * (a - p)
           n == L * (b - p)
<1>5. /\ a \in Nat /\ b \in Nat /\ L \in Nat /\ d \in Pos /\ e \in Pos /\ m \in Nat /\ n \in Nat
      /\ d \in Nat /\ e \in Nat
  <2>1. a \in Nat /\ b \in Nat /\ L \in Nat /\ a - p \in Nat /\ b - p \in Nat
    BY <1>1, <1>3, <1>4 DEF Pos
  <2> QED
    BY <1>1, <1>3, <2>1, MulIsNat DEF Pos
<1>6. k \in Nat /\ k * d <= m
  <2>1. k = m \div d
    BY <1>3
  <2> HIDE DEF k, m, d
  <2>2. k \in Nat
    BY <1>5, <2>1, DivFacts
  <2> QED
    BY <1>5, <2>1, <2>2, FloorIsGreatest
<1>7. k * e <= n
  <2> HIDE DEF k
  <2> DEFINE w == L - k * p
  <2>1. k * p \in Nat /\ w \in Int /\ L * p \in Nat
    BY <1>1, <1>5, <1>6, MulIsNat
  <2>2. w * a = L * a - k * d /\ m = L * a - L * p
    BY <1>1, <1>5, <1>6
  <2>3. w * b = L * b - k * e /\ n = L * b - L * p
    BY <1>1, <1>5, <1>6
  <2>4. L * a \in Nat /\ L * b \in Nat /\ k * d \in Nat /\ k * e \in Nat
    <3> HIDE DEF d, e
    <3> QED
      BY <1>5, <1>6, MulIsNat
  <2> HIDE DEF d, e, m, n
  <2>5. L * p <= w * a
    BY <1>5, <1>6, <2>1, <2>2, <2>4
  <2> HIDE DEF w
  <2>6. w >= 0
    <3> SUFFICES ASSUME w < 0 PROVE FALSE
      BY <2>1
    <3>1. w * a < 0 * a
      BY <1>3, <2>1, MulStrict, 0 \in Int
    <3>2. 0 * a = 0
      BY <1>5
    <3> QED
      BY <1>5, <2>1, <2>5, <3>1, <3>2
  <2>7. a * w <= b * w
    BY <1>4, <1>5, <2>1, <2>6, MulMonotone
  <2>8. L * p <= w * b
    BY <1>5, <2>1, <2>5, <2>6, <2>7
  <2> QED
    BY <1>5, <2>1, <2>3, <2>4, <2>8
<1>8. k <= n \div e
  <2> HIDE DEF k, n, e
  <2> QED
    BY <1>5, <1>6, <1>7, FloorIsGreatest
<1> QED
  BY <1>3, <1>8 DEF out

SameButFee(c, d) ==
    /\ c.sqrtPrice = d.sqrtPrice /\ c.sqrtMinPrice = d.sqrtMinPrice /\ c.sqrtMaxPrice = d.sqrtMaxPrice
    /\ c.liquidity = d.liquidity /\ c.collectFeeMode = d.collectFeeMode /\ c.feeVersion = d.feeVersion
    /\ c.dynamicFeeInitialized = d.dynamicFeeInitialized
    /\ c.volatilityAccumulator = d.volatilityAccumulator /\ c.binStep = d.binStep
    /\ c.variableFeeControl = d.variableFeeControl

\* Two quoters of one concentrated pool, made at different points.
LEMMA ConcentratedFalls ==
    ASSUME NEW c, Curves(c), NEW d, Curves(d),
           SameButFee(c, d), d.baseFeeNumerator <= c.baseFeeNumerator,
           NEW a \in u64, NEW aToB \in BOOLEAN
    PROVE  \/ QuoteConcentratedExactIn(a, aToB, d) = Err
           \/ QuoteConcentratedExactIn(a, aToB, d) >= QuoteConcentratedExactIn(a, aToB, c)
<1> DEFINE high == totalTradingFeeNumerator(c)
           low  == totalTradingFeeNumerator(d)
           onIn == feeOnInput(c.collectFeeMode, aToB)
<1>1. /\ c.sqrtPrice = d.sqrtPrice /\ c.sqrtMinPrice = d.sqrtMinPrice /\ c.sqrtMaxPrice = d.sqrtMaxPrice
      /\ c.liquidity = d.liquidity /\ c.collectFeeMode = d.collectFeeMode /\ c.feeVersion = d.feeVersion
      /\ c.dynamicFeeInitialized = d.dynamicFeeInitialized
      /\ c.volatilityAccumulator = d.volatilityAccumulator /\ c.binStep = d.binStep
      /\ c.variableFeeControl = d.variableFeeControl
  BY DEF SameButFee
<1>2. low \in Rates /\ high \in Rates
  BY TotalFeeFits
<1>3. low <= high
  <2> DEFINE extra == IF c.dynamicFeeInitialized THEN variableFee(c) ELSE 0
             cap == IF c.feeVersion = 0 THEN maxFeeNumeratorV0 ELSE maxFeeNumeratorV1
  <2>1. variableFee(c) = variableFee(d)
    BY <1>1 DEF variableFee
  <2>2. high = lesser(c.baseFeeNumerator + extra, cap) /\ low = lesser(d.baseFeeNumerator + extra, cap)
    BY <1>1, <2>1 DEF totalTradingFeeNumerator
  <2>3. extra \in Int
    <3>1. variableFee(c) \in Int
      BY DammMathAssumption DEF variableFee, Curves
    <3> QED
      BY <3>1
  <2>4. c.baseFeeNumerator \in Nat /\ d.baseFeeNumerator \in Nat /\ cap \in Int
    BY DammMathAssumption DEF Curves, Rates
  <2> HIDE DEF extra, cap, low, high
  <2> QED
    BY <2>2, <2>3, <2>4 DEF lesser
<1>4. ASSUME NEW m
      PROVE  concentratedOutput(m, aToB, c) = concentratedOutput(m, aToB, d)
  BY <1>1, Zenon DEF concentratedOutput
<1> DEFINE x == netInput(a, aToB, c)
           y == netInput(a, aToB, d)
           g == concentratedOutput(x, aToB, c)
           h == concentratedOutput(y, aToB, c)
<1>5. /\ x = IF onIn THEN GetExcludedFeeAmount(high, a).amount ELSE a
      /\ y = IF onIn THEN GetExcludedFeeAmount(low, a).amount ELSE a
  BY <1>1 DEF netInput
<1>6. x \in Nat /\ y \in Nat /\ x <= y
  <2>1. a \in Nat
    BY DammMathAssumption DEF u64, U64Max
  <2> HIDE DEF low, high
  <2>2. CASE onIn
    BY <1>2, <1>3, <1>5, <2>1, <2>2, LowerRateLeavesMore
  <2>3. CASE ~onIn
    BY <1>5, <2>1, <2>3
  <2> QED
    BY <2>2, <2>3
<1>7. /\ QuoteConcentratedExactIn(a, aToB, c) =
             IF c.collectFeeMode = CollectFeeModeCompounding \/ g = Err THEN Err
             ELSE IF onIn THEN g ELSE GetExcludedFeeAmount(high, g).amount
      /\ QuoteConcentratedExactIn(a, aToB, d) =
             IF c.collectFeeMode = CollectFeeModeCompounding \/ h = Err THEN Err
             ELSE IF onIn THEN h ELSE GetExcludedFeeAmount(low, h).amount
  <2>1. concentratedOutput(y, aToB, d) = h
    BY <1>4
  <2> HIDE DEF x, y
  <2> QED
    BY <1>1, <2>1, Zenon DEF QuoteConcentratedExactIn, x, y
<1>8. ASSUME NEW m \in Nat, concentratedOutput(m, aToB, c) # Err
      PROVE  concentratedOutput(m, aToB, c) \in u64
  BY <1>8, ConcentratedPays
<1>9. ASSUME onIn PROVE aToB = FALSE
  BY <1>9 DEF feeOnInput
<1> HIDE DEF low, high, onIn, x, y
<1>10. CASE c.collectFeeMode = CollectFeeModeCompounding \/ h = Err
  BY <1>7, <1>10
<1>11. CASE g = Err /\ ~(c.collectFeeMode = CollectFeeModeCompounding \/ h = Err)
  <2>1. h \in u64 /\ h \in Nat
    BY <1>6, <1>8, <1>11, DammMathAssumption DEF u64, U64Max
  <2> HIDE DEF g, h
  <2>2. GetExcludedFeeAmount(low, h).amount \in 0 .. h
    BY <1>2, <2>1, LowerRateLeavesMore, DammMathAssumption DEF Rates
  <2>3. QuoteConcentratedExactIn(a, aToB, c) = Err
    BY <1>7, <1>11
  <2>4. QuoteConcentratedExactIn(a, aToB, d) \in Nat
    BY <1>7, <1>11, <2>1, <2>2
  <2> QED
    BY <2>3, <2>4 DEF Err
<1>12. CASE g # Err /\ ~(c.collectFeeMode = CollectFeeModeCompounding \/ h = Err)
  <2>1. h \in u64 /\ g \in u64 /\ h \in Nat /\ g \in Nat
    BY <1>6, <1>8, <1>12, DammMathAssumption DEF u64, U64Max
  <2>2. CASE onIn
    <3>1. g <= h
      BY <1>6, <1>9, <1>12, <2>2, MoreInMoreOut
    <3> QED
      BY <1>7, <1>12, <2>1, <2>2, <3>1
  <2>3. CASE ~onIn
    <3>1. g = h
      BY <1>5, <2>3
    <3> HIDE DEF g, h
    <3>2. GetExcludedFeeAmount(high, g).amount <= GetExcludedFeeAmount(low, h).amount
          /\ GetExcludedFeeAmount(high, g).amount \in 0 .. g /\ GetExcludedFeeAmount(low, h).amount \in 0 .. h
      BY <1>2, <1>3, <2>1, <3>1, LowerRateLeavesMore
    <3> QED
      BY <1>7, <1>12, <2>3, <3>2
  <2> QED
    BY <2>2, <2>3
<1> QED
  BY <1>10, <1>11, <1>12

\* What the account's quoter at a point is made of.
LEMMA QuoterAt ==
    ASSUME DammInv, NEW t \in Nat, FromDAMMPool(pool, t) # Failed
    PROVE  LET qt  == FromDAMMPool(pool, t)
               num == CurrentBaseFeeNumerator(ParseDAMMBaseFee(pool.baseFeeInfo), t, pool.activationPoint)
           IN  /\ num \in Rates
               /\ IF pool.collectFeeMode = CollectFeeModeCompounding
                  THEN qt = DAMMCompounding(pool.reserves, num, FALSE, [pool.split EXCEPT !.hasReferral = FALSE])
                  ELSE qt.kind = "concentrated" /\ Curves(qt.p) /\ qt.p.baseFeeNumerator = num
                       /\ qt.p = [sqrtPrice |-> pool.sqrtPrice, sqrtMinPrice |-> pool.sqrtMinPrice,
                                  sqrtMaxPrice |-> pool.sqrtMaxPrice, liquidity |-> pool.liquidity,
                                  collectFeeMode |-> pool.collectFeeMode, feeVersion |-> pool.feeVersion,
                                  baseFeeNumerator |-> num,
                                  dynamicFeeInitialized |-> pool.dynamicFee.initialized,
                                  volatilityAccumulator |-> pool.dynamicFee.volatilityAccumulator,
                                  binStep |-> pool.dynamicFee.binStep,
                                  variableFeeControl |-> pool.dynamicFee.variableFeeControl]
<1> DEFINE num == CurrentBaseFeeNumerator(ParseDAMMBaseFee(pool.baseFeeInfo), t, pool.activationPoint)
           qt == FromDAMMPool(pool, t)
           conc == [sqrtPrice |-> pool.sqrtPrice, sqrtMinPrice |-> pool.sqrtMinPrice,
                    sqrtMaxPrice |-> pool.sqrtMaxPrice, liquidity |-> pool.liquidity,
                    collectFeeMode |-> pool.collectFeeMode, feeVersion |-> pool.feeVersion,
                    baseFeeNumerator |-> num,
                    dynamicFeeInitialized |-> pool.dynamicFee.initialized,
                    volatilityAccumulator |-> pool.dynamicFee.volatilityAccumulator,
                    binStep |-> pool.dynamicFee.binStep,
                    variableFeeControl |-> pool.dynamicFee.variableFeeControl]
<1>1. pool \in Accounts /\ pool.baseFeeInfo \in Blobs /\ pool.activationPoint \in Nat
      /\ pool.dynamicFee \in [initialized : BOOLEAN, volatilityAccumulator : Nat, binStep : Nat,
                              variableFeeControl : Nat]
  BY DEF DammInv, DammTypes, Accounts
<1>2. qt = IF num = Err THEN Failed
           ELSE IF pool.collectFeeMode = CollectFeeModeCompounding
           THEN DAMMCompounding(pool.reserves, num, FALSE, [pool.split EXCEPT !.hasReferral = FALSE])
           ELSE DAMMConcentrated(conc)
  BY Zenon DEF FromDAMMPool
<1>3. num \in Rates /\ num # Err
  <2>1. num = Err \/ num \in Rates
    BY <1>1, BaseFeeFits
  <2>2. num # Err
    BY <1>2
  <2> QED
    BY <2>1, <2>2
<1> HIDE DEF num, qt
<1>4. CASE pool.collectFeeMode = CollectFeeModeCompounding
  BY <1>2, <1>3, <1>4 DEF num, qt
<1>5. CASE pool.collectFeeMode # CollectFeeModeCompounding
  <2>1. qt.kind = "concentrated" /\ qt.p = conc
    BY <1>2, <1>3, <1>5 DEF DAMMConcentrated
  <2>2. pool.sqrtPrice \in pool.sqrtMinPrice .. pool.sqrtMaxPrice /\ pool.sqrtMinPrice > 0
    <3>1. PICK p \in Pools : Since(p)
      BY DEF DammInv
    <3>2. p.collectFeeMode # CollectFeeModeCompounding /\ pool.sqrtMinPrice = p.sqrtMinPrice
      BY <1>5, <3>1 DEF Since, Unmoved
    <3>3. ConcentratedInv(p)
      BY <3>1, <3>2 DEF Since
    <3>4. p.sqrtMinPrice > 0
      BY <3>2, PoolAssumption
    <3> QED
      BY <3>2, <3>3, <3>4 DEF ConcentratedInv
  <2>3. /\ conc.sqrtPrice = pool.sqrtPrice /\ conc.liquidity = pool.liquidity
        /\ conc.sqrtMinPrice = pool.sqrtMinPrice /\ conc.sqrtMaxPrice = pool.sqrtMaxPrice
        /\ conc.baseFeeNumerator = num
        /\ conc.volatilityAccumulator = pool.dynamicFee.volatilityAccumulator
        /\ conc.binStep = pool.dynamicFee.binStep
        /\ conc.variableFeeControl = pool.dynamicFee.variableFeeControl
        /\ conc.dynamicFeeInitialized = pool.dynamicFee.initialized
    OBVIOUS
  <2>4. pool.sqrtMinPrice \in Nat /\ pool.sqrtMaxPrice \in Nat /\ pool.liquidity \in Nat
    BY <1>1 DEF Accounts
  <2> HIDE DEF conc
  <2>5. Curves(conc)
    BY <1>1, <1>3, <2>2, <2>3, <2>4 DEF Curves, Pos
  <2> QED
    BY <1>3, <1>5, <2>1, <2>3, <2>5 DEF num, qt, conc
<1> QED
  BY <1>4, <1>5

\* A quote of the same amount at a later point.
LEMMA QuoteFalls ==
    ASSUME DammInv, NEW now \in Nat, NEW later \in Nat, now <= later,
           FromDAMMPool(pool, now) # Failed, FromDAMMPool(pool, later) # Failed,
           NEW i \in 1 .. 2, NEW a \in u64
    PROVE  \/ QuoteExactIn(FromDAMMPool(pool, later), a, i) = Err
           \/ QuoteExactIn(FromDAMMPool(pool, later), a, i) >= QuoteExactIn(FromDAMMPool(pool, now), a, i)
<1> DEFINE num(t) == CurrentBaseFeeNumerator(ParseDAMMBaseFee(pool.baseFeeInfo), t, pool.activationPoint)
           qt(t) == FromDAMMPool(pool, t)
           split == [pool.split EXCEPT !.hasReferral = FALSE]
<1>1. pool \in Accounts /\ pool.baseFeeInfo \in Blobs /\ pool.activationPoint \in Nat /\ pool.split \in Splits
  BY DEF DammInv, DammTypes, Accounts
<1>2. num(now) \in Rates /\ num(later) \in Rates
  BY QuoterAt
<1>3. num(later) <= num(now)
  <2>1. \A r \in Rates : r # Err
    BY DEF Rates, Err
  <2>2. num(now) # Err /\ num(later) # Err
    BY <1>2, <2>1
  <2> QED
    BY <1>1, <2>2, BaseFeeFalls
<1>4. CASE pool.collectFeeMode = CollectFeeModeCompounding
  <2> DEFINE gross == compoundingFromAmountIn(pool.reserves, i, a)
             r(t) == GetFeeOnAmount(gross, num(t), split)
  <2>1. split \in Splits
    BY <1>1 DEF Splits
  <2>2. ASSUME NEW t \in {now, later}
        PROVE  QuoteExactIn(qt(t), a, i) = IF gross = Err \/ r(t) = Failed THEN Err ELSE r(t).amount
    <3> DEFINE x == QuoteExactInCompounding(a, pool.reserves, i, num(t), FALSE, split)
    <3>1. qt(t) = DAMMCompounding(pool.reserves, num(t), FALSE, split)
      BY <1>4, QuoterAt
    <3>2. QuoteExactIn(qt(t), a, i) = IF x = Failed THEN Err ELSE x.out
      <4> HIDE DEF num, split, qt
      <4> QED
        BY <3>1 DEF QuoteExactIn, DAMMCompounding
    <3>3. a # Err
      BY DammMathAssumption DEF u64, U64Max, Err
    <3> HIDE DEF num, split, qt
    <3>4. x = IF gross = Err THEN Failed
              ELSE IF r(t) = Failed THEN Failed ELSE swapResult(a, a, r(t).amount, r(t).fees)
      BY <3>3 DEF QuoteExactInCompounding
    <3> HIDE DEF x, gross, r
    <3>5. swapResult(a, a, r(t).amount, r(t).fees) # Failed
          /\ swapResult(a, a, r(t).amount, r(t).fees).out = r(t).amount
      BY DEF swapResult, Failed
    <3> QED
      BY <3>2, <3>4, <3>5
  <2> HIDE DEF num, qt, split
  <2>3. gross = Err \/ gross \in u64
    BY DEF compoundingFromAmountIn, SafeMulDivCastU64, castToUnsigned
  <2>4. CASE gross = Err
    BY <2>2, <2>4 DEF qt
  <2>5. CASE gross \in u64
    <3> HIDE DEF gross
    <3>1. ASSUME NEW t \in {now, later}
          PROVE  r(t) # Failed /\ r(t).amount = GetExcludedFeeAmount(num(t), gross).amount
      BY <1>2, <2>1, <2>5, FeeOnAmount
    <3>2. r(later).amount >= r(now).amount
      <4> HIDE DEF r
      <4>1. /\ GetExcludedFeeAmount(num(later), gross).amount \in 0 .. gross
            /\ GetExcludedFeeAmount(num(now), gross).amount \in 0 .. gross
            /\ GetExcludedFeeAmount(num(now), gross).amount <= GetExcludedFeeAmount(num(later), gross).amount
        BY <1>2, <1>3, <2>5, LowerRateLeavesMore
      <4> QED
        BY <3>1, <4>1
    <3>3. gross # Err
      BY <2>5, DammMathAssumption DEF u64, U64Max, Err
    <3> HIDE DEF r
    <3> QED
      BY <2>2, <3>1, <3>2, <3>3 DEF qt
  <2> QED
    BY <2>3, <2>4, <2>5
<1>5. CASE pool.collectFeeMode # CollectFeeModeCompounding
  <2> DEFINE c == qt(now).p
             d == qt(later).p
             z == i = 1
  <2>1. /\ qt(now).kind = "concentrated" /\ Curves(c) /\ c.baseFeeNumerator = num(now)
        /\ qt(later).kind = "concentrated" /\ Curves(d) /\ d.baseFeeNumerator = num(later)
    BY <1>5, QuoterAt
  <2>2. SameButFee(c, d)
    <3> DEFINE conc(n) == [sqrtPrice |-> pool.sqrtPrice, sqrtMinPrice |-> pool.sqrtMinPrice,
                           sqrtMaxPrice |-> pool.sqrtMaxPrice, liquidity |-> pool.liquidity,
                           collectFeeMode |-> pool.collectFeeMode, feeVersion |-> pool.feeVersion,
                           baseFeeNumerator |-> n,
                           dynamicFeeInitialized |-> pool.dynamicFee.initialized,
                           volatilityAccumulator |-> pool.dynamicFee.volatilityAccumulator,
                           binStep |-> pool.dynamicFee.binStep,
                           variableFeeControl |-> pool.dynamicFee.variableFeeControl]
    <3>1. c = conc(num(now)) /\ d = conc(num(later))
      BY <1>5, QuoterAt
    <3> HIDE DEF c, d, num
    <3>2. ASSUME NEW n, NEW m PROVE SameButFee(conc(n), conc(m))
      BY DEF SameButFee
    <3> HIDE DEF conc
    <3> QED
      BY <3>1, <3>2
  <2>3. /\ QuoteExactIn(qt(now), a, i) = QuoteConcentratedExactIn(a, z, c)
        /\ QuoteExactIn(qt(later), a, i) = QuoteConcentratedExactIn(a, z, d)
    <3> HIDE DEF qt
    <3> QED
      BY <2>1 DEF QuoteExactIn
  <2>4. d.baseFeeNumerator <= c.baseFeeNumerator /\ z \in BOOLEAN
    BY <1>3, <2>1
  <2> HIDE DEF c, d, z
  <2>5. \/ QuoteConcentratedExactIn(a, z, d) = Err
        \/ QuoteConcentratedExactIn(a, z, d) >= QuoteConcentratedExactIn(a, z, c)
    BY <2>1, <2>2, <2>4, ConcentratedFalls
  <2> QED
    BY <2>3, <2>5
<1> QED
  BY <1>4, <1>5

LEMMA TimePassesMoves ==
    TimePasses => pool' = pool /\ point' = point + 1
BY DEF TimePasses

\* A fee schedule only ever lets a trader wait for a better price, in every mode, across
\* the activation point and the end of the schedule, with the powers of an exponential one
\* rounded down at every product (damm_base_fee_schedule.go, fee_math.go).
THEOREM FeesOnlyDecay == Spec => FeeOnlyDecays
<1> DEFINE step == point' > point =>
                      LET before == FromDAMMPool(pool, point)
                          after  == FromDAMMPool(pool', point')
                      IN  before # Failed /\ after # Failed =>
                              \A i \in 1 .. 2, a \in Amounts :
                                  \/ QuoteExactIn(after, a, i) = Err
                                  \/ QuoteExactIn(after, a, i) >= QuoteExactIn(before, a, i)
<1>1. DammInv /\ [Next]_vars => [step]_vars
  <2> SUFFICES ASSUME DammInv, Next, point' > point,
                      FromDAMMPool(pool, point) # Failed, FromDAMMPool(pool', point') # Failed,
                      NEW i \in 1 .. 2, NEW a \in Amounts
               PROVE  \/ QuoteExactIn(FromDAMMPool(pool', point'), a, i) = Err
                      \/ QuoteExactIn(FromDAMMPool(pool', point'), a, i)
                            >= QuoteExactIn(FromDAMMPool(pool, point), a, i)
    BY DEF vars
  <2>1. point \in Nat /\ a \in u64
    BY PoolAssumption DEF DammInv, DammTypes
  <2>2. pool' = pool /\ point' = point + 1
    <3>1. CASE TimePasses
      BY <3>1, TimePassesMoves
    <3>2. ASSUME NEW k \in 1 .. 2, NEW m \in Amounts,
                 SwapExactIn(k, m) \/ SwapExactOut(k, m) \/ SwapConcentrated(k, m)
          PROVE  point' = point
      BY <3>2, Zenon DEF SwapExactIn, SwapExactOut, SwapConcentrated, SettleCompounding, Exchange
    <3> QED
      BY <2>1, <3>1, <3>2 DEF Next
  <2>3. point + 1 \in Nat /\ point <= point + 1
    BY <2>1
  <2> QED
    BY <2>1, <2>2, <2>3, QuoteFalls
<1> QED
  BY <1>1, PoolIsSound, PTL DEF Spec, FeeOnlyDecays

-----------------------------------------------------------------------------
\* The rate limiter's closed form

LEMMA EarlierIndex ==
    ASSUME NEW n \in Nat
    PROVE  \A k \in 1 .. n : k - 1 \in 0 .. n
OBVIOUS

\* The sum the property adds up chunk by chunk.
LEMMA ChunkFeesAddUp ==
    ASSUME NEW f, NEW rate \in [Nat -> Nat], \A k \in Nat : chunkRate(f, k) = rate[k],
           f.referenceAmount \in Nat, MaxChunks \in Nat
    PROVE  LET sum == chunkFees(f)
           IN  /\ sum[0] = 0
               /\ \A k \in 0 .. MaxChunks : sum[k] \in Nat
               /\ \A k \in 0 .. MaxChunks - 1 : sum[k + 1] = sum[k] + f.referenceAmount * rate[k]
<1> DEFINE x == f.referenceAmount
           turn(k, v) == v + x * chunkRate(f, k - 1)
           Eq(g) == g = [k \in 0 .. MaxChunks |-> IF k = 0 THEN 0 ELSE g[k - 1] + x * chunkRate(f, k - 1)]
           step == [k \in 1 .. MaxChunks |-> [v \in Nat |-> turn(k, v)]]
<1>1. ASSUME NEW k \in 1 .. MaxChunks, NEW v \in Nat
      PROVE  turn(k, v) \in Nat
  <2>1. chunkRate(f, k - 1) \in Nat
    BY k - 1 \in Nat
  <2> QED
    BY <2>1, MulIsNat
<1>2. step \in [1 .. MaxChunks -> [Nat -> Nat]]
  <2> HIDE DEF turn
  <2> QED
    BY <1>1
<1>3. PICK g \in [0 .. MaxChunks -> Nat] : g[0] = 0 /\ \A k \in 1 .. MaxChunks : g[k] = step[k][g[k - 1]]
  <2> HIDE DEF step
  <2>1. \E g : Trace(g, Nat, 0, MaxChunks, step)
    BY <1>2, LoopHasTrace, 0 \in Nat
  <2> QED
    BY <2>1 DEF Trace
<1>4. Eq(g)
  <2>1. \A k \in 1 .. MaxChunks : g[k] = turn(k, g[k - 1])
    <3> HIDE DEF turn, Eq, step, x
    <3> SUFFICES ASSUME NEW k \in 1 .. MaxChunks PROVE g[k] = turn(k, g[k - 1])
      OBVIOUS
    <3>1. k - 1 \in 0 .. MaxChunks
      BY EarlierIndex
    <3>2. g[k - 1] \in Nat
      BY <3>1
    <3>3. g[k] = step[k][g[k - 1]]
      BY <1>3
    <3>4. step[k] = [v \in Nat |-> turn(k, v)]
      BY DEF step
    <3> QED
      BY <3>2, <3>3, <3>4
  <2>2. \A k \in 1 .. MaxChunks : g[k] = g[k - 1] + x * chunkRate(f, k - 1)
    BY <2>1
  <2> DEFINE value(k) == IF k = 0 THEN 0 ELSE g[k - 1] + x * chunkRate(f, k - 1)
  <2>3. ASSUME NEW k \in 0 .. MaxChunks PROVE g[k] = value(k)
    <3> HIDE DEF x
    <3>1. CASE k = 0
      BY <1>3, <3>1
    <3>2. CASE k # 0
      <4>1. k \in 1 .. MaxChunks
        BY <3>2
      <4> QED
        BY <2>2, <3>2, <4>1
    <3> QED
      BY <3>1, <3>2
  <2>4. g = [k \in 0 .. MaxChunks |-> value(k)]
    <3> HIDE DEF value
    <3> QED
      BY <2>3
  <2> QED
    BY <2>4, Zenon
<1> DEFINE h == CHOOSE g1 : Eq(g1)
<1>5. Eq(h)
  <2> HIDE DEF Eq
  <2> QED
    BY <1>4, Zenon
<1>6. chunkFees(f) = h
  BY Zenon DEF chunkFees
<1> HIDE DEF h
<1>7. h[0] = 0 /\ \A k \in 1 .. MaxChunks : h[k] = h[k - 1] + x * chunkRate(f, k - 1)
  <2> HIDE DEF x
  <2>1. 0 \in 0 .. MaxChunks /\ \A k \in 1 .. MaxChunks : k \in 0 .. MaxChunks /\ k # 0
    OBVIOUS
  <2> QED
    BY <1>5, <2>1
<1>8. \A k \in 0 .. MaxChunks - 1 : h[k + 1] = h[k] + x * rate[k]
  <2> SUFFICES ASSUME NEW k \in 0 .. MaxChunks - 1 PROVE h[k + 1] = h[k] + x * rate[k]
    OBVIOUS
  <2>1. k + 1 \in 1 .. MaxChunks /\ (k + 1) - 1 = k /\ k \in Nat
    OBVIOUS
  <2>2. h[k + 1] = h[(k + 1) - 1] + x * chunkRate(f, (k + 1) - 1)
    BY <1>7, <2>1
  <2> QED
    BY <2>1, <2>2
<1> DEFINE S == {k \in 0 .. MaxChunks : h[k] \in Nat}
<1>9. 0 .. MaxChunks \subseteq S
  <2>1. 0 \in S
    BY <1>7, 0 \in 0 .. MaxChunks, 0 \in Nat
  <2>2. \A k \in 0 .. MaxChunks - 1 : k \in S => k + 1 \in S
    <3> SUFFICES ASSUME NEW k \in 0 .. MaxChunks - 1, k \in S PROVE k + 1 \in S
      OBVIOUS
    <3>1. rate[k] \in Nat /\ k + 1 \in 0 .. MaxChunks
      <4>1. k \in Nat /\ k + 1 \in 0 .. MaxChunks
        OBVIOUS
      <4>2. rate[k] \in Nat
        BY <4>1, Zenon
      <4> QED
        BY <4>1, <4>2
    <3>2. x * rate[k] \in Nat
      BY <3>1, MulIsNat
    <3>3. h[k + 1] = h[k] + x * rate[k] /\ h[k] \in Nat
      BY <1>8
    <3>4. ASSUME NEW v \in Nat, NEW y \in Nat PROVE v + y \in Nat
      OBVIOUS
    <3>5. h[k] + x * rate[k] \in Nat
      BY <3>2, <3>3, <3>4, Zenon
    <3> QED
      BY <3>1, <3>3, <3>5, Zenon
  <2> HIDE DEF S
  <2> QED
    BY <2>1, <2>2, Induction
<1> QED
  BY <1>6, <1>7, <1>8, <1>9

\* Half of n * (n + 1), from one n to the next.
LEMMA TriangleGrows ==
    ASSUME NEW n \in Nat
    PROVE  /\ (n * (n + 1)) \div 2 \in Nat
           /\ ((n + 1) * (n + 2)) \div 2 = (n * (n + 1)) \div 2 + (n + 1)
<1> DEFINE k == n * (n + 1)
<1>1. k \in Nat /\ (n + 1) * (n + 2) = k + 2 * (n + 1)
  <2>1. n * (n + 1) \in Nat
    BY MulIsNat, n + 1 \in Nat
  <2> QED
    BY <2>1
<1> HIDE DEF k
<1>2. (k + 2 * (n + 1)) \div 2 = k \div 2 + (n + 1)
  BY <1>1
<1> QED
  BY <1>1, <1>2 DEF k

\* The rates of the first chunks, added up, with the last one of them a chunk further.
LEMMA ChunkSumGrows ==
    ASSUME NEW c \in Nat, NEW incr \in Nat, NEW n \in Nat
    PROVE  /\ chunkSum(c, incr, n) \in Nat
           /\ chunkSum(c, incr, 0) = c
           /\ chunkSum(c, incr, n + 1) = chunkSum(c, incr, n) + (c + (n + 1) * incr)
<1> DEFINE t(j) == (j * (j + 1)) \div 2
<1>1. t(n) \in Nat /\ t(n + 1) = t(n) + (n + 1) /\ t(0) = 0
  <2>1. (n + 1) * ((n + 1) + 1) = (n + 1) * (n + 2)
    OBVIOUS
  <2> QED
    BY <2>1, TriangleGrows
<1>2. \A j : chunkSum(c, incr, j) = c + c * j + incr * t(j)
  BY DEF chunkSum
<1> HIDE DEF t
<1>3. incr * (t(n) + (n + 1)) = incr * t(n) + (n + 1) * incr /\ c * (n + 1) = c * n + c
      /\ incr * t(n) \in Nat /\ c * n \in Nat /\ incr * 0 = 0 /\ c * 0 = 0
  BY <1>1, MulIsNat
<1>4. (n + 1) * incr \in Nat
  BY MulIsNat, n + 1 \in Nat
<1>5. chunkSum(c, incr, n) = c + c * n + incr * t(n) /\ chunkSum(c, incr, 0) = c + c * 0 + incr * t(0)
      /\ chunkSum(c, incr, n + 1) = c + c * (n + 1) + incr * t(n + 1)
  BY <1>2
<1>6. chunkSum(c, incr, n) \in Nat /\ chunkSum(c, incr, 0) = c
  BY <1>1, <1>3, <1>5
<1>7. chunkSum(c, incr, n + 1) = c + (c * n + c) + (incr * t(n) + (n + 1) * incr)
  BY <1>1, <1>3, <1>5
<1> QED
  BY <1>3, <1>4, <1>5, <1>6, <1>7

\* What the lemma needs of the rates of the chunks and of what the chunks add up to.
SumsTheChunks(c, incr, cap, x, rate, sum, bound) ==
    /\ rate \in [Nat -> Nat] /\ \A k \in Nat : rate[k] = lesser(c + k * incr, cap)
    /\ sum[0] = 0 /\ \A k \in 0 .. bound : sum[k] \in Nat
    /\ \A k \in 0 .. bound - 1 : sum[k + 1] = sum[k] + x * rate[k]

\* The closed form at any number of chunks: the climbing rates up to the cap, then the cap.
LEMMA SumOfChunks ==
    ASSUME NEW c \in Nat, NEW incr \in Pos, NEW cap \in Nat, c < cap, NEW x \in Nat,
           NEW rate, NEW sum, NEW bound \in Nat, NEW n \in 0 .. bound - 1,
           SumsTheChunks(c, incr, cap, x, rate, sum, bound)
    PROVE  LET m == maxIndex(c, incr, cap)
           IN  /\ m \in Nat
               /\ rate[n] = IF n <= m THEN c + n * incr ELSE cap
               /\ sum[n + 1] = IF n <= m THEN x * chunkSum(c, incr, n)
                               ELSE x * chunkSum(c, incr, m) + (n - m) * x * cap
<1> DEFINE m == maxIndex(c, incr, cap)
           T(j) == chunkSum(c, incr, j)
<1>0. /\ rate \in [Nat -> Nat] /\ \A k \in Nat : rate[k] = lesser(c + k * incr, cap)
      /\ sum[0] = 0 /\ \A k \in 0 .. bound : sum[k] \in Nat
      /\ \A k \in 0 .. bound - 1 : sum[k + 1] = sum[k] + x * rate[k]
  BY DEF SumsTheChunks
<1>1. m \in Nat /\ \A k \in Nat : k * incr <= cap - c <=> k <= m
  <2>1. m = (cap - c) \div incr /\ cap - c \in Nat
    BY DEF maxIndex
  <2> QED
    BY <2>1, DivFacts, FloorIsGreatest
<1> HIDE DEF m
<1>2. ASSUME NEW k \in Nat
      PROVE  rate[k] = IF k <= m THEN c + k * incr ELSE cap
  <2>1. k * incr \in Nat /\ (k * incr <= cap - c <=> k <= m)
    BY <1>1, MulIsNat DEF Pos
  <2>2. rate[k] = lesser(c + k * incr, cap)
    BY <1>0
  <2> DEFINE y == k * incr
  <2> HIDE DEF y
  <2>3. y \in Nat /\ (y <= cap - c <=> k <= m) /\ rate[k] = lesser(c + y, cap)
    BY <2>1, <2>2 DEF y
  <2>4. rate[k] = IF k <= m THEN c + y ELSE cap
    BY <1>1, <2>3 DEF lesser
  <2> QED
    BY <2>4 DEF y
<1>3. ASSUME NEW k \in Nat
      PROVE  T(k) \in Nat /\ T(0) = c /\ T(k + 1) = T(k) + (c + (k + 1) * incr)
  <2>1. incr \in Nat
    BY DEF Pos
  <2> QED
    <3>1. chunkSum(c, incr, k) \in Nat
      BY <2>1, ChunkSumGrows
    <3>2. chunkSum(c, incr, 0) = c
      BY <2>1, ChunkSumGrows
    <3>3. chunkSum(c, incr, k + 1) = chunkSum(c, incr, k) + (c + (k + 1) * incr)
      BY <2>1, ChunkSumGrows
    <3> QED
      BY <3>1, <3>2, <3>3
<1> HIDE DEF T
<1> DEFINE closed(k) == IF k <= m THEN x * T(k) ELSE x * T(m) + (k - m) * x * cap
           S == {k \in 0 .. bound - 1 : sum[k + 1] = closed(k)}
<1>4. 0 \in S
  <2>1. 0 \in 0 .. bound - 1 /\ 0 \in 0 .. bound
    OBVIOUS
  <2>2. sum[0 + 1] = sum[0] + x * rate[0] /\ 0 + 1 = 1
    BY <1>0, <2>1
  <2>3. rate[0] = c
    <3>1. rate[0] = c + 0 * incr /\ 0 * incr = 0
      BY <1>1, <1>2 DEF Pos
    <3> QED
      BY <3>1
  <2>4. closed(0) = x * c
    BY <1>1, <1>3
  <2>5. x * c \in Nat
    BY MulIsNat
  <2> HIDE DEF closed
  <2> QED
    BY <1>0, <2>1, <2>2, <2>3, <2>4, <2>5
<1>5. ASSUME NEW k \in 0 .. (bound - 1) - 1, k \in S
      PROVE  k + 1 \in S
  <2>1. k \in Nat /\ k + 1 \in Nat /\ k + 1 \in 0 .. bound - 1 /\ x \in Nat /\ cap \in Nat
    OBVIOUS
  <2>2. sum[(k + 1) + 1] = closed(k) + x * rate[k + 1]
    BY <1>0, <1>5, <2>1
  <2>3. /\ T(k) \in Nat /\ T(m) \in Nat /\ T(k + 1) = T(k) + (c + (k + 1) * incr)
        /\ T(k + 1) \in Nat
    BY <1>1, <1>3, <2>1
  <2>4. rate[k + 1] = IF k + 1 <= m THEN c + (k + 1) * incr ELSE cap
    BY <1>2, <2>1
  <2>5. (k + 1) * incr \in Nat
    BY <2>1, MulIsNat DEF Pos
  <2>6. CASE k + 1 <= m
    <3>1. closed(k) = x * T(k) /\ closed(k + 1) = x * T(k + 1) /\ rate[k + 1] = c + (k + 1) * incr
      BY <1>1, <2>1, <2>4, <2>6
    <3> DEFINE r == c + (k + 1) * incr
               t == T(k)
    <3>2. r \in Nat /\ t \in Nat /\ T(k + 1) = t + r
      BY <2>3, <2>5
    <3> HIDE DEF r, t
    <3>3. x * (t + r) = x * t + x * r
      BY <2>1, <3>2
    <3>4. sum[(k + 1) + 1] = closed(k + 1)
      <4> HIDE DEF closed
      <4> QED
        BY <2>2, <3>1, <3>2, <3>3 DEF r, t
    <3> QED
      BY <2>1, <3>4
  <2>7. CASE k + 1 = m + 1
    <3>1. k = m
      BY <1>1, <2>1, <2>7
    <3>2. closed(k) = x * T(m) /\ closed(k + 1) = x * T(m) + (m + 1 - m) * x * cap /\ rate[k + 1] = cap
      BY <1>1, <2>1, <2>4, <3>1
    <3>3. (m + 1 - m) * x * cap = x * cap
      <4>1. m + 1 - m = 1 /\ 1 * x = x
        BY <1>1
      <4> QED
        BY <4>1
    <3>4. sum[(k + 1) + 1] = closed(k + 1)
      <4> HIDE DEF closed
      <4> QED
        BY <2>2, <3>2, <3>3
    <3> QED
      BY <2>1, <3>4
  <2>8. CASE k + 1 > m + 1
    <3> DEFINE d == k - m
               y == x * T(m)
    <3>1. d \in Nat /\ (k + 1) - m = d + 1
      BY <1>1, <2>1, <2>8
    <3>2. closed(k) = y + d * x * cap /\ closed(k + 1) = y + (d + 1) * x * cap /\ rate[k + 1] = cap
      <4>1. ~(k <= m) /\ ~(k + 1 <= m)
        BY <1>1, <2>1, <2>8
      <4>2. /\ closed(k) = x * T(m) + (k - m) * x * cap
            /\ closed(k + 1) = x * T(m) + ((k + 1) - m) * x * cap /\ rate[k + 1] = cap
        <5>1. closed(k) = x * T(m) + (k - m) * x * cap
          BY <4>1, Zenon
        <5>2. closed(k + 1) = x * T(m) + ((k + 1) - m) * x * cap
          BY <4>1, Zenon
        <5> QED
          BY <2>4, <4>1, <5>1, <5>2, Zenon
      <4> HIDE DEF closed, d
      <4> QED
        BY <3>1, <4>2 DEF d
    <3>3. y \in Nat
      BY <2>1, <2>3, MulIsNat
    <3> HIDE DEF d, y
    <3>4. (d + 1) * x * cap = d * x * cap + x * cap /\ d * x * cap \in Nat /\ x * cap \in Nat
      <4>1. d * x \in Nat
        BY <2>1, <3>1, MulIsNat
      <4>2. (d + 1) * x = d * x + x
        BY <2>1, <3>1
      <4> DEFINE w == d * x
      <4> HIDE DEF w
      <4>3. w \in Nat /\ (d + 1) * x = w + x
        BY <4>1, <4>2 DEF w
      <4>4. (w + x) * cap = w * cap + x * cap /\ w * cap \in Nat /\ x * cap \in Nat
        BY <2>1, <4>3, MulIsNat
      <4> QED
        BY <4>3, <4>4 DEF w
    <3>5. sum[(k + 1) + 1] = closed(k + 1)
      <4> HIDE DEF closed
      <4> QED
        BY <2>2, <3>2, <3>3, <3>4
    <3> QED
      BY <2>1, <3>5
  <2> QED
    BY <1>1, <2>1, <2>6, <2>7, <2>8
<1>6. n \in S
  <2> HIDE DEF S
  <2>1. bound - 1 \in Nat /\ 0 .. bound - 1 \subseteq S
    <3>1. bound - 1 \in Nat
      OBVIOUS
    <3>2. \A k \in 0 .. (bound - 1) - 1 : k \in S => k + 1 \in S
      BY <1>5
    <3> QED
      BY <1>4, <3>1, <3>2, Induction
  <2> QED
    BY <2>1
<1>7. rate[n] = IF n <= m THEN c + n * incr ELSE cap
  BY <1>2, n \in Nat
<1> QED
  BY <1>1, <1>6, <1>7 DEF m, T

\* An input in chunks of x, and what the code makes of it: it takes one chunk off first.
LEMMA ChunksOfInput ==
    ASSUME NEW a \in Nat, NEW x \in Pos
    PROVE  /\ a \div x \in Nat /\ a % x \in 0 .. x - 1 /\ a = (a \div x) * x + (a % x)
           /\ a < x => a \div x = 0
           /\ x <= a => /\ a \div x >= 1
                        /\ (a - x) \div x = (a \div x) - 1
                        /\ (a - x) % x = a % x
<1> DEFINE q == a \div x
           r == a % x
<1>1. q \in Nat /\ r \in 0 .. x - 1 /\ a = x * q + r /\ x * q = q * x
  <2>1. q \in Nat /\ r \in 0 .. x - 1 /\ a = x * q + r
    BY DivFacts
  <2> QED
    BY <2>1, MulIsNat DEF Pos
<1>2. ASSUME a < x PROVE q = 0
  <2>1. ~(1 * x <= a)
    BY <1>2 DEF Pos
  <2>2. ~(1 <= q)
    BY <2>1, FloorIsGreatest, 1 \in Nat
  <2> QED
    BY <1>1, <2>2
<1>3. ASSUME x <= a PROVE q >= 1 /\ (a - x) \div x = q - 1 /\ (a - x) % x = r
  <2>1. 1 * x <= a
    BY <1>3 DEF Pos
  <2>2. q >= 1
    BY <1>1, <2>1, FloorIsGreatest, 1 \in Nat
  <2> DEFINE b == a - x
             p == b \div x
             s == b % x
  <2>3. b \in Nat /\ p \in Nat /\ s \in 0 .. x - 1 /\ b = x * p + s
    <3>1. b \in Nat
      BY <1>3 DEF Pos
    <3> HIDE DEF b
    <3> QED
      BY <3>1, DivFacts
  <2>4. ASSUME NEW j \in Nat PROVE j <= p <=> j + 1 <= q
    <3>1. j * x <= b <=> j <= p
      BY <2>3, FloorIsGreatest
    <3>2. (j + 1) * x <= a <=> j + 1 <= q
      BY FloorIsGreatest, j + 1 \in Nat
    <3>3. (j + 1) * x = j * x + x /\ j * x \in Nat
      BY MulIsNat DEF Pos
    <3> HIDE DEF p, q
    <3> QED
      BY <3>1, <3>2, <3>3 DEF Pos
  <2>5. p = q - 1
    <3>1. p <= p /\ q - 1 \in Nat
      BY <1>1, <2>2, <2>3
    <3>2. p + 1 <= q
      BY <2>3, <2>4, <3>1
    <3>3. q - 1 <= p
      <4>1. (q - 1) + 1 <= q
        BY <1>1
      <4> QED
        BY <2>4, <3>1, <4>1
    <3> HIDE DEF p, q
    <3> QED
      BY <1>1, <2>3, <3>2, <3>3
  <2>6. s = r
    <3>1. a - x = x * p + s
      BY <2>3
    <3> HIDE DEF p, q, s, r, b
    <3>2. x * (q - 1) = x * q - x
      BY <1>1 DEF Pos
    <3> QED
      BY <1>1, <2>3, <2>5, <3>1, <3>2 DEF Pos
  <2> HIDE DEF p, q, s, r
  <2> QED
    BY <2>2, <2>5, <2>6 DEF p, q, s, r
<1> QED
  BY <1>1, <1>2, <1>3

\* The closed form a rate limiter computes, for any cliff, increment, cap and input, is
\* the fee of each chunk at that chunk's rate, added up.
LEMMA ClosedFormIsPerChunk ==
    ASSUME NEW f, f.mode = RateLimiter, f.cliff \in Nat, f.feeIncrementBps \in Nat,
           f.maxFeeBps \in Nat, f.referenceAmount \in Pos,
           f.maxFeeBps * bpsToFeeNumerator > f.cliff, MaxChunks \in Nat,
           NEW a \in Nat, a <= MaxChunks * f.referenceAmount
    PROVE  RateLimiterFee(f, a) = ceilDivFeeDenominator(chargedByChunk(f, chunkFees(f), a))
<1> DEFINE c    == f.cliff
           x    == f.referenceAmount
           incr == f.feeIncrementBps * bpsToFeeNumerator
           cap  == f.maxFeeBps * bpsToFeeNumerator
           rate == [k \in Nat |-> lesser(c + k * incr, cap)]
           sum  == chunkFees(f)
           k    == a \div x
           b    == a % x
           m    == maxIndex(c, incr, cap)
           T(j) == chunkSum(c, incr, j)
<1>1. /\ c \in Nat /\ x \in Pos /\ x \in Nat /\ bpsToFeeNumerator \in Nat
      /\ incr \in Nat /\ cap \in Nat /\ c < cap
  <2>1. bpsToFeeNumerator \in Nat
    BY DammMathAssumption, DivFacts DEF bpsToFeeNumerator, Pos
  <2> QED
    BY <2>1, MulIsNat DEF Pos
<1>2. /\ chargedByChunk(f, sum, a) = sum[k] + b * chunkRate(f, k)
      /\ RateLimiterFee(f, a) =
             IF incr = 0 \/ a <= x THEN ceilDivFeeDenominator(a * c)
             ELSE IF (a - x) \div x < m
             THEN ceilDivFeeDenominator(x * T((a - x) \div x) + ((a - x) % x) * (c + incr * (((a - x) \div x) + 1)))
             ELSE ceilDivFeeDenominator(x * T(m) + ((((a - x) \div x) - m) * x + ((a - x) % x)) * cap)
  <2>1. f.mode = RateLimiter /\ x # 0 /\ ~(cap <= c)
    BY <1>1 DEF Pos
  <2> QED
    BY <2>1 DEF chargedByChunk, RateLimiterFee
<1>3. /\ rate \in [Nat -> Nat]
      /\ \A j \in Nat : rate[j] = lesser(c + j * incr, cap) /\ chunkRate(f, j) = rate[j]
  <2>1. ASSUME NEW j \in Nat
        PROVE  lesser(c + j * incr, cap) \in Nat /\ chunkRate(f, j) = lesser(c + j * incr, cap)
    <3>1. j * incr \in Nat /\ j * f.feeIncrementBps * bpsToFeeNumerator = j * incr
      BY <1>1, MulIsNat
    <3> DEFINE y == j * incr
    <3>2. y \in Nat /\ chunkRate(f, j) = lesser(c + y, cap)
      BY <3>1 DEF chunkRate
    <3> HIDE DEF y, c, cap
    <3>3. lesser(c + y, cap) \in Nat
      BY <1>1, <3>2 DEF lesser
    <3> QED
      BY <3>2, <3>3 DEF y
  <2> HIDE DEF c, incr, cap
  <2> QED
    BY <2>1
<1>4. /\ k \in Nat /\ b \in 0 .. x - 1 /\ a = k * x + b
      /\ a < x => k = 0
      /\ x <= a => k >= 1 /\ (a - x) \div x = k - 1 /\ (a - x) % x = b
  BY <1>1, ChunksOfInput
<1>5. k <= MaxChunks
  <2>1. ~(MaxChunks + 1 <= k)
    <3>1. (MaxChunks + 1) * x <= a <=> MaxChunks + 1 <= k
      BY <1>1, FloorIsGreatest, MaxChunks + 1 \in Nat
    <3>2. (MaxChunks + 1) * x = MaxChunks * x + x /\ MaxChunks * x \in Nat
      BY <1>1, MulIsNat
    <3> HIDE DEF k
    <3> QED
      BY <1>1, <3>1, <3>2 DEF Pos
  <2> HIDE DEF k
  <2> QED
    BY <1>4, <2>1
<1> HIDE DEF rate
<1>6. /\ sum[0] = 0
      /\ \A j \in 0 .. MaxChunks : sum[j] \in Nat
      /\ \A j \in 0 .. MaxChunks - 1 : sum[j + 1] = sum[j] + x * rate[j]
  BY <1>1, <1>3, ChunkFeesAddUp
<1> HIDE DEF c, x, incr, cap, sum, k, b, m, T
<1>7. ASSUME NEW j \in 0 .. MaxChunks - 1, incr # 0
      PROVE  /\ m \in Nat
             /\ rate[j] = IF j <= m THEN c + j * incr ELSE cap
             /\ sum[j + 1] = IF j <= m THEN x * T(j) ELSE x * T(m) + (j - m) * x * cap
  <2>1. incr \in Pos
    BY <1>1, <1>7 DEF Pos
  <2>2. \A i \in Nat : rate[i] = lesser(c + i * incr, cap)
    BY <1>3
  <2>3. c \in Nat /\ cap \in Nat /\ c < cap /\ x \in Nat /\ rate \in [Nat -> Nat]
    BY <1>1, <1>3
  <2>4. /\ sum[0] = 0
        /\ \A i \in 0 .. MaxChunks : sum[i] \in Nat
        /\ \A i \in 0 .. MaxChunks - 1 : sum[i + 1] = sum[i] + x * rate[i]
    BY <1>6
  <2>5. SumsTheChunks(c, incr, cap, x, rate, sum, MaxChunks)
    BY <2>2, <2>3, <2>4 DEF SumsTheChunks
  <2> QED
    BY <2>1, <2>3, <2>5, SumOfChunks DEF m, T
<1>8. chunkRate(f, k) = rate[k] /\ rate[k] \in Nat /\ sum[k] \in Nat
  BY <1>3, <1>4, <1>5, <1>6
<1>9. CASE incr = 0
  <2>1. \A j \in Nat : rate[j] = c
    <3> SUFFICES ASSUME NEW j \in Nat PROVE rate[j] = c
      OBVIOUS
    <3>1. j * incr = 0
      BY <1>9
    <3> QED
      BY <1>1, <1>3, <3>1 DEF lesser
  <2> DEFINE S == {j \in 0 .. MaxChunks : sum[j] = j * (x * c)}
  <2>2. x * c \in Nat
    BY <1>1, MulIsNat
  <2>3. 0 \in S
    BY <1>6, <2>2
  <2>4. ASSUME NEW j \in 0 .. MaxChunks - 1, j \in S PROVE j + 1 \in S
    <3>1. sum[j + 1] = sum[j] + x * c /\ sum[j] = j * (x * c) /\ j + 1 \in 0 .. MaxChunks
      BY <1>6, <2>1, <2>4
    <3> DEFINE y == x * c
    <3>2. y \in Nat /\ sum[j + 1] = j * y + y
      BY <2>2, <3>1
    <3> HIDE DEF y
    <3>3. (j + 1) * y = j * y + y
      BY <3>2
    <3> QED
      BY <3>1, <3>2, <3>3 DEF y
  <2>5. sum[k] = k * (x * c)
    <3> HIDE DEF S
    <3>1. 0 .. MaxChunks \subseteq S
      BY <2>3, <2>4, Induction
    <3>2. k \in S
      BY <1>4, <1>5, <3>1
    <3> QED
      BY <3>2 DEF S
  <2>6. a * c = k * (x * c) + b * c
    BY <1>1, <1>4
  <2> QED
    BY <1>2, <1>4, <1>8, <1>9, <2>1, <2>5, <2>6 DEF sum
<1>10. CASE incr # 0 /\ a < x
  <2>1. k = 0 /\ a = b
    BY <1>1, <1>4, <1>10
  <2>2. rate[0] = c
    <3>1. 0 * incr = 0
      BY <1>1
    <3> QED
      BY <1>1, <1>3, <3>1 DEF lesser
  <2>3. sum[k] + b * chunkRate(f, k) = a * c
    <3>1. a * c \in Nat
      BY <1>1, MulIsNat
    <3> QED
      BY <1>6, <1>8, <2>1, <2>2, <3>1
  <2> QED
    BY <1>1, <1>2, <1>10, <2>3 DEF sum
<1>11. CASE incr # 0 /\ x <= a
  <2> DEFINE j == k - 1
  <2>1. j \in 0 .. MaxChunks - 1 /\ j + 1 = k /\ j \in Nat
        /\ (a - x) \div x = j /\ (a - x) % x = b
    BY <1>4, <1>5, <1>11
  <2> HIDE DEF j
  <2>2. /\ m \in Nat
        /\ sum[k] = IF j <= m THEN x * T(j) ELSE x * T(m) + (j - m) * x * cap
    BY <1>7, <1>11, <2>1
  <2>3. rate[k] = IF k <= m THEN c + k * incr ELSE cap
    <3> DEFINE y == k * incr
    <3>1. rate[k] = lesser(c + y, cap) /\ y \in Nat
      BY <1>1, <1>3, <1>4, MulIsNat
    <3>2. y <= cap - c <=> k <= m
      <4>1. m = (cap - c) \div incr /\ cap - c \in Nat /\ incr \in Pos
        BY <1>1, <1>11 DEF maxIndex, m, Pos
      <4> QED
        BY <1>4, <4>1, FloorIsGreatest
    <3> HIDE DEF y
    <3>3. rate[k] = IF k <= m THEN c + y ELSE cap
      BY <1>1, <3>1, <3>2 DEF lesser
    <3> QED
      BY <3>3 DEF y
  <2>4. CASE a = x
    <3>1. k = 1 /\ b = 0 /\ j = 0
      <4>1. a - x = 0 /\ 0 \div x = 0 /\ 0 % x = 0
        BY <1>1, <2>4 DEF Pos
      <4> QED
        BY <1>4, <2>1, <4>1
    <3>2. T(0) = c
      BY <1>1, ChunkSumGrows DEF T
    <3>3. sum[k] = x * c
      BY <2>2, <3>1, <3>2
    <3>4. b * chunkRate(f, k) = 0
      BY <1>8, <3>1
    <3>5. x * c \in Nat
      BY <1>1, MulIsNat
    <3> QED
      BY <1>2, <2>4, <3>3, <3>4, <3>5 DEF sum
  <2>5. CASE a # x /\ j < m
    <3>1. ~(incr = 0 \/ a <= x) /\ k <= m /\ j <= m
      BY <1>1, <1>4, <1>11, <2>1, <2>2, <2>5
    <3>2. RateLimiterFee(f, a) = ceilDivFeeDenominator(x * T(j) + b * (c + incr * (j + 1)))
      BY <1>2, <2>1, <2>5, <3>1
    <3>3. chargedByChunk(f, sum, a) = x * T(j) + b * (c + k * incr)
      BY <1>2, <1>8, <2>2, <2>3, <3>1
    <3>4. incr * (j + 1) = k * incr
      BY <1>1, <1>4, <2>1, MulIsNat
    <3> QED
      BY <3>2, <3>3, <3>4 DEF sum
  <2>6. CASE a # x /\ ~(j < m)
    <3>1. ~(incr = 0 \/ a <= x) /\ ~(k <= m)
      BY <1>1, <1>4, <1>11, <2>1, <2>2, <2>6
    <3>2. RateLimiterFee(f, a) = ceilDivFeeDenominator(x * T(m) + ((j - m) * x + b) * cap)
      BY <1>2, <2>1, <2>6, <3>1
    <3>3. chargedByChunk(f, sum, a) = sum[k] + b * cap
      BY <1>2, <1>8, <2>3, <3>1
    <3>4. sum[k] = x * T(m) + ((j - m) * x) * cap
      <4>1. CASE j <= m
        <5>1. j = m /\ j - m = 0
          BY <2>1, <2>2, <2>6, <4>1
        <5>2. 0 * x = 0 /\ 0 * cap = 0
          BY <1>1
        <5>3. sum[k] = x * T(m)
          BY <2>2, <5>1
        <5>4. x * T(m) \in Nat
          <6>1. T(m) \in Nat
            BY <1>1, <2>2, ChunkSumGrows DEF T
          <6> QED
            BY <1>1, <6>1, MulIsNat
        <5> QED
          BY <5>1, <5>2, <5>3, <5>4
      <4>2. CASE ~(j <= m)
        BY <2>2, <4>2
      <4> QED
        BY <4>1, <4>2
    <3>5. ((j - m) * x + b) * cap = ((j - m) * x) * cap + b * cap
      <4> DEFINE d == (j - m) * x
      <4>1. d \in Int /\ b \in Int /\ cap \in Int
        BY <1>1, <1>4, <2>1, <2>2
      <4> HIDE DEF d
      <4>2. (d + b) * cap = d * cap + b * cap
        BY <4>1
      <4> QED
        BY <4>2 DEF d
    <3>6. /\ x * T(m) \in Int /\ ((j - m) * x) * cap \in Int /\ b * cap \in Int
      <4>1. T(m) \in Nat
        BY <1>1, <2>2, ChunkSumGrows DEF T
      <4>2. j - m \in Int
        BY <2>1, <2>2
      <4>3. (j - m) * x \in Int
        BY <1>1, <4>2
      <4> QED
        BY <1>1, <1>4, <4>1, <4>3
    <3> QED
      BY <3>2, <3>3, <3>4, <3>5, <3>6 DEF sum
  <2> QED
    BY <2>1, <2>4, <2>5, <2>6
<1>12. a < x \/ x <= a
  BY <1>1
<1> QED
  BY <1>9, <1>10, <1>11, <1>12

\* The closed form of a rate limiter's fee (damm_rate_limiter.go:46-59) is what charging
\* the input chunk by chunk adds up to, whatever the chunk, the cliff, the increment and
\* the cap, and for any number of chunks.
THEOREM LimiterIsPerChunk == Spec => []RateLimiterIsPerChunk
<1>1. DammInv => RateLimiterIsPerChunk
  <2> DEFINE f == ParseDAMMBaseFee(pool.baseFeeInfo)
  <2> SUFFICES ASSUME DammInv, RateLimiterApplies(f, point, pool.activationPoint, TRUE),
                      f.maxFeeBps * bpsToFeeNumerator > f.cliff,
                      NEW a \in 0 .. lesser(U64Max, MaxChunks * f.referenceAmount)
               PROVE  RateLimiterFee(f, a) = ceilDivFeeDenominator(chargedByChunk(f, chunkFees(f), a))
    BY DEF RateLimiterIsPerChunk
  <2>1. pool.baseFeeInfo \in Blobs
    BY DEF DammInv, DammTypes, Accounts
  <2>2. f.mode = RateLimiter /\ f.referenceAmount # 0
    BY DEF RateLimiterApplies
  <2>3. f.mode = pool.baseFeeInfo.mode
    BY DEF ParseDAMMBaseFee, RateLimiter, Mcap
  <2>4. /\ f.cliff = pool.baseFeeInfo.cliff /\ f.feeIncrementBps = pool.baseFeeInfo.at14
        /\ f.maxFeeBps = pool.baseFeeInfo.at20 /\ f.referenceAmount = pool.baseFeeInfo.at24
    BY <2>2, <2>3 DEF ParseDAMMBaseFee, RateLimiter, Mcap
  <2> HIDE DEF f
  <2>5. /\ f.cliff \in Nat /\ f.feeIncrementBps \in Nat /\ f.maxFeeBps \in Nat
        /\ f.referenceAmount \in Pos
    BY <2>1, <2>2, <2>4, DammMathAssumption DEF Blobs, Rates, Pos
  <2>6. MaxChunks \in Nat
    BY PoolAssumption
  <2>7. a \in Nat /\ a <= MaxChunks * f.referenceAmount
    <3> DEFINE y == MaxChunks * f.referenceAmount
    <3>1. y \in Nat /\ U64Max \in Int /\ a \in 0 .. lesser(U64Max, y)
      BY <2>5, <2>6, MulIsNat, DammMathAssumption DEF Pos, U64Max
    <3> HIDE DEF y
    <3>2. a \in Nat /\ a <= y
      BY <3>1 DEF lesser
    <3> QED
      BY <3>2 DEF y
  <2> QED
    BY <2>2, <2>5, <2>6, <2>7, ClosedFormIsPerChunk
<1> QED
  BY <1>1, PoolIsSound, PTL DEF Spec

=============================================================================
