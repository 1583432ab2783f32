---------------------------- MODULE DlmmSwapProofs ----------------------------
(***************************************************************************)
(* The DLMM quote for every price table, fee configuration, reserve and    *)
(* amount: one bin never takes more than it is offered nor gives more than *)
(* it has, and the walk over the bins drains them in order, lists their    *)
(* arrays once, and agrees with the repository's other translation of the  *)
(* same program.  No sequence of swaps wins one token for nothing.         *)
(***************************************************************************)
EXTENDS DlmmSwap, ArithmeticLemmas

-----------------------------------------------------------------------------
\* One bin

Rates == 0 .. MaxFeeRate

\* divCeil is the least quotient that covers.
LEMMA DivCeilIsLeast ==
    ASSUME NEW n \in Nat, NEW d \in Pos, NEW m \in Nat
    PROVE  /\ divCeil(n, d) \in Nat
           /\ n <= m * d <=> divCeil(n, d) <= m
BY CeilingIsLeast DEF divCeil

\* What is left of an amount after its fee (fees.go) is a natural number, and an
\* amount u fits in it exactly when u, grossed up by the rate, fits in the amount.
LEMMA ExcludedFits ==
    ASSUME NEW a \in Nat, NEW rate \in Rates, NEW u \in Nat
    PROVE  LET fee == ComputeFeeFromAmount(a, rate)
           IN  /\ fee \in 0 .. a
               /\ u <= a - fee <=> u * FeePrecision <= a * (FeePrecision - rate)
<1> DEFINE F == FeePrecision
           fee == ComputeFeeFromAmount(a, rate)
<1>1. F \in Pos /\ rate \in Nat /\ rate < F /\ F - rate \in Pos
  BY DlmmMathAssumption DEF Pos, Rates
<1>2. a * rate \in Nat /\ a * F \in Nat /\ a * rate <= a * F
  BY <1>1 DEF Pos
<1>3. fee = divCeil(a * rate, F)
  BY DEF ComputeFeeFromAmount
<1>4. fee \in Nat /\ fee <= a
  BY <1>1, <1>2, <1>3, DivCeilIsLeast
<1>5. CASE u <= a
  <2>1. a - u \in Nat
    BY <1>5
  <2>2. a * rate <= (a - u) * F <=> fee <= a - u
    BY <2>1, <1>1, <1>2, <1>3, DivCeilIsLeast
  <2>3. (a - u) * F = a * F - u * F /\ a * (F - rate) = a * F - a * rate /\ u * F \in Nat
    BY <1>1 DEF Pos
  <2> HIDE DEF F, fee
  <2>4. u <= a - fee <=> u * F <= a * (F - rate)
    BY <2>2, <2>3, <1>2, <1>4
  <2> QED
    BY <2>4, <1>4 DEF F, fee
<1>6. CASE u > a
  <2>1. a * F < u * F
    BY <1>1, <1>6, MulStrict
  <2>2. a * (F - rate) = a * F - a * rate /\ u * F \in Nat
    BY <1>1 DEF Pos
  <2> HIDE DEF F, fee
  <2>3. ~(u <= a - fee) /\ ~(u * F <= a * (F - rate))
    BY <2>1, <2>2, <1>2, <1>4, <1>6
  <2> QED
    BY <2>3, <1>4 DEF F, fee
<1> QED
  BY <1>5, <1>6

\* The fee on top of u (fees.go) takes u to at most a exactly when u fits in what a
\* leaves after its own fee: the two fee formulas are adjoint.
LEMMA GrossFits ==
    ASSUME NEW a \in Nat, NEW rate \in Rates, NEW u \in Nat
    PROVE  /\ ComputeFee(u, rate) \in Nat
           /\ u + ComputeFee(u, rate) <= a <=> u * FeePrecision <= a * (FeePrecision - rate)
<1> DEFINE F == FeePrecision
           fee == ComputeFee(u, rate)
<1>1. F \in Pos /\ rate \in Nat /\ rate < F /\ F - rate \in Pos
  BY DlmmMathAssumption DEF Pos, Rates
<1>2. u * rate \in Nat /\ u * F \in Nat /\ u * (F - rate) = u * F - u * rate
      /\ a * (F - rate) \in Nat
  BY <1>1 DEF Pos
<1>3. fee = divCeil(u * rate, F - rate)
  BY DEF ComputeFee
<1>4. fee \in Nat
  BY <1>1, <1>2, <1>3, DivCeilIsLeast
<1>5. CASE u <= a
  <2>1. a - u \in Nat
    BY <1>5
  <2>2. u * rate <= (a - u) * (F - rate) <=> fee <= a - u
    BY <2>1, <1>1, <1>2, <1>3, DivCeilIsLeast
  <2>3. (a - u) * (F - rate) = a * (F - rate) - u * (F - rate)
    BY <1>1 DEF Pos
  <2> HIDE DEF F, fee
  <2>4. u + fee <= a <=> u * F <= a * (F - rate)
    BY <2>2, <2>3, <1>2, <1>4
  <2> QED
    BY <2>4, <1>4 DEF F, fee
<1>6. CASE u > a
  <2>1. a * (F - rate) < u * (F - rate)
    BY <1>1, <1>6, MulStrict
  <2> HIDE DEF F, fee
  <2>3. ~(u + fee <= a) /\ ~(u * F <= a * (F - rate))
    BY <2>1, <1>2, <1>4, <1>6
  <2> QED
    BY <2>3, <1>4 DEF F, fee
<1> QED
  BY <1>5, <1>6

\* GetAmountOutFromAmountIn and GetAmountInFromAmountOut are adjoint: an input gives
\* at least an output exactly when it is at least that output's price.
LEMMA PriceIsAdjoint ==
    ASSUME NEW in \in Nat, NEW out \in Nat, NEW price \in Pos, NEW y \in BOOLEAN
    PROVE  /\ GetAmountInFromAmountOut(out, price, y) \in Nat
           /\ GetAmountOutFromAmountIn(in, price, y) \in Nat
           /\ out <= GetAmountOutFromAmountIn(in, price, y)
                  <=> GetAmountInFromAmountOut(out, price, y) <= in
<1>1. Scale \in Pos /\ in * price \in Nat /\ in * Scale \in Nat
      /\ out * price \in Nat /\ out * Scale \in Nat
  BY DlmmMathAssumption DEF Pos
<1>2. CASE y
  <2>1. out * Scale <= in * price <=> out <= (in * price) \div Scale
    BY <1>1, FloorIsGreatest
  <2>2. (in * price) \div Scale \in Nat
    BY <1>1, DivFacts
  <2>3. divCeil(out * Scale, price) \in Nat
        /\ (out * Scale <= in * price <=> divCeil(out * Scale, price) <= in)
    BY <1>1, DivCeilIsLeast
  <2> QED
    BY <1>2, <2>1, <2>2, <2>3, Zenon DEF GetAmountInFromAmountOut, GetAmountOutFromAmountIn
<1>3. CASE ~y
  <2>1. out * price <= in * Scale <=> out <= (in * Scale) \div price
    BY <1>1, FloorIsGreatest
  <2>2. (in * Scale) \div price \in Nat
    BY <1>1, DivFacts
  <2>3. divCeil(out * price, Scale) \in Nat
        /\ (out * price <= in * Scale <=> divCeil(out * price, Scale) <= in)
    BY <1>1, DivCeilIsLeast
  <2> QED
    BY <1>3, <2>1, <2>2, <2>3, Zenon DEF GetAmountInFromAmountOut, GetAmountOutFromAmountIn
<1> QED
  BY <1>2, <1>3

LEMMA WrapFits ==
    ASSUME NEW n \in 0 .. U64Max
    PROVE  wrap(n) = n
BY DlmmMathAssumption DEF wrap

\* One bin of a quote (swapAtBin) consumes at most the input it is offered and gives at
\* most what the bin holds, no u64 subtraction wraps, and input is left over only when
\* the bin gave all it had: for every price, fee rate and direction, fee on the input or
\* on the output.
THEOREM BinIsHonest ==
    ASSUME NEW a \in 0 .. U64Max, NEW has \in Nat, NEW price \in Pos,
           NEW y \in BOOLEAN, NEW onIn \in BOOLEAN, NEW rate \in Rates,
           swapAtBin(a, has, price, y, onIn, rate).ok
    PROVE  LET r == swapAtBin(a, has, price, y, onIn, rate)
           IN  /\ r.consumed \in 0 .. a
               /\ r.gross \in 0 .. has
               /\ r.used \in 0 .. r.consumed
               /\ r.out \in 0 .. U64Max /\ r.out <= r.gross
               /\ r.consumed < a => r.gross = has
<1> DEFINE feeIn    == IF onIn THEN ComputeFeeFromAmount(a, rate) ELSE 0
           ex       == wrap(a - feeIn)
           maxIn    == GetAmountInFromAmountOut(has, price, y)
           partial  == GetAmountOutFromAmountIn(ex, price, y)
           out      == IF ex >= maxIn THEN has ELSE partial
           leftover == IF ex >= maxIn THEN ex - maxIn ELSE 0
           used     == ex - leftover
           feeUsed  == IF onIn /\ leftover > 0 THEN ComputeFee(used, rate) ELSE 0
           feeOut   == IF onIn THEN 0 ELSE ComputeFeeFromAmount(out, rate)
           r        == swapAtBin(a, has, price, y, onIn, rate)
<1>1. /\ r.ok = (fits(feeIn) /\ fits(maxIn) /\ fits(out) /\ fits(feeUsed) /\ fits(feeOut))
      /\ r.consumed = IF leftover > 0 THEN wrap(used + feeUsed) ELSE a
      /\ r.out = wrap(out - feeOut)
      /\ r.gross = out
      /\ r.used = used
  BY Zenon DEF swapAtBin
<1>2. a \in Nat /\ a <= U64Max
  BY DlmmMathAssumption
<1>3. feeIn \in 0 .. a
  BY <1>2, ExcludedFits
<1>4. ex = a - feeIn /\ ex \in 0 .. a
  <2>1. a - feeIn \in 0 .. a /\ a - feeIn \in 0 .. U64Max
    BY <1>2, <1>3, DlmmMathAssumption
  <2> HIDE DEF feeIn
  <2> QED
    BY <2>1, WrapFits
<1> HIDE DEF ex
<1>5. maxIn \in Nat /\ partial \in Nat /\ (has <= partial <=> maxIn <= ex)
  BY <1>4, PriceIsAdjoint
<1> HIDE DEF maxIn, partial
<1>6. out \in 0 .. has /\ leftover \in 0 .. ex /\ used \in 0 .. ex
      /\ (leftover > 0 => out = has)
  BY <1>4, <1>5
<1>7. feeOut \in 0 .. out
  BY <1>6, ExcludedFits
<1>8. out <= U64Max
  BY <1>1 DEF fits
<1> HIDE DEF out, leftover, used, feeOut
<1>9. r.out = out - feeOut /\ out - feeOut \in 0 .. U64Max
  <2>1. out - feeOut \in 0 .. U64Max
    BY <1>6, <1>7, <1>8, DlmmMathAssumption
  <2> QED
    BY <2>1, <1>1, WrapFits
<1>10. feeUsed \in Nat /\ used + feeUsed <= a
  <2>1. CASE onIn /\ leftover > 0
    <3>1. used <= a - ComputeFeeFromAmount(a, rate)
      BY <1>4, <1>6, <2>1
    <3>2. used * FeePrecision <= a * (FeePrecision - rate)
      BY <3>1, <1>2, <1>6, ExcludedFits
    <3>3. ComputeFee(used, rate) \in Nat /\ used + ComputeFee(used, rate) <= a
      BY <3>2, <1>2, <1>6, GrossFits
    <3> QED
      BY <3>3, <2>1
  <2>2. CASE ~(onIn /\ leftover > 0)
    BY <2>2, <1>4, <1>6
  <2> QED
    BY <2>1, <2>2
<1> HIDE DEF feeUsed, feeIn
<1>11. used + feeUsed \in 0 .. U64Max /\ wrap(used + feeUsed) = used + feeUsed
  <2>1. used + feeUsed \in 0 .. U64Max
    BY <1>10, <1>6, <1>2, <1>4, DlmmMathAssumption
  <2> QED
    BY <2>1, WrapFits
<1>12. r.consumed \in 0 .. a /\ used <= r.consumed /\ (r.consumed < a => leftover > 0)
  BY <1>1, <1>2, <1>4, <1>6, <1>10, <1>11
<1> QED
  BY <1>1, <1>6, <1>7, <1>8, <1>9, <1>12

\* An input whose net amount exactly drains a bin pays at most one unit more than the
\* drained bin's price with the fee on top.
LEMMA ExactDrainCostsOneMore ==
    ASSUME NEW a \in Nat, NEW rate \in Rates, NEW u \in Nat,
           u = a - ComputeFeeFromAmount(a, rate)
    PROVE  a <= u + ComputeFee(u, rate) + 1
<1> DEFINE F == FeePrecision
           f == ComputeFeeFromAmount(a, rate)
           g == ComputeFee(u, rate)
<1>1. F \in Pos /\ rate \in Nat /\ 2 * rate < F /\ F - rate \in Pos
  BY DlmmMathAssumption DEF Pos, Rates
<1>2. f \in 0 .. a
  BY ExcludedFits
<1>3. g \in Nat /\ (u + g <= u + g <=> u * F <= (u + g) * (F - rate))
  <2>1. g \in Nat
    BY GrossFits
  <2>2. u + g \in Nat
    BY <2>1
  <2> QED
    BY <2>1, <2>2, GrossFits
<1>4. (u + 1 <= a - f <=> (u + 1) * F <= a * (F - rate))
  BY ExcludedFits
<1> HIDE DEF F, f, g
<1>5. u * F <= (u + g) * (F - rate)
  BY <1>3
<1>6. a * (F - rate) < (u + 1) * F
  <2>1. ~(u + 1 <= a - f)
    BY <1>2 DEF f
  <2>2. (u + 1) * F \in Nat /\ a * (F - rate) \in Nat
    BY <1>1 DEF Pos
  <2> QED
    BY <2>1, <2>2, <1>4
<1>7. (u + 1) * F = u * F + F /\ (u + g + 2) * (F - rate) = (u + g) * (F - rate) + 2 * (F - rate)
      /\ u * F \in Nat /\ (u + g) * (F - rate) \in Nat
  BY <1>1, <1>3 DEF Pos
<1>8. a * (F - rate) < (u + g + 2) * (F - rate)
  BY <1>1, <1>5, <1>6, <1>7 DEF Pos
<1>9. ASSUME u + g + 2 <= a PROVE FALSE
  <2>1. (u + g + 2) * (F - rate) <= a * (F - rate)
    BY <1>1, <1>3, <1>9, MulMonotone DEF Pos
  <2> QED
    BY <2>1, <1>1, <1>3, <1>8 DEF Pos
<1>10. a < u + g + 2
  BY <1>9, <1>3
<1> QED
  BY <1>10, <1>3 DEF g

\* On every bin the two translations of Bin::swap give the same output and pay the same
\* into the bin; swapAtBin charges the same or, when the net input exactly drains the
\* bin, one unit more (swap_quote.go, bin_quote.go).
THEOREM TranslationsAgree ==
    ASSUME NEW a \in 0 .. U64Max, NEW res \in Reserves, NEW price \in Pos,
           NEW y \in BOOLEAN, NEW rate \in Rates,
           QuoteSwapOnBin(a, res, price, y, rate, BasisPointMax, 1).ok
    PROVE  LET s == swapAtBin(a, GetMaxAmountOut(res, y), price, y, TRUE, rate)
               b == QuoteSwapOnBin(a, res, price, y, rate, BasisPointMax, 1)
           IN  /\ s.ok
               /\ s.out = b.amountOut /\ s.used = b.amountIntoBin
               /\ s.consumed - b.amountInWithFees \in 0 .. 1
               /\ b.protocolFeeAfterHost + b.hostFee <= b.fee
<1> DEFINE has      == GetMaxAmountOut(res, y)
           maxIn    == GetAmountInFromAmountOut(has, price, y)
           maxFee   == ComputeFee(maxIn, rate)
           f        == ComputeFeeFromAmount(a, rate)
           all      == a > maxIn + maxFee
           fee      == IF all THEN maxFee ELSE f
           withFees == IF all THEN maxIn + maxFee ELSE a
           outB     == IF all THEN has
                       ELSE lesser(GetAmountOutFromAmountIn(a - fee, price, y), has)
           protocol == ComputeProtocolFee(fee, BasisPointMax)
           host     == (protocol * 1) \div BasisPointMax
           b        == QuoteSwapOnBin(a, res, price, y, rate, BasisPointMax, 1)
           ex       == wrap(a - f)
           partial  == GetAmountOutFromAmountIn(ex, price, y)
           out      == IF ex >= maxIn THEN has ELSE partial
           leftover == IF ex >= maxIn THEN ex - maxIn ELSE 0
           used     == ex - leftover
           feeUsed  == IF leftover > 0 THEN ComputeFee(used, rate) ELSE 0
           s        == swapAtBin(a, has, price, y, TRUE, rate)
<1> SUFFICES /\ s.ok
             /\ s.out = b.amountOut /\ s.used = b.amountIntoBin
             /\ s.consumed - b.amountInWithFees \in 0 .. 1
             /\ b.protocolFeeAfterHost + b.hostFee <= b.fee
  OBVIOUS
<1>1. /\ b.amountInWithFees = withFees /\ b.amountOut = outB /\ b.fee = fee
      /\ b.protocolFeeAfterHost = protocol - host /\ b.hostFee = host
      /\ b.amountIntoBin = withFees - fee
      /\ fits(maxIn) /\ fits(maxFee) /\ fits(maxIn + maxFee)
  BY Zenon DEF QuoteSwapOnBin
<1>2. /\ s.ok = (fits(f) /\ fits(maxIn) /\ fits(out) /\ fits(feeUsed) /\ fits(0))
      /\ s.consumed = IF leftover > 0 THEN wrap(used + feeUsed) ELSE a
      /\ s.out = wrap(out - 0)
      /\ s.used = used
  BY Zenon DEF swapAtBin
<1>3. a \in Nat /\ a <= U64Max /\ U64Max \in Nat
  BY DlmmMathAssumption
<1>4. has \in 0 .. U64Max
  BY Zenon DEF GetMaxAmountOut, Reserves
<1>5. f \in 0 .. a
  BY <1>3, ExcludedFits
<1> HIDE DEF f, has, b, s
<1>6. ex = a - f /\ ex \in 0 .. a
  <2>1. a - f \in 0 .. a /\ a - f \in 0 .. U64Max
    BY <1>3, <1>5
  <2> QED
    BY <2>1, WrapFits
<1> HIDE DEF ex
<1>7. /\ maxIn \in Nat /\ partial \in Nat /\ (has <= partial <=> maxIn <= ex)
  BY <1>3, <1>4, <1>6, PriceIsAdjoint
<1> HIDE DEF maxIn, partial
<1>8. maxFee \in Nat /\ (maxIn + maxFee <= a <=> maxIn <= ex)
  BY <1>3, <1>6, <1>7, ExcludedFits, GrossFits DEF f
<1> HIDE DEF maxFee
<1>9. fits(f) /\ fits(0) /\ fits(out)
  BY <1>3, <1>4, <1>5, <1>7 DEF fits
<1>10. protocol = fee /\ fee \in Nat /\ host \in Nat
  <2>1. fee \in Nat /\ BasisPointMax \in Pos
    BY <1>5, <1>8, DlmmMathAssumption DEF Pos
  <2> HIDE DEF fee
  <2>2. protocol = (fee * BasisPointMax) \div BasisPointMax
    BY DEF ComputeProtocolFee
  <2>3. fee * BasisPointMax \in Nat
    BY <2>1 DEF Pos
  <2>4. (fee * BasisPointMax) \div BasisPointMax \in Nat
    BY <2>1, <2>3, DivFacts
  <2>5. fee <= (fee * BasisPointMax) \div BasisPointMax
    BY <2>1, <2>3, FloorIsGreatest
  <2>6. ~(fee + 1 <= (fee * BasisPointMax) \div BasisPointMax)
    <3>1. ~((fee + 1) * BasisPointMax <= fee * BasisPointMax)
      BY <2>1, MulStrict DEF Pos
    <3>2. (fee + 1) * BasisPointMax <= fee * BasisPointMax
             <=> fee + 1 <= (fee * BasisPointMax) \div BasisPointMax
      BY <2>1, <2>3, FloorIsGreatest
    <3> QED
      BY <3>1, <3>2
  <2>7. protocol = fee
    BY <2>1, <2>2, <2>4, <2>5, <2>6
  <2> HIDE DEF protocol
  <2> QED
    BY <2>1, <2>7, DivFacts
<1> HIDE DEF host, protocol
<1>11. b.protocolFeeAfterHost + b.hostFee <= b.fee
  BY <1>1, <1>10
<1>12. CASE all
  <2>1. maxIn <= ex
    BY <1>3, <1>7, <1>8, <1>12
  <2>2. used = maxIn /\ out = has /\ leftover = ex - maxIn
    BY <2>1, <1>6, <1>7
  <2>3. withFees = maxIn + maxFee /\ fee = maxFee /\ outB = has
    BY <1>12
  <2>4. feeUsed = IF leftover > 0 THEN maxFee ELSE 0
    BY <2>2 DEF maxFee
  <2> HIDE DEF used, out, feeUsed, leftover, withFees, fee, outB
  <2>5. s.ok
    BY <1>1, <1>2, <1>9, <2>4 DEF fits
  <2>6. s.out = has
    BY <1>2, <1>3, <1>4, <2>2, WrapFits
  <2>7. CASE leftover > 0
    <3>1. maxIn + maxFee \in 0 .. U64Max
      BY <1>3, <1>7, <1>8, <1>12
    <3>2. s.consumed = maxIn + maxFee
      BY <3>1, <2>7, <2>2, <2>4, <1>2, WrapFits
    <3> QED
      BY <3>2, <2>2, <2>3, <2>5, <2>6, <1>1, <1>2, <1>7, <1>8, <1>11
  <2>8. CASE ~(leftover > 0)
    <3>1. ex = maxIn
      BY <2>8, <2>1, <2>2, <1>6, <1>7
    <3>2. a <= maxIn + maxFee + 1
      BY <3>1, <1>3, <1>6, <1>7, ExactDrainCostsOneMore DEF f, maxFee
    <3>3. s.consumed = a
      BY <2>8, <1>2
    <3>4. s.consumed - b.amountInWithFees \in 0 .. 1
      BY <3>2, <3>3, <2>3, <1>1, <1>3, <1>7, <1>8, <1>12
    <3> QED
      BY <3>4, <2>2, <2>3, <2>5, <2>6, <1>1, <1>2, <1>7, <1>8, <1>11
  <2> QED
    BY <2>7, <2>8
<1>13. CASE ~all
  <2>1. ex <= maxIn
    <3>1. SUFFICES ASSUME maxIn + 1 <= ex PROVE FALSE
      BY <1>6, <1>7
    <3>2. ComputeFee(maxIn + 1, rate) \in Nat
          /\ maxIn + 1 + ComputeFee(maxIn + 1, rate) <= a
      BY <3>1, <1>3, <1>6, <1>7, ExcludedFits, GrossFits DEF f
    <3>3. maxIn + maxFee <= a
      BY <3>1, <1>6, <1>7, <1>8
    <3>4. a = maxIn + maxFee
      BY <3>3, <1>3, <1>7, <1>8, <1>13
    <3>5. maxIn + 1 + maxFee <= a
      <4> DEFINE h == ComputeFee(maxIn + 1, rate)
      <4>1. maxIn + h <= maxIn + h /\ h \in Nat
        BY <3>2, <1>7
      <4> HIDE DEF h
      <4>2. maxIn + maxFee <= maxIn + h
        <5>1. (maxIn + 1) * FeePrecision <= (maxIn + 1 + h) * (FeePrecision - rate)
          BY <4>1, <1>7, GrossFits DEF h
        <5>2. /\ FeePrecision \in Nat /\ rate \in Nat /\ FeePrecision - rate \in Nat
          BY DlmmMathAssumption DEF Rates
        <5>3. /\ (maxIn + 1) * FeePrecision = maxIn * FeePrecision + FeePrecision
              /\ (maxIn + 1 + h) * (FeePrecision - rate)
                     = (maxIn + h) * (FeePrecision - rate) + (FeePrecision - rate)
              /\ maxIn * FeePrecision \in Nat
              /\ (maxIn + h) * (FeePrecision - rate) \in Nat
          BY <5>2, <4>1, <1>7
        <5>4. maxIn * FeePrecision <= (maxIn + h) * (FeePrecision - rate)
          BY <5>1, <5>2, <5>3
        <5>5. maxIn + h \in Nat
          BY <4>1, <1>7
        <5> QED
          BY <5>4, <5>5, <1>7, GrossFits DEF maxFee
      <4> QED
        BY <4>1, <4>2, <3>2, <1>3, <1>7, <1>8 DEF h
    <3> QED
      BY <3>4, <3>5, <1>3, <1>7, <1>8
  <2>2. leftover = 0 /\ used = ex
    BY <2>1, <1>6, <1>7
  <2>3. fee = f /\ withFees = a
    BY <1>13
  <2>4. partial = GetAmountOutFromAmountIn(a - fee, price, y)
    BY <2>3, <1>6 DEF partial
  <2>5. outB = out
    <3>1. outB = lesser(partial, has)
      BY <2>4, <1>13
    <3> QED
      BY <3>1, <2>1, <1>4, <1>6, <1>7 DEF lesser
  <2>6. feeUsed = 0
    BY <2>2
  <2>7. out \in 0 .. U64Max
    BY <2>1, <1>3, <1>4, <1>6, <1>7
  <2> HIDE DEF used, out, feeUsed, leftover, withFees, fee, outB
  <2>8. s.ok /\ s.out = out /\ s.consumed = a /\ s.used = ex
    <3>1. out - 0 = out /\ ~(leftover > 0) /\ fits(feeUsed)
      BY <2>2, <2>6, <2>7, <1>3, <1>9
    <3>2. wrap(out - 0) = out
      BY <3>1, <2>7, WrapFits
    <3> QED
      BY <3>1, <3>2, <2>2, <1>1, <1>2, <1>9
  <2> QED
    BY <2>8, <2>3, <2>5, <1>1, <1>3, <1>5, <1>6, <1>11
<1> QED
  BY <1>12, <1>13

-----------------------------------------------------------------------------
\* Bin arrays

\* The bins of array i.
Array(i) == i * MaxBinPerArray .. (i + 1) * MaxBinPerArray - 1

\* BinIDToArrayIndex, a truncating division and its correction, is the floor: the array
\* a bin is looked up in is the one that holds it, bins below zero included.
THEOREM ArrayHoldsBin ==
    ASSUME NEW b \in Int, NEW i \in Int
    PROVE  /\ BinIDToArrayIndex(b) \in Int
           /\ BinIDToArrayIndex(b) = i <=> b \in Array(i)
<1> DEFINE M == MaxBinPerArray
           n == BinIDToArrayIndex(b)
<1>1. M \in Pos
  BY DlmmMathAssumption DEF Pos
<1>2. n \in Int /\ n * M <= b /\ b < (n + 1) * M
  <2>1. n = IF b >= 0 THEN b \div M ELSE IF b % M # 0 THEN -((-b) \div M) - 1 ELSE -((-b) \div M)
    BY DEF BinIDToArrayIndex
  <2> HIDE DEF n, M
  <2> QED
    BY <1>1, <2>1, CorrectedTruncation
<1> HIDE DEF n, M
<1>3. n * M \in Int /\ (n + 1) * M \in Int /\ i * M \in Int /\ (i + 1) * M \in Int
  BY <1>1, <1>2 DEF Pos
<1>4. n = i => b \in Array(i)
  BY <1>2, <1>3 DEF Array, M
<1>5. CASE i < n
  <2>1. (i + 1) * M <= n * M
    BY <1>1, <1>2, <1>5, MulMonotone DEF Pos
  <2> QED
    BY <2>1, <1>2, <1>3, <1>5 DEF Array, M, n
<1>6. CASE n < i
  <2>1. (n + 1) * M <= i * M
    BY <1>1, <1>2, <1>6, MulMonotone DEF Pos
  <2> QED
    BY <2>1, <1>2, <1>3, <1>6 DEF Array, M, n
<1> QED
  BY <1>2, <1>4, <1>5, <1>6 DEF n

\* A higher bin is not in a lower array.
LEMMA ArraysAreInOrder ==
    ASSUME NEW b \in Int, NEW c \in Int, b <= c
    PROVE  BinIDToArrayIndex(b) <= BinIDToArrayIndex(c)
<1> DEFINE M == MaxBinPerArray
           m == BinIDToArrayIndex(b)
           n == BinIDToArrayIndex(c)
<1>1. M \in Pos
  BY DlmmMathAssumption DEF Pos
<1>2. m \in Int /\ n \in Int
  BY ArrayHoldsBin
<1>3. b \in Array(m) /\ c \in Array(n)
  BY <1>2, ArrayHoldsBin
<1> HIDE DEF m, n
<1>4. m * M \in Int /\ (n + 1) * M \in Int /\ m * M <= b /\ c < (n + 1) * M
  BY <1>1, <1>2, <1>3 DEF Array, Pos
<1>5. ASSUME n < m PROVE FALSE
  <2>1. (n + 1) * M <= m * M
    BY <1>1, <1>2, <1>5, MulMonotone DEF Pos
  <2> QED
    BY <2>1, <1>4
<1> QED
  BY <1>2, <1>5 DEF m, n

-----------------------------------------------------------------------------
\* The inductive invariant

PoolType == [active : Bins, va : Nat, vr : Nat, ir : Int, last : Nat]

Types ==
    /\ cfg \in Configs /\ now \in Nat
    /\ pool \in PoolType /\ own \in PoolType
    /\ bins \in [Bins -> Reserves]
    /\ pc \in {"idle", "walk", "done", "failed", "refused"}
    /\ q \in [swapForY : BOOLEAN, amountIn : 0 .. U64Max, timestamp : Int, window : SUBSET Int]
    /\ w \in [left : 0 .. U64Max, out : 0 .. U64Max, indices : Seq(Int)]
    /\ moved \in [Bins -> [out : Nat, in : Nat]]
    /\ w.left <= q.amountIn

\* Between quotes nothing has been walked.
AtRest == pc \in {"idle", "refused"} => w = NoWalk /\ moved = NoMoves

Quoting == pc \in {"walk", "done"}

\* b is not before c on the way of the walk.
onward(c, b) == IF q.swapForY THEN b <= c ELSE c <= b

\* The walk has gone from the pool's active bin to its own.
Ahead == onward(pool.active, own.active)

\* What DrainsInOrder says of the amounts, and that a bin the walk will visit has
\* given nothing yet.
Drained ==
    /\ \A b \in passed : moved[b].out = OutOf(b)
    /\ \A b \in Bins \ (passed \cup {own.active}) : moved[b].out = 0
    /\ moved[own.active].out <= OutOf(own.active)
    /\ pc = "walk" /\ w.left > 0 => moved[own.active].out = 0

\* A quote ends early only where the cached arrays or the bins do.
EndsAtEdge ==
    pc = "done" /\ w.left > 0 =>
        \/ ~cached(own.active)
        \/ /\ nextBin(own.active, q.swapForY) \notin Bins
           /\ moved[own.active].out = OutOf(own.active)

\* The arrays listed so far, in the order of the walk, none of them ahead of it.
Listed ==
    /\ \A b \in Bins : moved[b].out > 0 => \E k \in DOMAIN w.indices : b \in Array(w.indices[k])
    /\ \A j, k \in DOMAIN w.indices :
           j < k => w.indices[j] # w.indices[k] /\ onward(w.indices[j], w.indices[k])
    /\ \A k \in DOMAIN w.indices : onward(w.indices[k], BinIDToArrayIndex(own.active))

WalkInv == Quoting => Ahead /\ Drained /\ EndsAtEdge /\ Listed

IInv == Types /\ AtRest /\ WalkInv

-----------------------------------------------------------------------------
\* The helpers of the walk

\* The fee rate of a bin is at most the cap, whatever the volatility.
LEMMA FeeRateIsCapped ==
    ASSUME cfg \in Configs, NEW va \in Nat
    PROVE  totalFeeRate(va) \in Rates
<1>1. /\ cfg.binStep \in Nat /\ cfg.baseFactor \in Nat /\ cfg.variableFeeControl \in Nat
      /\ 10 ^ cfg.baseFeePowerFactor \in Nat
  BY ConfigAssumption
<1>2. variableFeeRate(va) \in Nat
  <2> DEFINE n == cfg.variableFeeControl * (va * cfg.binStep) * (va * cfg.binStep)
  <2>1. va * cfg.binStep \in Nat
    BY <1>1
  <2>2. cfg.variableFeeControl * (va * cfg.binStep) \in Nat
    BY <1>1, <2>1
  <2>3. n \in Nat
    BY <2>1, <2>2
  <2> HIDE DEF n
  <2>4. divCeil(n, VariableFeeScale) \in Nat
    BY <2>3, DivCeilIsLeast, DlmmAssumption DEF Pos
  <2> QED
    BY <2>4 DEF variableFeeRate, n
<1>3. cfg.baseFactor * cfg.binStep * 10 * 10 ^ cfg.baseFeePowerFactor \in Nat
  <2>1. cfg.baseFactor * cfg.binStep * 10 \in Nat
    BY <1>1
  <2> QED
    BY <2>1, <1>1
<1> DEFINE base == cfg.baseFactor * cfg.binStep * 10 * 10 ^ cfg.baseFeePowerFactor
<1> HIDE DEF base
<1>4. base \in Nat
  BY <1>3 DEF base
<1>5. totalFeeRate(va) = lesser(base + variableFeeRate(va), MaxFeeRate)
  BY DEF totalFeeRate, base
<1> QED
  BY <1>2, <1>4, <1>5, DlmmMathAssumption DEF lesser, Rates

\* A copy of the pool keeps its types and its active bin through updateReferences and
\* updateVolatilityAccumulator.
LEMMA CopyIsPool ==
    ASSUME cfg \in Configs, NEW p \in PoolType, NEW t
    PROVE  /\ updateReferences(p, t) \in PoolType
           /\ updateReferences(p, t).active = p.active
           /\ updateVolatilityAccumulator(p) \in PoolType
           /\ updateVolatilityAccumulator(p).active = p.active
<1>1. cfg.reductionFactor \in Nat /\ cfg.maxVolatility \in Nat /\ BasisPointMax \in Pos
  BY ConfigAssumption, DlmmMathAssumption DEF Pos
<1>2. /\ p.active \in Int /\ p.active \in Bins /\ p.ir \in Int /\ p.va \in Nat /\ p.vr \in Nat
  BY DlmmAssumption DEF PoolType, Bins
<1>3. (p.va * cfg.reductionFactor) \div BasisPointMax \in Nat
  <2>1. p.va * cfg.reductionFactor \in Nat
    BY <1>1, <1>2
  <2> QED
    BY <2>1, <1>1, DivFacts
<1>4. volatilityAt(p, p.active) \in Nat
  <2>1. abs(p.ir - p.active) \in Nat
    BY <1>2 DEF abs
  <2>2. abs(p.ir - p.active) * BasisPointMax \in Nat
    BY <2>1, <1>1 DEF Pos
  <2> QED
    BY <2>2, <1>1, <1>2 DEF volatilityAt, lesser
<1> QED
  BY <1>2, <1>3, <1>4 DEF updateReferences, updateVolatilityAccumulator, PoolType

WalkType == [left : 0 .. U64Max, out : 0 .. U64Max, indices : Seq(Int)]

\* The arrays stay listed once and in order when listIndex lists the active bin's.
LEMMA ListingKeepsOrder ==
    ASSUME Types, Listed
    PROVE  LET new == listIndex(w.indices)
           IN  /\ new \in Seq(Int)
               /\ \A k \in DOMAIN w.indices : k \in DOMAIN new /\ new[k] = w.indices[k]
               /\ \E k \in DOMAIN new : new[k] = BinIDToArrayIndex(own.active)
               /\ \A j, k \in DOMAIN new : j < k => new[j] # new[k] /\ onward(new[j], new[k])
               /\ \A k \in DOMAIN new : onward(new[k], BinIDToArrayIndex(own.active))
<1> DEFINE old == w.indices
           i   == BinIDToArrayIndex(own.active)
           new == listIndex(old)
<1>1. old \in Seq(Int) /\ i \in Int
  <2>1. own.active \in Int
    BY DlmmAssumption DEF Types, PoolType, Bins
  <2> QED
    BY <2>1, ArrayHoldsBin DEF Types
<1>2. /\ \A j, k \in DOMAIN old : j < k => old[j] # old[k] /\ onward(old[j], old[k])
      /\ \A k \in DOMAIN old : onward(old[k], i)
  BY Zenon DEF Listed
<1>3. new = IF old = <<>> \/ old[Len(old)] # i THEN Append(old, i) ELSE old
  BY DEF listIndex
<1>4. onward(i, i)
  BY <1>1 DEF onward
<1> HIDE DEF i, new, old
<1>5. CASE old = <<>>
  <2>1. new = <<i>> /\ DOMAIN old = {}
    BY <1>1, <1>3, <1>5
  <2> QED
    BY <2>1, <1>1, <1>4 DEF new, old, i
<1>6. CASE old # <<>> /\ old[Len(old)] # i
  <2>1. Len(old) \in Nat \ {0} /\ DOMAIN old = 1 .. Len(old)
    BY <1>1, <1>6
  <2>2. /\ new \in Seq(Int) /\ DOMAIN new = 1 .. Len(old) + 1
        /\ new[Len(old) + 1] = i /\ \A k \in 1 .. Len(old) : new[k] = old[k]
    BY <1>1, <1>3, <1>6
  <2>3. \A k \in 1 .. Len(old) : onward(old[k], i) /\ old[k] # i
    <3> SUFFICES ASSUME NEW k \in 1 .. Len(old) PROVE onward(old[k], i) /\ old[k] # i
      OBVIOUS
    <3>1. CASE k = Len(old)
      BY <3>1, <2>1, <1>2, <1>6
    <3>2. CASE k < Len(old)
      <4>1. /\ old[k] # old[Len(old)] /\ onward(old[k], old[Len(old)])
            /\ onward(old[Len(old)], i) /\ onward(old[k], i)
        BY <3>2, <2>1, <1>2
      <4>2. old[k] \in Int /\ old[Len(old)] \in Int
        BY <1>1, <2>1
      <4> QED
        BY <4>1, <4>2, <1>1 DEF onward
    <3>3. k = Len(old) \/ k < Len(old)
      <4>1. \A m \in Nat : k \in 1 .. m => k = m \/ k < m
        OBVIOUS
      <4> QED
        BY <4>1, <2>1, Zenon
    <3> QED
      BY <3>1, <3>2, <3>3, Zenon
  <2>4. \A j, k \in DOMAIN new : j < k => new[j] # new[k] /\ onward(new[j], new[k])
    BY <2>1, <2>2, <2>3, <1>2
  <2>5. \A k \in DOMAIN new : onward(new[k], i)
    BY <2>1, <2>2, <2>3, <1>4
  <2>6. Len(old) + 1 \in DOMAIN new
    BY <2>1, <2>2
  <2> QED
    BY <2>1, <2>2, <2>4, <2>5, <2>6 DEF new, old, i
<1>7. CASE old # <<>> /\ old[Len(old)] = i
  <2>1. new = old /\ Len(old) \in DOMAIN old
    BY <1>1, <1>3, <1>7
  <2> QED
    BY <2>1, <1>1, <1>2, <1>7 DEF new, old, i
<1> QED
  BY <1>5, <1>6, <1>7

LEMMA BinIsInt == ASSUME NEW b \in Bins PROVE b \in Int
BY DlmmAssumption DEF Bins

\* The bins between the walk's bin a and the bin b it started at, which is passed when they
\* are the active bins of the quote's copy and of the pool.
Behind(swapForY, a, b) == IF swapForY THEN a + 1 .. b ELSE b .. a - 1

LEMMA BehindAreBins ==
    ASSUME NEW y \in BOOLEAN, NEW a \in Bins, NEW b \in Bins
    PROVE  Behind(y, a, b) \subseteq Bins /\ a \notin Behind(y, a, b)
<1>1. a \in Int /\ b \in Int /\ minBinID \in Int /\ maxBinID \in Int
  BY DlmmAssumption DEF Bins
<1>2. minBinID <= a /\ a <= maxBinID /\ minBinID <= b /\ b <= maxBinID
  BY DlmmAssumption DEF Bins
<1>3. CASE y
  <2>1. Behind(y, a, b) = a + 1 .. b
    BY <1>3, Zenon DEF Behind
  <2>2. a + 1 .. b \subseteq minBinID .. maxBinID /\ a \notin a + 1 .. b
    BY <1>1, <1>2
  <2> QED
    BY <2>1, <2>2, Zenon DEF Bins
<1>4. CASE ~y
  <2>1. Behind(y, a, b) = b .. a - 1
    BY <1>4, Zenon DEF Behind
  <2>2. b .. a - 1 \subseteq minBinID .. maxBinID /\ a \notin b .. a - 1
    BY <1>1, <1>2
  <2> QED
    BY <2>1, <2>2, Zenon DEF Bins
<1> QED
  BY <1>3, <1>4

LEMMA BehindGrows ==
    ASSUME NEW y \in BOOLEAN, NEW a \in Int, NEW b \in Int, IF y THEN a <= b ELSE b <= a
    PROVE  /\ Behind(y, nextBin(a, y), b) = Behind(y, a, b) \cup {a}
           /\ nextBin(a, y) \notin Behind(y, a, b) /\ nextBin(a, y) # a
<1>1. CASE y
  <2>1. /\ nextBin(a, y) = a - 1 /\ Behind(y, a, b) = a + 1 .. b
        /\ Behind(y, nextBin(a, y), b) = (a - 1) + 1 .. b
    BY <1>1, Zenon DEF Behind, nextBin
  <2>2. (a - 1) + 1 .. b = (a + 1 .. b) \cup {a} /\ a - 1 \notin a + 1 .. b /\ a - 1 # a
    BY <1>1
  <2> QED
    BY <2>1, <2>2, Zenon
<1>2. CASE ~y
  <2>1. /\ nextBin(a, y) = a + 1 /\ Behind(y, a, b) = b .. a - 1
        /\ Behind(y, nextBin(a, y), b) = b .. (a + 1) - 1
    BY <1>2, Zenon DEF Behind, nextBin
  <2>2. b .. (a + 1) - 1 = (b .. a - 1) \cup {a} /\ a + 1 \notin b .. a - 1 /\ a + 1 # a
    BY <1>2
  <2> QED
    BY <2>1, <2>2, Zenon
<1> QED
  BY <1>1, <1>2

\* A visit of the active bin, as SkipEmptyBin and SwapAtBin make it: it gives g of what
\* the bin has, and all of it when input is left over.
LEMMA VisitKeepsInv ==
    ASSUME IInv, Visiting,
           NEW p \in PoolType, p.active = own.active,
           NEW walked \in WalkType, walked.left <= w.left,
           walked.indices = listIndex(w.indices),
           NEW g \in 0 .. maxOut, walked.left > 0 => g = maxOut,
           StepOn(p, walked),
           moved' \in [Bins -> [out : Nat, in : Nat]],
           moved'[own.active].out = g,
           \A b \in Bins \ {own.active} : moved'[b] = moved[b],
           UNCHANGED <<chain, q>>
    PROVE  IInv'
<1> DEFINE a == own.active
           n == nextBin(a, q.swapForY)
<1>1. /\ Types /\ WalkInv /\ pc = "walk" /\ w.left > 0
  BY DEF IInv, Visiting
<1>2. Ahead /\ Drained /\ Listed
  BY <1>1 DEF WalkInv, Quoting
<1>3. /\ a \in Bins /\ a \in Int /\ pool.active \in Bins /\ pool.active \in Int /\ n \in Int
      /\ q.swapForY \in BOOLEAN
  <2>1. a \in Bins /\ pool.active \in Bins
    BY <1>1 DEF Types, PoolType
  <2>2. a \in Int /\ pool.active \in Int
    BY <2>1, BinIsInt
  <2>3. n \in Int
    BY <2>2 DEF nextBin
  <2>4. q.swapForY \in BOOLEAN
    BY <1>1, Zenon DEF Types
  <2> QED
    BY <2>1, <2>2, <2>3, <2>4, Zenon
<1>4. /\ cfg' = cfg /\ pool' = pool /\ bins' = bins /\ now' = now /\ q' = q
  BY DEF chain
<1>5. /\ w' = walked
      /\ \/ /\ walked.left > 0 /\ n \in Bins /\ own' = [p EXCEPT !.active = n] /\ pc' = "walk"
         \/ /\ walked.left > 0 /\ n \notin Bins /\ own' = p /\ pc' = "done"
         \/ /\ ~(walked.left > 0) /\ own' = p /\ pc' = "walk"
  BY DEF StepOn
<1>6. own' \in PoolType /\ own'.active \in {a, n} /\ pc' \in {"walk", "done"}
      /\ (own'.active = n /\ n # a => walked.left > 0 /\ n \in Bins /\ pc' = "walk")
  BY <1>5 DEF PoolType
<1>7. walked.left \in 0 .. U64Max /\ w.left \in 0 .. U64Max /\ q.amountIn \in 0 .. U64Max
      /\ U64Max \in Nat
  BY <1>1, DlmmMathAssumption DEF Types, WalkType
<1>8. Types'
  <2>1. walked.left <= q.amountIn
    BY <1>1, <1>7 DEF Types
  <2> QED
    BY <1>1, <1>4, <1>5, <1>6, <2>1 DEF Types, WalkType
<1>9. AtRest'
  BY <1>6 DEF AtRest
<1>10. Ahead'
  BY <1>2, <1>3, <1>4, <1>6 DEF Ahead, onward, nextBin
<1>11. \A b \in Bins : OutOf(b)' = OutOf(b)
  BY <1>4 DEF OutOf
<1>12. OutOf(a) = maxOut
  BY DEF OutOf, maxOut
<1>b. /\ passed = Behind(q.swapForY, a, pool.active)
      /\ passed' = Behind(q.swapForY, own'.active, pool.active)
  BY <1>4, Zenon DEF passed, Behind
<1>c. passed \subseteq Bins /\ a \notin passed
  BY <1>b, <1>3, BehindAreBins
<1>13. Drained'
  <2>1. CASE walked.left > 0 /\ n \in Bins
    <3>1. own'.active = n /\ pc' = "walk" /\ g = maxOut
      BY <1>5, <2>1 DEF PoolType
    <3>2. passed' = passed \cup {a} /\ a \notin passed /\ n \notin passed /\ n # a
      <4>1. IF q.swapForY THEN a <= pool.active ELSE pool.active <= a
        BY <1>2, Zenon DEF Ahead, onward
      <4>2. passed' = Behind(q.swapForY, nextBin(a, q.swapForY), pool.active)
        BY <1>b, <3>1
      <4>3. /\ Behind(q.swapForY, nextBin(a, q.swapForY), pool.active)
                  = Behind(q.swapForY, a, pool.active) \cup {a}
            /\ n \notin Behind(q.swapForY, a, pool.active) /\ n # a
        BY <4>1, <1>3, BehindGrows
      <4> QED
        BY <4>2, <4>3, <1>b, <1>c, Zenon
    <3>3. passed \subseteq Bins
      BY <1>c
    <3>4. moved[n].out = 0 /\ moved'[n] = moved[n]
      BY <3>2, <2>1, <1>2 DEF Drained
    <3>5. \A b \in passed \cup {a} : moved'[b].out = OutOf(b)
      BY <3>1, <3>2, <3>3, <1>2, <1>3, <1>12 DEF Drained
    <3>6. \A b \in Bins \ (passed \cup {a} \cup {n}) : moved'[b].out = 0
      BY <1>2 DEF Drained
    <3>7. OutOf(n) \in Nat
      <4>1. bins[n] \in Reserves /\ U64Max \in Nat
        BY <1>1, <2>1, <1>7 DEF Types
      <4> QED
        BY <4>1 DEF OutOf, GetMaxAmountOut, Reserves
    <3> QED
      <4>1. \A b \in passed' : (moved[b].out = OutOf(b))'
        BY <3>2, <3>3, <3>5, <1>3, <1>4 DEF OutOf
      <4>2. \A b \in Bins \ (passed' \cup {own'.active}) : moved'[b].out = 0
        BY <3>1, <3>2, <3>6
      <4>3. moved'[own'.active].out = 0
        BY <3>1, <3>4
      <4>4. (OutOf(own.active))' = OutOf(n)
        BY <3>1, <1>4 DEF OutOf
      <4>5. (moved[own.active].out <= OutOf(own.active))'
        BY <4>3, <4>4, <3>7
      <4> QED
        BY <4>1, <4>2, <4>3, <4>5 DEF Drained
  <2>2. CASE ~(walked.left > 0 /\ n \in Bins)
    <3>1. own'.active = a /\ (pc' = "walk" => ~(walked.left > 0))
      BY <1>5, <2>2
    <3>2. passed' = passed /\ a \notin passed /\ passed \subseteq Bins
      <4>1. passed' = passed
        BY <3>1, <1>b, Zenon
      <4> QED
        BY <4>1, <1>c, Zenon
    <3>3. \A b \in passed : moved'[b].out = OutOf(b)
      BY <3>2, <1>2 DEF Drained
    <3>4. \A b \in Bins \ (passed \cup {a}) : moved'[b].out = 0
      BY <1>2 DEF Drained
    <3>5. g <= maxOut /\ w' = walked
      BY <1>5
    <3> QED
      BY <3>1, <3>2, <3>3, <3>4, <3>5, <1>3, <1>11, <1>12 DEF Drained
  <2> QED
    BY <2>1, <2>2
<1>14. EndsAtEdge'
  <2>1. SUFFICES ASSUME pc' = "done", w'.left > 0
                 PROVE  /\ nextBin(own'.active, q'.swapForY) \notin Bins
                        /\ moved'[own'.active].out = OutOf(own.active)'
    BY DEF EndsAtEdge
  <2>2. walked.left > 0 /\ n \notin Bins /\ own' = p
    BY <2>1, <1>5
  <2> QED
    BY <2>2, <1>3, <1>4, <1>11, <1>12
<1>15. Listed'
  <2> DEFINE new == listIndex(w.indices)
  <2>1. /\ \A k \in DOMAIN w.indices : k \in DOMAIN new /\ new[k] = w.indices[k]
        /\ \E k \in DOMAIN new : new[k] = BinIDToArrayIndex(a)
        /\ \A j, k \in DOMAIN new : j < k => new[j] # new[k] /\ onward(new[j], new[k])
        /\ \A k \in DOMAIN new : onward(new[k], BinIDToArrayIndex(a))
        /\ new \in Seq(Int)
    BY <1>1, <1>2, ListingKeepsOrder
  <2> HIDE DEF new
  <2>2. w'.indices = new
    BY <1>5 DEF new
  <2>3. ASSUME NEW b \in Bins, moved'[b].out > 0
        PROVE  \E k \in DOMAIN new : b \in Array(new[k])
    <3>1. CASE b = a
      <4>1. PICK k \in DOMAIN new : new[k] = BinIDToArrayIndex(a)
        BY <2>1
      <4>2. a \in Array(new[k])
        BY <4>1, <1>3, ArrayHoldsBin
      <4> QED
        BY <4>2, <3>1
    <3>2. CASE b # a
      <4>1. moved[b].out > 0
        BY <3>2, <2>3
      <4>2. PICK k \in DOMAIN w.indices : b \in Array(w.indices[k])
        BY <4>1, <1>2 DEF Listed
      <4> QED
        BY <4>2, <2>1
    <3> QED
      BY <3>1, <3>2
  <2>4. \A j, k \in DOMAIN new :
            j < k => /\ new[j] # new[k]
                     /\ IF q.swapForY THEN new[k] <= new[j] ELSE new[j] <= new[k]
    BY <2>1 DEF onward
  <2>5. ASSUME NEW k \in DOMAIN new
        PROVE  IF q.swapForY THEN BinIDToArrayIndex(own'.active) <= new[k]
                             ELSE new[k] <= BinIDToArrayIndex(own'.active)
    <3>1. /\ BinIDToArrayIndex(a) \in Int /\ BinIDToArrayIndex(n) \in Int /\ new[k] \in Int
      BY <1>3, <2>1, ArrayHoldsBin
    <3>2. CASE q.swapForY
      <4>1. BinIDToArrayIndex(n) <= BinIDToArrayIndex(a)
        BY <3>2, <1>3, ArraysAreInOrder DEF nextBin
      <4>2. BinIDToArrayIndex(a) <= new[k]
        BY <3>2, <2>1 DEF onward
      <4> QED
        <5>1. BinIDToArrayIndex(own'.active) \in {BinIDToArrayIndex(a), BinIDToArrayIndex(n)}
          BY <1>6
        <5>2. BinIDToArrayIndex(own'.active) <= new[k]
          BY <5>1, <4>1, <4>2, <3>1
        <5> QED
          BY <5>2, <3>2, Zenon
    <3>3. CASE ~q.swapForY
      <4>1. BinIDToArrayIndex(a) <= BinIDToArrayIndex(n)
        BY <3>3, <1>3, ArraysAreInOrder DEF nextBin
      <4>2. new[k] <= BinIDToArrayIndex(a)
        BY <3>3, <2>1 DEF onward
      <4> QED
        <5>1. BinIDToArrayIndex(own'.active) \in {BinIDToArrayIndex(a), BinIDToArrayIndex(n)}
          BY <1>6
        <5>2. new[k] <= BinIDToArrayIndex(own'.active)
          BY <5>1, <4>1, <4>2, <3>1
        <5> QED
          BY <5>2, <3>3, Zenon
    <3> QED
      BY <3>2, <3>3
  <2> QED
    BY <2>1, <2>2, <2>3, <2>4, <2>5, <1>4 DEF Listed, onward
<1> QED
  BY <1>8, <1>9, <1>10, <1>13, <1>14, <1>15 DEF IInv, WalkInv

-----------------------------------------------------------------------------
\* Every state

NoMovesIsTyped == NoMoves \in [Bins -> [out : Nat, in : Nat]]

LEMMA RestIsTyped ==
    /\ NoQuote \in [swapForY : BOOLEAN, amountIn : 0 .. U64Max, timestamp : Int, window : SUBSET Int]
    /\ NoPool \in PoolType
    /\ NoWalk \in WalkType
    /\ NoMovesIsTyped
    /\ NoWalk.left = 0 /\ NoQuote.amountIn = 0
<1>1. U64Max \in Nat /\ 0 \in Bins
  BY DlmmMathAssumption, DlmmAssumption DEF Bins
<1>2. NoQuote \in [swapForY : BOOLEAN, amountIn : 0 .. U64Max, timestamp : Int, window : SUBSET Int]
  BY <1>1 DEF NoQuote
<1>3. NoPool \in PoolType
  BY <1>1 DEF NoPool, PoolType
<1>4. NoWalk \in WalkType
  BY <1>1 DEF NoWalk, WalkType
<1>5. NoMovesIsTyped
  BY DEF NoMoves, NoMovesIsTyped
<1> QED
  BY <1>2, <1>3, <1>4, <1>5 DEF NoWalk, NoQuote

LEMMA InvInitially == Init => IInv
<1> SUFFICES ASSUME Init PROVE IInv
  OBVIOUS
<1>1. Types
  BY RestIsTyped, DlmmAssumption DEF Init, Types, WalkType, NoMovesIsTyped
<1> QED
  BY <1>1 DEF Init, IInv, AtRest, WalkInv, Quoting

LEMMA QuoteExactInKeepsInv ==
    ASSUME IInv, NEW y \in BOOLEAN, NEW a \in Amounts, NEW l \in Lags, NEW n \in Windows,
           QuoteExactIn(y, a, l, n)
    PROVE  IInv'
<1> DEFINE t == IF now > l THEN now - l ELSE 0
<1>1. Types /\ AtRest /\ pc = "idle"
  BY DEF IInv, QuoteExactIn
<1>2. /\ cfg' = cfg /\ pool' = pool /\ bins' = bins /\ now' = now
      /\ moved' = moved /\ moved = NoMoves /\ w = NoWalk
  BY <1>1 DEF QuoteExactIn, chain, AtRest
<1>3. q' = [swapForY |-> y, amountIn |-> a, timestamp |-> t, window |-> n]
  BY DEF QuoteExactIn
<1>4. q' \in [swapForY : BOOLEAN, amountIn : 0 .. U64Max, timestamp : Int, window : SUBSET Int]
      /\ q'.amountIn = a /\ a \in 0 .. U64Max
  <2>1. t \in Int /\ a \in 0 .. U64Max /\ n \in SUBSET Int
    BY <1>1, DlmmAssumption DEF Types
  <2> HIDE DEF t
  <2> QED
    BY <2>1, <1>3
<1>5. CASE Refused
  <2>1. pc' = "refused" /\ own' = own /\ w' = w
    BY <1>5 DEF QuoteExactIn
  <2>2. Types'
    BY <2>1, <1>1, <1>2, <1>4, RestIsTyped, DlmmMathAssumption DEF Types
  <2> QED
    BY <2>1, <2>2, <1>2 DEF IInv, AtRest, WalkInv, Quoting
<1>6. CASE ~Refused
  <2>1. own' = updateReferences(pool, t) /\ w' = [NoWalk EXCEPT !.left = a] /\ pc' = "walk"
    BY <1>6 DEF QuoteExactIn
  <2>2. own' \in PoolType /\ own'.active = pool.active
    BY <2>1, <1>1, CopyIsPool DEF Types
  <2>3. w' = [left |-> a, out |-> 0, indices |-> <<>>]
    BY <2>1 DEF NoWalk
  <2>4. Types'
    <3>1. w' \in WalkType /\ w'.left <= q'.amountIn
      BY <2>3, <1>4, DlmmMathAssumption DEF WalkType
    <3> QED
      BY <3>1, <2>1, <2>2, <1>1, <1>2, <1>4, RestIsTyped DEF Types, WalkType
  <2>5. pool.active \in Int /\ pool.active \in Bins
    BY <1>1, DlmmAssumption DEF Types, PoolType, Bins
  <2>6. passed' = {}
    BY <2>2, <2>5, <1>2 DEF passed
  <2>7. \A b \in Bins : moved'[b].out = 0
    BY <1>2 DEF NoMoves
  <2>8. (OutOf(own.active))' \in Nat
    <3>1. bins'[own'.active] \in Reserves /\ U64Max \in Nat
      BY <1>1, <1>2, <2>2, <2>5, DlmmMathAssumption DEF Types
    <3> QED
      BY <3>1 DEF OutOf, GetMaxAmountOut, Reserves
  <2>9. Drained'
    BY <2>2, <2>5, <2>6, <2>7, <2>8 DEF Drained
  <2>10. Ahead'
    BY <2>2, <2>5, <1>2 DEF Ahead, onward
  <2>11. EndsAtEdge' /\ AtRest'
    BY <2>1 DEF EndsAtEdge, AtRest
  <2>12. Listed'
    <3>1. DOMAIN w'.indices = {}
      BY <2>3
    <3> QED
      BY <3>1, <2>7 DEF Listed
  <2> QED
    BY <2>4, <2>9, <2>10, <2>11, <2>12 DEF IInv, WalkInv
<1> QED
  BY <1>5, <1>6

LEMMA EndOfWalkKeepsInv == ASSUME IInv, EndOfWalk PROVE IInv'
<1>1. /\ pc = "walk" /\ ~Visiting /\ pc' = "done"
      /\ cfg' = cfg /\ pool' = pool /\ bins' = bins /\ now' = now
      /\ q' = q /\ own' = own /\ w' = w /\ moved' = moved
  BY DEF EndOfWalk, chain
<1>2. Types /\ Ahead /\ Drained /\ Listed
  BY <1>1 DEF IInv, WalkInv, Quoting
<1>3. Types' /\ AtRest'
  BY <1>1, <1>2 DEF Types, AtRest
<1>4. Ahead' /\ Drained' /\ Listed'
  BY <1>1, <1>2 DEF Ahead, Drained, Listed, onward, passed, OutOf
<1>5. w.left > 0 => ~cached(own.active)
  BY <1>1 DEF Visiting
<1>6. EndsAtEdge'
  BY <1>1, <1>5 DEF EndsAtEdge, cached
<1> QED
  BY <1>3, <1>4, <1>6 DEF IInv, WalkInv

LEMMA SkipEmptyBinKeepsInv == ASSUME IInv, SkipEmptyBin PROVE IInv'
<1> DEFINE walked == [w EXCEPT !.indices = listIndex(@)]
<1>1. /\ Visiting /\ maxOut = 0 /\ StepOn(own, walked) /\ moved' = moved
      /\ UNCHANGED <<chain, q>>
  BY DEF SkipEmptyBin
<1>2. Types /\ Drained /\ Listed /\ w.left > 0 /\ pc = "walk"
  BY <1>1 DEF IInv, WalkInv, Quoting, Visiting
<1>3. moved[own.active].out = 0
  BY <1>2 DEF Drained
<1>4. listIndex(w.indices) \in Seq(Int)
  BY <1>2, ListingKeepsOrder
<1>5. /\ walked \in WalkType /\ walked.left <= w.left
      /\ walked.indices = listIndex(w.indices)
  <2>1. w \in WalkType /\ w.left \in Int
    BY <1>2, DlmmMathAssumption DEF Types, WalkType
  <2> HIDE DEF walked
  <2>2. walked = [left |-> w.left, out |-> w.out, indices |-> listIndex(w.indices)]
    BY <2>1 DEF WalkType, walked
  <2> QED
    BY <2>1, <2>2, <1>4 DEF WalkType
<1>6. own \in PoolType /\ moved \in [Bins -> [out : Nat, in : Nat]]
  BY <1>2 DEF Types
<1> HIDE DEF walked
<1>7. 0 \in 0 .. maxOut /\ (walked.left > 0 => 0 = maxOut)
  BY <1>1
<1> QED
  BY <1>1, <1>3, <1>5, <1>6, <1>7, VisitKeepsInv

LEMMA SwapAtBinKeepsInv == ASSUME IInv, SwapAtBin PROVE IInv'
<1> DEFINE r == atBin
           p == updateVolatilityAccumulator(own)
           walked == [left |-> wrap(w.left - r.consumed), out |-> wrap(w.out + r.out),
                      indices |-> listIndex(w.indices)]
<1>1. /\ Visiting /\ maxOut > 0 /\ Price[own.active] > 0 /\ r.ok /\ StepOn(p, walked)
      /\ moved' = [moved EXCEPT ![own.active] = [out |-> r.gross, in |-> r.used]]
      /\ UNCHANGED <<chain, q>>
  BY Zenon DEF SwapAtBin
<1>2. Types /\ Listed /\ w.left > 0 /\ pc = "walk"
  BY <1>1 DEF IInv, WalkInv, Quoting, Visiting
<1>3. /\ cfg \in Configs /\ own \in PoolType /\ own.active \in Bins
      /\ moved \in [Bins -> [out : Nat, in : Nat]]
      /\ w.left \in 0 .. U64Max /\ w.out \in 0 .. U64Max /\ U64Max \in Nat
  BY <1>2, DlmmMathAssumption DEF Types, PoolType
<1>4. p \in PoolType /\ p.active = own.active
  BY <1>3, CopyIsPool
<1>5. totalFeeRate(p.va) \in Rates
  BY <1>3, <1>4, FeeRateIsCapped DEF PoolType
<1>6. maxOut \in Nat /\ Price[own.active] \in Pos
  <2>1. bins[own.active] \in Reserves
    BY <1>2, <1>3 DEF Types
  <2>2. maxOut \in Nat
    BY <2>1, <1>3 DEF maxOut, GetMaxAmountOut, Reserves
  <2> QED
    BY <2>2, <1>1, <1>3, DlmmAssumption DEF Pos
<1>7. /\ r.consumed \in 0 .. w.left
      /\ r.gross \in 0 .. maxOut
      /\ r.used \in 0 .. r.consumed
      /\ r.out \in 0 .. U64Max
      /\ r.consumed < w.left => r.gross = maxOut
  <2>1. q.swapForY \in BOOLEAN /\ feeOnInput(q.swapForY) \in BOOLEAN
    BY <1>2, Zenon DEF Types, feeOnInput
  <2>2. atBin = swapAtBin(w.left, maxOut, Price[own.active], q.swapForY,
                          feeOnInput(q.swapForY), totalFeeRate(p.va))
    BY Zenon DEF atBin
  <2> HIDE DEF p
  <2> QED
    BY <2>1, <2>2, <1>1, <1>3, <1>5, <1>6, BinIsHonest
<1> HIDE DEF r, p
<1>8. w.left - r.consumed \in 0 .. U64Max /\ wrap(w.left - r.consumed) = w.left - r.consumed
  <2>1. w.left - r.consumed \in 0 .. U64Max
    BY <1>3, <1>7
  <2> QED
    BY <2>1, WrapFits
<1>9. wrap(w.out + r.out) \in 0 .. U64Max
  BY <1>3, <1>7 DEF wrap
<1>10. /\ walked \in WalkType /\ walked.left = w.left - r.consumed
       /\ walked.indices = listIndex(w.indices)
  <2>1. listIndex(w.indices) \in Seq(Int)
    BY <1>2, ListingKeepsOrder
  <2> QED
    BY <2>1, <1>8, <1>9 DEF WalkType
<1> HIDE DEF walked
<1>11. walked.left <= w.left /\ (walked.left > 0 => r.gross = maxOut)
  BY <1>3, <1>7, <1>10
<1>12. /\ moved' \in [Bins -> [out : Nat, in : Nat]]
       /\ moved'[own.active].out = r.gross
       /\ \A b \in Bins \ {own.active} : moved'[b] = moved[b]
  <2>1. r.gross \in Nat /\ r.used \in Nat
    BY <1>3, <1>6, <1>7
  <2> QED
    BY <2>1, <1>1, <1>3
<1> QED
  BY <1>1, <1>4, <1>7, <1>10, <1>11, <1>12, VisitKeepsInv

LEMMA SwapAtBinFailsKeepsInv == ASSUME IInv, SwapAtBinFails PROVE IInv'
BY DEF IInv, SwapAtBinFails, chain, Types, AtRest, WalkInv, Quoting

LEMMA ForgetKeepsInv == ASSUME IInv, Forget PROVE IInv'
<1>1. /\ pc' = "idle" /\ q' = NoQuote /\ own' = NoPool /\ w' = NoWalk /\ moved' = NoMoves
      /\ cfg' = cfg /\ pool' = pool /\ bins' = bins /\ now' = now
  BY DEF Forget, chain
<1>2. Types'
  BY <1>1, RestIsTyped DEF IInv, Types, WalkType, NoMovesIsTyped
<1> QED
  BY <1>1, <1>2 DEF IInv, AtRest, WalkInv, Quoting

\* No bin is asked for more than it has.
LEMMA NothingOverdrawn ==
    ASSUME IInv, Quoting, NEW b \in Bins
    PROVE  moved[b].out <= OutOf(b)
<1>1. Types /\ Drained
  BY DEF IInv, WalkInv
<1>2. OutOf(b) \in Nat
  <2>1. bins[b] \in Reserves /\ U64Max \in Nat
    BY <1>1, DlmmMathAssumption DEF Types
  <2> QED
    BY <2>1 DEF OutOf, GetMaxAmountOut, Reserves
<1>3. moved[b].out \in Nat
  BY <1>1 DEF Types
<1> QED
  BY <1>1, <1>2, <1>3 DEF Drained

LEMMA SwapLandsKeepsInv == ASSUME IInv, SwapLands PROVE IInv'
<1>1. /\ pc = "done" /\ cfg' = cfg /\ now' = now
      /\ pc' = "idle" /\ q' = NoQuote /\ own' = NoPool /\ w' = NoWalk /\ moved' = NoMoves
      /\ pool' = [own EXCEPT !.last = now]
      /\ \A b \in Bins : bins'[b].x <= U64Max /\ bins'[b].y <= U64Max
  BY DEF SwapLands
<1>2. bins' = [b \in Bins |->
         IF q.swapForY THEN [x |-> bins[b].x + moved[b].in, y |-> bins[b].y - moved[b].out]
                       ELSE [x |-> bins[b].x - moved[b].out, y |-> bins[b].y + moved[b].in]]
  BY DEF SwapLands
<1>3. Types /\ Quoting /\ U64Max \in Nat
  BY <1>1, DlmmMathAssumption DEF IInv, Quoting
<1>4. pool' \in PoolType
  BY <1>1, <1>3 DEF Types, PoolType
<1>5. ASSUME NEW b \in Bins PROVE bins'[b] \in Reserves
  <2>1. /\ bins[b].x \in Nat /\ bins[b].y \in Nat /\ moved[b].in \in Nat /\ moved[b].out \in Nat
    BY <1>3 DEF Types, Reserves
  <2>2. moved[b].out <= OutOf(b)
    BY <1>3, NothingOverdrawn
  <2>3. CASE q.swapForY
    <3>1. bins'[b] = [x |-> bins[b].x + moved[b].in, y |-> bins[b].y - moved[b].out]
      BY <2>3, <1>2
    <3>2. moved[b].out <= bins[b].y
      BY <2>2, <2>3 DEF OutOf, GetMaxAmountOut
    <3> QED
      BY <3>1, <3>2, <2>1, <1>1, <1>3 DEF Reserves
  <2>4. CASE ~q.swapForY
    <3>1. bins'[b] = [x |-> bins[b].x - moved[b].out, y |-> bins[b].y + moved[b].in]
      BY <2>4, <1>2
    <3>2. moved[b].out <= bins[b].x
      BY <2>2, <2>4 DEF OutOf, GetMaxAmountOut
    <3> QED
      BY <3>1, <3>2, <2>1, <1>1, <1>3 DEF Reserves
  <2> QED
    BY <2>3, <2>4
<1>6. bins' \in [Bins -> Reserves]
  BY <1>2, <1>5
<1>7. Types'
  BY <1>1, <1>3, <1>4, <1>6, RestIsTyped DEF Types, WalkType, NoMovesIsTyped
<1> QED
  BY <1>1, <1>7 DEF IInv, AtRest, WalkInv, Quoting

LEMMA TimePassesKeepsInv == ASSUME IInv, TimePasses PROVE IInv'
BY DEF IInv, TimePasses, quote, Types, AtRest, WalkInv, Quoting

\* IInv is an invariant of every DLMM pool and quote.
LEMMA QuoteInv == Spec => []IInv
<1>1. ASSUME IInv, [Next]_vars PROVE IInv'
  <2>1. ASSUME NEW y \in BOOLEAN, NEW a \in Amounts, NEW l \in Lags, NEW n \in Windows,
               QuoteExactIn(y, a, l, n)
        PROVE  IInv'
    BY <1>1, <2>1, QuoteExactInKeepsInv
  <2>2. CASE QuoteStep
    BY <1>1, <2>2, EndOfWalkKeepsInv, SkipEmptyBinKeepsInv, SwapAtBinKeepsInv,
       SwapAtBinFailsKeepsInv DEF QuoteStep
  <2>3. CASE Forget
    BY <1>1, <2>3, ForgetKeepsInv
  <2>4. CASE SwapLands
    BY <1>1, <2>4, SwapLandsKeepsInv
  <2>5. CASE TimePasses
    BY <1>1, <2>5, TimePassesKeepsInv
  <2>6. CASE UNCHANGED vars
    <3>1. /\ cfg' = cfg /\ pool' = pool /\ bins' = bins /\ now' = now /\ pc' = pc
          /\ q' = q /\ own' = own /\ w' = w /\ moved' = moved
      BY <2>6 DEF vars, chain, quote
    <3> QED
      BY <3>1, <1>1 DEF IInv, Types, AtRest, WalkInv, Quoting, Ahead, Drained, EndsAtEdge,
                        Listed, onward, passed, OutOf, cached
  <2> QED
    BY <1>1, <2>1, <2>2, <2>3, <2>4, <2>5, <2>6 DEF Next
<1> QED
  BY InvInitially, <1>1, PTL DEF Spec

-----------------------------------------------------------------------------
\* The properties of the run

\* The quote's types, for every pool: no amount of a walk wraps, it never consumes more
\* than its input, and no swap that lands leaves a bin below zero.
THEOREM QuoteIsTyped == Spec => []TypeOK
<1>1. ASSUME IInv PROVE TypeOK
  <2>1. Types /\ U64Max \in Nat
    BY <1>1, DlmmMathAssumption DEF IInv
  <2>2. w.left \in 0 .. q.amountIn /\ w.out \in 0 .. U64Max
    BY <2>1 DEF Types
  <2>3. \A b \in Bins : bins[b].x >= 0 /\ bins[b].y >= 0
    BY <2>1 DEF Types, Reserves
  <2> QED
    BY <2>1, <2>2, <2>3 DEF Types, PoolType, TypeOK
<1> QED
  BY <1>1, QuoteInv, PTL

\* The walk takes liquidity strictly in order, for every pool: the bins behind it are
\* drained, the ones ahead untouched, and it stops early only at the edge of the cached
\* arrays or of the bin range (QuoteExactInDetailed).
THEOREM WalkDrainsInOrder == Spec => []DrainsInOrder
<1>1. ASSUME IInv PROVE DrainsInOrder
  <2>1. SUFFICES ASSUME Quoting PROVE DrainsInOrder
    BY DEF DrainsInOrder, Quoting
  <2>2. Types /\ Drained /\ EndsAtEdge
    BY <1>1, <2>1 DEF IInv, WalkInv
  <2>3. own.active \in Int /\ q.window \subseteq Int
    BY <2>2, DlmmAssumption DEF Types, PoolType, Bins
  <2>4. ~cached(own.active) =>
            ~\E i \in q.window : own.active \in i * MaxBinPerArray .. (i + 1) * MaxBinPerArray - 1
    BY <2>3, ArrayHoldsBin DEF cached, Array
  <2> QED
    BY <2>2, <2>4 DEF DrainsInOrder, Drained, EndsAtEdge
<1> QED
  BY <1>1, QuoteInv, PTL

\* The bin arrays a quote lists hold every bin it takes from, and none is listed twice:
\* the accounts an executor passes on are complete (swap_quote.go:53-56).
THEOREM ListedArraysCover == Spec => []IndicesCoverSwap
<1>1. ASSUME IInv PROVE IndicesCoverSwap
  <2>1. SUFFICES ASSUME Quoting PROVE IndicesCoverSwap
    BY DEF IndicesCoverSwap, Quoting
  <2>2. Types /\ Listed
    BY <1>1, <2>1 DEF IInv, WalkInv
  <2>3. \A b \in Bins : moved[b].out > 0 =>
            \E k \in DOMAIN w.indices :
                b \in w.indices[k] * MaxBinPerArray .. (w.indices[k] + 1) * MaxBinPerArray - 1
    BY <2>2, Zenon DEF Listed, Array
  <2>4. ASSUME NEW j \in DOMAIN w.indices, NEW k \in DOMAIN w.indices,
               w.indices[j] = w.indices[k]
        PROVE  j = k
    <3>1. j \in Int /\ k \in Int
      BY <2>2 DEF Types
    <3>2. ~(j < k) /\ ~(k < j)
      BY <2>2, <2>4 DEF Listed
    <3> QED
      BY <3>1, <3>2
  <2> QED
    BY <2>3, <2>4 DEF IndicesCoverSwap
<1> QED
  BY <1>1, QuoteInv, PTL

\* Wherever a walk is, both translations of Bin::swap answer alike.
THEOREM WalkPathsAgree == Spec => []BinPathsAgree
<1>1. ASSUME IInv PROVE BinPathsAgree
  <2>1. SUFFICES ASSUME Visiting, maxOut > 0, Price[own.active] > 0, feeOnInput(q.swapForY),
                        QuoteSwapOnBin(w.left, bins[own.active], Price[own.active], q.swapForY,
                            totalFeeRate(volatilityAt(own, own.active)), BasisPointMax, 1).ok
                 PROVE  LET a == atBin
                            b == QuoteSwapOnBin(w.left, bins[own.active], Price[own.active],
                                     q.swapForY, totalFeeRate(volatilityAt(own, own.active)),
                                     BasisPointMax, 1)
                        IN  /\ a.ok
                            /\ a.out = b.amountOut /\ a.used = b.amountIntoBin
                            /\ a.consumed - b.amountInWithFees \in 0 .. 1
                            /\ b.protocolFeeAfterHost + b.hostFee <= b.fee
    BY Zenon DEF BinPathsAgree
  <2>2. Types
    BY <1>1 DEF IInv
  <2>3. /\ cfg \in Configs /\ own \in PoolType /\ w.left \in 0 .. U64Max
        /\ own.active \in Bins /\ bins[own.active] \in Reserves /\ q.swapForY \in BOOLEAN
    BY <2>2, Zenon DEF Types, PoolType
  <2>4. Price[own.active] \in Pos
    BY <2>1, <2>3, DlmmAssumption DEF Pos
  <2>5. updateVolatilityAccumulator(own).va = volatilityAt(own, own.active)
    BY <2>3 DEF updateVolatilityAccumulator, PoolType
  <2> DEFINE rate == totalFeeRate(volatilityAt(own, own.active))
  <2>6. rate \in Rates
    <3>1. updateVolatilityAccumulator(own) \in PoolType
      BY <2>3, CopyIsPool
    <3>2. updateVolatilityAccumulator(own).va \in Nat
      BY <3>1 DEF PoolType
    <3> QED
      BY <3>2, <2>3, <2>5, FeeRateIsCapped
  <2>7. atBin = swapAtBin(w.left, GetMaxAmountOut(bins[own.active], q.swapForY),
                          Price[own.active], q.swapForY, TRUE, rate)
    <3>1. feeOnInput(q.swapForY) = TRUE
      BY <2>1, Zenon DEF feeOnInput
    <3> QED
      BY <3>1, <2>5, Zenon DEF atBin, maxOut
  <2> HIDE DEF rate
  <2>8. LET s == swapAtBin(w.left, GetMaxAmountOut(bins[own.active], q.swapForY),
                           Price[own.active], q.swapForY, TRUE, rate)
            b == QuoteSwapOnBin(w.left, bins[own.active], Price[own.active], q.swapForY, rate,
                                BasisPointMax, 1)
        IN  /\ s.ok
            /\ s.out = b.amountOut /\ s.used = b.amountIntoBin
            /\ s.consumed - b.amountInWithFees \in 0 .. 1
            /\ b.protocolFeeAfterHost + b.hostFee <= b.fee
    <3>1. QuoteSwapOnBin(w.left, bins[own.active], Price[own.active], q.swapForY, rate,
                         BasisPointMax, 1).ok
      BY <2>1 DEF rate
    <3> DEFINE left  == w.left
               res   == bins[own.active]
               price == Price[own.active]
               y     == q.swapForY
    <3>2. /\ left \in 0 .. U64Max /\ res \in Reserves /\ price \in Pos /\ y \in BOOLEAN
          /\ QuoteSwapOnBin(left, res, price, y, rate, BasisPointMax, 1).ok
      BY <3>1, <2>3, <2>4
    <3> HIDE DEF left, res, price, y
    <3>3. LET s == swapAtBin(left, GetMaxAmountOut(res, y), price, y, TRUE, rate)
              b == QuoteSwapOnBin(left, res, price, y, rate, BasisPointMax, 1)
          IN  /\ s.ok
              /\ s.out = b.amountOut /\ s.used = b.amountIntoBin
              /\ s.consumed - b.amountInWithFees \in 0 .. 1
              /\ b.protocolFeeAfterHost + b.hostFee <= b.fee
      BY <3>2, <2>6, TranslationsAgree
    <3> QED
      BY <3>3 DEF left, res, price, y
  <2> QED
    BY <2>7, <2>8, Zenon DEF rate
<1> QED
  BY <1>1, QuoteInv, PTL

-----------------------------------------------------------------------------
\* Sums over the bins

Width == maxBinID - minBinID + 1

\* s[k] is the sum of f over the first k bins.
Sums(s, f) ==
    /\ s \in [0 .. Width -> Int] /\ s[0] = 0
    /\ \A k \in 1 .. Width : s[k] = s[k - 1] + f[minBinID + (k - 1)]

sums(f)  == CHOOSE s : Sums(s, f)
Total(f) == sums(f)[Width]

LEMMA BinsAreCounted ==
    /\ Width \in Nat
    /\ \A k \in 1 .. Width : minBinID + (k - 1) \in Bins
    /\ \A b \in Bins : b - minBinID + 1 \in 1 .. Width /\ b \in Int
BY DlmmAssumption DEF Width, Bins

LEMMA SumsExist ==
    ASSUME NEW f \in [Bins -> Int]
    PROVE  Sums(sums(f), f) /\ Total(f) \in Int
<1> DEFINE step == [k \in 1 .. Width |-> [v \in Int |-> v + f[minBinID + (k - 1)]]]
<1>1. step \in [1 .. Width -> [Int -> Int]]
  BY BinsAreCounted
<1>2. PICK g : Trace(g, Int, 0, Width, step)
  <2> HIDE DEF step
  <2> QED
    BY <1>1, 0 \in Int, BinsAreCounted, LoopHasTrace, Zenon
<1>3. ASSUME NEW k \in 1 .. Width PROVE g[k] = g[k - 1] + f[minBinID + (k - 1)]
  <2>1. g[k] = step[k][g[k - 1]] /\ k - 1 \in 0 .. Width
    <3> HIDE DEF step
    <3> QED
      BY <1>2, BinsAreCounted DEF Trace
  <2>2. g[k - 1] \in Int
    BY <1>2, <2>1 DEF Trace
  <2> QED
    BY <2>1, <2>2
<1>4. Sums(g, f)
  BY <1>2, <1>3 DEF Sums, Trace
<1>5. Sums(sums(f), f)
  BY <1>4 DEF sums
<1> QED
  BY <1>5, BinsAreCounted DEF Sums, Total

LEMMA TotalsCompare ==
    ASSUME NEW f \in [Bins -> Int], NEW g \in [Bins -> Int], \A b \in Bins : f[b] <= g[b]
    PROVE  Total(f) <= Total(g)
<1> DEFINE S == {k \in 0 .. Width : sums(f)[k] <= sums(g)[k]}
<1>1. Sums(sums(f), f) /\ Sums(sums(g), g)
  BY SumsExist
<1>2. 0 \in S
  BY <1>1, BinsAreCounted DEF Sums
<1>3. ASSUME NEW n \in 0 .. Width - 1, n \in S PROVE n + 1 \in S
  <2>1. n + 1 \in 1 .. Width /\ (n + 1) - 1 = n /\ n \in 0 .. Width
    BY BinsAreCounted
  <2> DEFINE b == minBinID + n
  <2>2. b \in Bins
    BY <2>1, BinsAreCounted
  <2>3. sums(f)[n + 1] = sums(f)[n] + f[b] /\ sums(g)[n + 1] = sums(g)[n] + g[b]
    BY <1>1, <2>1 DEF Sums
  <2>4. sums(f)[n] \in Int /\ sums(g)[n] \in Int /\ f[b] \in Int /\ g[b] \in Int /\ f[b] <= g[b]
    BY <1>1, <2>1, <2>2 DEF Sums
  <2>5. sums(f)[n] <= sums(g)[n]
    BY <1>3
  <2> HIDE DEF b
  <2> QED
    BY <2>1, <2>3, <2>4, <2>5
<1> HIDE DEF S
<1>4. 0 .. Width \subseteq S
  <2>1. \A n \in 0 .. Width - 1 : n \in S => n + 1 \in S
    BY <1>3
  <2> QED
    BY <1>2, <2>1, BinsAreCounted, Induction
<1> QED
  BY <1>4, BinsAreCounted DEF S, Total

LEMMA TotalMoves ==
    ASSUME NEW f \in [Bins -> Int], NEW c \in Bins, NEW v \in Int
    PROVE  Total([f EXCEPT ![c] = v]) = Total(f) - f[c] + v
<1> DEFINE g == [f EXCEPT ![c] = v]
           i == c - minBinID
           d == v - f[c]
           S == {k \in 0 .. Width : sums(g)[k] = sums(f)[k] + (IF k <= i THEN 0 ELSE d)}
<1>1. g \in [Bins -> Int] /\ d \in Int /\ i \in Nat /\ i < Width /\ f[c] \in Int
  <2>1. i + 1 \in 1 .. Width /\ i \in Int
    BY BinsAreCounted, DlmmAssumption
  <2>2. f[c] \in Int
    OBVIOUS
  <2> QED
    BY <2>1, <2>2, BinsAreCounted
<1>2. Sums(sums(f), f) /\ Sums(sums(g), g)
  <2> HIDE DEF g
  <2> QED
    BY <1>1, SumsExist
<1>3. 0 \in S
  <2> HIDE DEF g, d, i
  <2> QED
    BY <1>1, <1>2, BinsAreCounted DEF Sums
<1>4. ASSUME NEW n \in 0 .. Width - 1, n \in S PROVE n + 1 \in S
  <2>1. n + 1 \in 1 .. Width /\ (n + 1) - 1 = n /\ n \in 0 .. Width
    BY BinsAreCounted
  <2> DEFINE b == minBinID + n
  <2>2. b \in Bins /\ (b = c <=> n = i)
    <3>1. minBinID \in Int /\ c \in Int
      BY BinsAreCounted, DlmmAssumption
    <3>2. b \in Bins
      <4>1. minBinID + ((n + 1) - 1) \in Bins
        BY <2>1, BinsAreCounted, Zenon
      <4> QED
        BY <4>1, <2>1
    <3>3. b = c <=> n = i
      BY <3>1
    <3> QED
      BY <3>2, <3>3
  <2>3. sums(f)[n + 1] = sums(f)[n] + f[b] /\ sums(g)[n + 1] = sums(g)[n] + g[b]
    <3> HIDE DEF g
    <3> QED
      BY <1>2, <2>1 DEF Sums
  <2>4. g[b] = f[b] + (IF n = i THEN d ELSE 0) /\ f[b] \in Int
    BY <1>1, <2>2
  <2>5. sums(f)[n] \in Int /\ sums(g)[n] \in Int
    <3> HIDE DEF g
    <3> QED
      BY <1>2, <2>1 DEF Sums
  <2>6. sums(g)[n] = sums(f)[n] + (IF n <= i THEN 0 ELSE d)
    BY <1>4
  <2> HIDE DEF b, g, d, i
  <2> QED
    BY <1>1, <2>1, <2>3, <2>4, <2>5, <2>6
<1> HIDE DEF S
<1>5. 0 .. Width \subseteq S
  <2>1. \A n \in 0 .. Width - 1 : n \in S => n + 1 \in S
    BY <1>4
  <2> QED
    BY <1>3, <2>1, BinsAreCounted, Induction
<1>6. sums(g)[Width] = sums(f)[Width] + d
  <2> HIDE DEF d, i, g
  <2>1. Width \in S /\ ~(Width <= i)
    BY <1>1, <1>5, BinsAreCounted
  <2> QED
    BY <2>1 DEF S
<1>7. Total(f) \in Int
  BY SumsExist
<1> QED
  BY <1>1, <1>6, <1>7 DEF Total

\* Summands that are no greater and add up to as much are the same.
LEMMA TotalsAgree ==
    ASSUME NEW f \in [Bins -> Int], NEW g \in [Bins -> Int],
           \A b \in Bins : f[b] <= g[b], Total(f) >= Total(g), NEW c \in Bins
    PROVE  f[c] = g[c]
<1> DEFINE h == [g EXCEPT ![c] = f[c]]
<1>1. h \in [Bins -> Int] /\ \A b \in Bins : f[b] <= h[b]
  BY BinsAreCounted
<1>2. Total(f) <= Total(h)
  <2> HIDE DEF h
  <2> QED
    BY <1>1, TotalsCompare
<1>3. f[c] \in Int /\ g[c] \in Int
  OBVIOUS
<1>4. Total(h) = Total(g) - g[c] + f[c]
  BY <1>3, TotalMoves
<1>5. Total(f) \in Int /\ Total(g) \in Int /\ f[c] <= g[c]
  BY SumsExist
<1> QED
  BY <1>2, <1>3, <1>4, <1>5

-----------------------------------------------------------------------------
\* What a bin is worth

\* What a bin gives is worth no more, at its price, than what it takes.
Covers(in, out, price, y) == IF y THEN out * Scale <= in * price ELSE out * price <= in * Scale

LEMMA BinIsPaid ==
    ASSUME NEW a \in 0 .. U64Max, NEW has \in Nat, NEW price \in Pos,
           NEW y \in BOOLEAN, NEW onIn \in BOOLEAN, NEW rate \in Rates,
           swapAtBin(a, has, price, y, onIn, rate).ok
    PROVE  LET r == swapAtBin(a, has, price, y, onIn, rate)
           IN  Covers(r.used, r.gross, price, y)
<1> DEFINE feeIn    == IF onIn THEN ComputeFeeFromAmount(a, rate) ELSE 0
           ex       == wrap(a - feeIn)
           maxIn    == GetAmountInFromAmountOut(has, price, y)
           partial  == GetAmountOutFromAmountIn(ex, price, y)
           out      == IF ex >= maxIn THEN has ELSE partial
           leftover == IF ex >= maxIn THEN ex - maxIn ELSE 0
           used     == ex - leftover
           r        == swapAtBin(a, has, price, y, onIn, rate)
<1>1. r.gross = out /\ r.used = used
  BY Zenon DEF swapAtBin
<1>2. a \in Nat /\ a <= U64Max
  BY DlmmMathAssumption
<1>3. feeIn \in 0 .. a
  BY <1>2, ExcludedFits
<1>4. ex \in Nat
  <2>1. a - feeIn \in 0 .. a /\ a - feeIn \in 0 .. U64Max
    BY <1>2, <1>3, DlmmMathAssumption
  <2> HIDE DEF feeIn
  <2> QED
    BY <2>1, WrapFits
<1> HIDE DEF ex
<1>5. maxIn \in Nat /\ partial \in Nat
  BY <1>4, PriceIsAdjoint
<1>6. GetAmountInFromAmountOut(partial, price, y) <= ex
  <2> HIDE DEF partial
  <2>1. partial <= partial
    BY <1>5
  <2> QED
    BY <1>4, <1>5, <2>1, PriceIsAdjoint DEF partial
<1>7. out \in Nat /\ used \in Nat /\ GetAmountInFromAmountOut(out, price, y) <= used
  <2>1. CASE ex >= maxIn
    <3>1. out = has /\ used = maxIn
      <4> HIDE DEF maxIn
      <4> QED
        BY <1>4, <1>5, <2>1
    <3> HIDE DEF out, used
    <3> QED
      BY <1>5, <3>1
  <2>2. CASE ~(ex >= maxIn)
    <3>1. out = partial /\ used = ex
      <4> HIDE DEF maxIn
      <4> QED
        BY <1>4, <1>5, <2>2
    <3> HIDE DEF out, used, partial
    <3> QED
      BY <1>4, <1>5, <1>6, <3>1
  <2> QED
    BY <2>1, <2>2
<1> HIDE DEF out, used, r
<1>8. Scale \in Pos /\ out * Scale \in Nat /\ out * price \in Nat
  BY <1>7, DlmmMathAssumption DEF Pos
<1>9. Covers(used, out, price, y)
  <2>1. CASE y
    <3>1. divCeil(out * Scale, price) <= used
      BY <1>7, <2>1 DEF GetAmountInFromAmountOut
    <3>2. out * Scale <= used * price
      BY <1>7, <1>8, <3>1, DivCeilIsLeast
    <3> QED
      BY <2>1, <3>2 DEF Covers
  <2>2. CASE ~y
    <3>1. divCeil(out * price, Scale) <= used
      BY <1>7, <2>2 DEF GetAmountInFromAmountOut
    <3>2. out * price <= used * Scale
      BY <1>7, <1>8, <3>1, DivCeilIsLeast
    <3> QED
      BY <2>2, <3>2 DEF Covers
  <2> QED
    BY <2>1, <2>2
<1> QED
  BY <1>1, <1>9 DEF r

\* A bin whose price does not compute is never traded: any weight will do.
weight(b) == IF Price[b] = 0 THEN 1 ELSE Price[b]

Worth(b, r) == weight(b) * r.x + Scale * r.y

XOf(book) == [b \in Bins |-> book[b].x]
YOf(book) == [b \in Bins |-> book[b].y]

\* What has become of the reserves first: every bin is worth at least what it was, and
\* the trader won at most what is missing.
Fair(first, book, won) ==
    /\ book \in [Bins -> [x : Int, y : Int]]
    /\ won \in [1 .. 2 -> Int]
    /\ \A b \in Bins : Worth(b, first[b]) <= Worth(b, book[b])
    /\ won[1] + Total(XOf(book)) <= Total(XOf(first))
    /\ won[2] + Total(YOf(book)) <= Total(YOf(first))

\* x lies at the active bin or above it, y at the active bin or below.
Sided(book, active) ==
    \A b \in Bins : (b < active => book[b].x = 0) /\ (b > active => book[b].y = 0)

LEMMA WeightIsPos == \A b \in Bins : weight(b) \in Pos /\ Scale \in Pos
BY DlmmAssumption, DlmmMathAssumption DEF weight, Pos

\* Reserves on the sides of their active bins, worth no less bin by bin: all the x that
\* lies between the two was bought with y if the pool went up, and the other way around.
\* So who won some of both won nothing.
LEMMA FairWinsNothing ==
    ASSUME NEW first \in [Bins -> Reserves], NEW c \in Bins, Sided(first, c),
           NEW book \in [Bins -> Reserves], NEW d \in Bins, Sided(book, d),
           NEW won, Fair(first, book, won), won[1] >= 0, won[2] >= 0
    PROVE  won[1] = 0 /\ won[2] = 0
<1> DEFINE X0 == XOf(first)
           X1 == XOf(book)
           Y0 == YOf(first)
           Y1 == YOf(book)
<1>1. /\ X0 \in [Bins -> Int] /\ X1 \in [Bins -> Int] /\ Y0 \in [Bins -> Int] /\ Y1 \in [Bins -> Int]
      /\ \A b \in Bins : /\ X0[b] = first[b].x /\ X1[b] = book[b].x
                         /\ Y0[b] = first[b].y /\ Y1[b] = book[b].y
                         /\ X0[b] \in Nat /\ X1[b] \in Nat /\ Y0[b] \in Nat /\ Y1[b] \in Nat
  BY DlmmMathAssumption DEF XOf, YOf, Reserves
<1>2. /\ won[1] \in Int /\ won[2] \in Int
      /\ won[1] + Total(X1) <= Total(X0) /\ won[2] + Total(Y1) <= Total(Y0)
      /\ Total(X0) \in Int /\ Total(X1) \in Int /\ Total(Y0) \in Int /\ Total(Y1) \in Int
  <2>1. won[1] \in Int /\ won[2] \in Int
    BY DEF Fair
  <2>2. won[1] + Total(X1) <= Total(X0) /\ won[2] + Total(Y1) <= Total(Y0)
    BY DEF Fair
  <2> HIDE DEF X0, X1, Y0, Y1
  <2> QED
    BY <1>1, <2>1, <2>2, SumsExist
<1>3. \A b \in Bins : weight(b) \in Pos /\ Scale \in Pos
  BY WeightIsPos
<1>4. \A b \in Bins : weight(b) * X0[b] + Scale * Y0[b] <= weight(b) * X1[b] + Scale * Y1[b]
  <2>1. \A b \in Bins : Worth(b, first[b]) <= Worth(b, book[b])
    BY DEF Fair
  <2> QED
    BY <1>1, <2>1 DEF Worth
<1>5. \A b \in Bins : /\ b < c => X0[b] = 0
                      /\ b > c => Y0[b] = 0
                      /\ b < d => X1[b] = 0
                      /\ b > d => Y1[b] = 0
  BY <1>1 DEF Sided
<1>6. c \in Int /\ d \in Int /\ Bins \subseteq Int
  BY DlmmAssumption DEF Bins
<1> HIDE DEF X0, X1, Y0, Y1
\* A bin with less of one token has more of the other.
<1>7. ASSUME NEW b \in Bins
      PROVE  /\ X1[b] <= X0[b] => Y0[b] <= Y1[b]
             /\ Y1[b] <= Y0[b] => X0[b] <= X1[b]
             /\ Y1[b] = Y0[b] => X0[b] <= X1[b]
  <2> DEFINE p == weight(b)
             x0 == X0[b]
             x1 == X1[b]
             y0 == Y0[b]
             y1 == Y1[b]
  <2>1. p \in Pos /\ Scale \in Pos /\ x0 \in Nat /\ x1 \in Nat /\ y0 \in Nat /\ y1 \in Nat
    BY <1>1, <1>3
  <2>2. p * x0 + Scale * y0 <= p * x1 + Scale * y1
    BY <1>4
  <2> HIDE DEF p, x0, x1, y0, y1
  <2>3. /\ p * x0 = x0 * p /\ p * x1 = x1 * p /\ Scale * y0 = y0 * Scale /\ Scale * y1 = y1 * Scale
        /\ x0 * p \in Int /\ x1 * p \in Int /\ y0 * Scale \in Int /\ y1 * Scale \in Int
    BY <2>1 DEF Pos
  <2>4. x1 <= x0 => y0 <= y1
    <3> SUFFICES ASSUME x1 <= x0, y1 < y0 PROVE FALSE
      BY <2>1
    <3>1. x1 * p <= x0 * p /\ y1 * Scale < y0 * Scale
      BY <2>1, MulMonotone, MulStrict DEF Pos
    <3> QED
      BY <2>2, <2>3, <3>1
  <2>5. y1 <= y0 => x0 <= x1
    <3> SUFFICES ASSUME y1 <= y0, x1 < x0 PROVE FALSE
      BY <2>1
    <3>1. x1 * p < x0 * p /\ y1 * Scale <= y0 * Scale
      BY <2>1, MulMonotone, MulStrict DEF Pos
    <3> QED
      BY <2>2, <2>3, <3>1
  <2>6. y1 = y0 => x0 <= x1
    BY <2>1, <2>5
  <2> QED
    BY <2>4, <2>5, <2>6 DEF x0, x1, y0, y1
\* All bins but one may be compared by their place alone.
<1>8. CASE \A b \in Bins : Y0[b] <= Y1[b]
  <2>1. Total(Y0) <= Total(Y1)
    BY <1>1, <1>8, TotalsCompare
  <2>2. won[2] = 0 /\ Total(Y0) >= Total(Y1)
    BY <1>2, <2>1
  <2>3. \A b \in Bins : Y0[b] = Y1[b]
    BY <1>1, <1>8, <2>2, TotalsAgree
  <2>4. \A b \in Bins : X0[b] <= X1[b]
    BY <1>7, <2>3
  <2>5. Total(X0) <= Total(X1)
    BY <1>1, <2>4, TotalsCompare
  <2> QED
    BY <1>2, <2>2, <2>5
<1>9. CASE \A b \in Bins : X0[b] <= X1[b]
  <2>1. Total(X0) <= Total(X1)
    BY <1>1, <1>9, TotalsCompare
  <2>2. won[1] = 0 /\ Total(X0) >= Total(X1)
    BY <1>2, <2>1
  <2>3. \A b \in Bins : X0[b] = X1[b]
    BY <1>1, <1>9, <2>2, TotalsAgree
  <2>4. \A b \in Bins : Y0[b] <= Y1[b]
    BY <1>1, <1>7, <2>3
  <2>5. Total(Y0) <= Total(Y1)
    BY <1>1, <2>4, TotalsCompare
  <2> QED
    BY <1>2, <2>2, <2>5
<1>10. CASE c < d
  <2> SUFFICES ASSUME NEW b \in Bins PROVE Y0[b] <= Y1[b]
    BY <1>8
  <2>1. CASE b > c
    BY <1>1, <1>5, <2>1
  <2>2. CASE ~(b > c)
    <3>1. X1[b] = 0
      BY <1>5, <1>6, <1>10, <2>2
    <3> QED
      BY <1>1, <1>7, <3>1
  <2> QED
    BY <2>1, <2>2
<1>11. CASE d < c
  <2> SUFFICES ASSUME NEW b \in Bins PROVE X0[b] <= X1[b]
    BY <1>9
  <2>1. CASE b < c
    BY <1>1, <1>5, <2>1
  <2>2. CASE ~(b < c)
    <3>1. Y1[b] = 0
      BY <1>5, <1>6, <1>11, <2>2
    <3> QED
      BY <1>1, <1>7, <3>1
  <2> QED
    BY <2>1, <2>2
<1>12. CASE c = d
  <2>1. ASSUME NEW b \in Bins, b # c PROVE Y0[b] <= Y1[b] /\ X0[b] <= X1[b]
    <3>1. b < c \/ b > c
      BY <1>6, <2>1
    <3>2. b < c => X0[b] = 0 /\ X1[b] = 0
      BY <1>5, <1>12
    <3>3. b > c => Y0[b] = 0 /\ Y1[b] = 0
      BY <1>5, <1>12
    <3> QED
      BY <1>1, <1>7, <3>1, <3>2, <3>3
  <2>2. CASE X1[c] <= X0[c]
    <3>1. Y0[c] <= Y1[c]
      BY <1>7, <2>2
    <3> QED
      BY <1>8, <2>1, <3>1
  <2>3. CASE X0[c] <= X1[c]
    BY <1>9, <2>1, <2>3
  <2>4. X0[c] \in Nat /\ X1[c] \in Nat
    BY <1>1
  <2> QED
    BY <2>2, <2>3, <2>4
<1> QED
  BY <1>6, <1>10, <1>11, <1>12

-----------------------------------------------------------------------------
\* What a quote makes of the reserves and of the trader, if it lands

Taken(y, book, moves) ==
    [b \in Bins |-> IF y THEN [x |-> book[b].x + moves[b].in, y |-> book[b].y - moves[b].out]
                         ELSE [x |-> book[b].x - moves[b].out, y |-> book[b].y + moves[b].in]]

Wins(y, won, paid, got) == IF y THEN <<won[1] - paid, won[2] + got>>
                                ELSE <<won[1] + got, won[2] - paid>>

Moves == [Bins -> [out : Nat, in : Nat]]

LEMMA TakenIsTyped ==
    ASSUME NEW y \in BOOLEAN, NEW book \in [Bins -> Reserves], NEW moves \in Moves,
           NEW won \in [1 .. 2 -> Int], NEW paid \in Int, NEW got \in Int
    PROVE  /\ Taken(y, book, moves) \in [Bins -> [x : Int, y : Int]]
           /\ Wins(y, won, paid, got) \in [1 .. 2 -> Int]
           /\ XOf(Taken(y, book, moves)) \in [Bins -> Int]
           /\ YOf(Taken(y, book, moves)) \in [Bins -> Int]
           /\ Total(XOf(Taken(y, book, moves))) \in Int
           /\ Total(YOf(Taken(y, book, moves))) \in Int
<1>1. ASSUME NEW b \in Bins
      PROVE  /\ book[b].x \in Int /\ book[b].y \in Int
             /\ moves[b].in \in Int /\ moves[b].out \in Int
  BY DlmmMathAssumption DEF Reserves, Moves
<1> DEFINE t == Taken(y, book, moves)
<1>2. t \in [Bins -> [x : Int, y : Int]]
  <2>1. CASE y
    BY <1>1, <2>1 DEF Taken
  <2>2. CASE ~y
    BY <1>1, <2>2 DEF Taken
  <2> QED
    BY <2>1, <2>2
<1>3. Wins(y, won, paid, got) \in [1 .. 2 -> Int]
  <2>1. won[1] \in Int /\ won[2] \in Int
    OBVIOUS
  <2> QED
    BY <2>1 DEF Wins
<1> HIDE DEF t
<1>4. XOf(t) \in [Bins -> Int] /\ YOf(t) \in [Bins -> Int]
  BY <1>2 DEF XOf, YOf
<1> QED
  BY <1>2, <1>3, <1>4, SumsExist DEF t

\* The moves of a quote once its bin c gives out and takes in.
MovesOf(moves, c, in, out) == [moves EXCEPT ![c] = [out |-> out, in |-> in]]

\* A bin that gives no more than what it takes is worth keeps a quote fair, whatever
\* else the trader pays on top or does not get.
LEMMA BinSwapIsFair ==
    ASSUME NEW first \in [Bins -> Reserves], NEW book \in [Bins -> Reserves],
           NEW won \in [1 .. 2 -> Int], Fair(first, book, won),
           NEW y \in BOOLEAN, NEW moves \in Moves, NEW c \in Bins, moves[c].out = 0,
           NEW paid \in Int, NEW got \in Int,
           Fair(first, Taken(y, book, moves), Wins(y, won, paid, got)),
           NEW in \in Nat, NEW out \in Nat, Price[c] \in Pos, Covers(in, out, Price[c], y),
           NEW paid2 \in Int, NEW got2 \in Int, paid + in <= paid2, got2 <= got + out
    PROVE  Fair(first, Taken(y, book, MovesOf(moves, c, in, out)), Wins(y, won, paid2, got2))
<1> DEFINE moves2 == MovesOf(moves, c, in, out)
           t      == Taken(y, book, moves)
           t2     == Taken(y, book, moves2)
           n      == moves[c].in
<1>1. moves2 \in Moves
  BY DEF Moves, MovesOf
<1>2. /\ t2 \in [Bins -> [x : Int, y : Int]] /\ Wins(y, won, paid2, got2) \in [1 .. 2 -> Int]
      /\ t \in [Bins -> [x : Int, y : Int]]
      /\ XOf(t) \in [Bins -> Int] /\ YOf(t) \in [Bins -> Int]
      /\ Total(XOf(t)) \in Int /\ Total(YOf(t)) \in Int
  <2> HIDE DEF moves2
  <2> QED
    BY <1>1, TakenIsTyped
<1>3. /\ book[c].x \in Int /\ book[c].y \in Int /\ n \in Nat
      /\ won[1] \in Int /\ won[2] \in Int
  BY DlmmMathAssumption DEF Reserves, Moves
<1>4. \A b \in Bins \ {c} : t2[b] = t[b]
  BY DEF Taken, Moves, MovesOf
<1>5. t2[c] = IF y THEN [x |-> book[c].x + in, y |-> book[c].y - out]
                   ELSE [x |-> book[c].x - out, y |-> book[c].y + in]
  BY DEF Taken, Moves, MovesOf
<1>6. t[c] = IF y THEN [x |-> book[c].x + n, y |-> book[c].y]
                  ELSE [x |-> book[c].x, y |-> book[c].y + n]
  BY <1>3 DEF Taken, Moves
<1>7. /\ XOf(t2) = [XOf(t) EXCEPT ![c] = t2[c].x]
      /\ YOf(t2) = [YOf(t) EXCEPT ![c] = t2[c].y]
  <2> HIDE DEF t, t2
  <2> QED
    BY <1>2, <1>4 DEF XOf, YOf
<1>8. /\ XOf(t)[c] = t[c].x /\ YOf(t)[c] = t[c].y
      /\ t2[c].x \in Int /\ t2[c].y \in Int /\ t[c].x \in Int /\ t[c].y \in Int
  <2> HIDE DEF t, t2
  <2> QED
    BY <1>2 DEF XOf, YOf
<1>9. /\ Total(XOf(t2)) = Total(XOf(t)) - t[c].x + t2[c].x
      /\ Total(YOf(t2)) = Total(YOf(t)) - t[c].y + t2[c].y
  <2> DEFINE X == XOf(t)
             Y == YOf(t)
             u == t2[c].x
             v == t2[c].y
  <2>1. X \in [Bins -> Int] /\ Y \in [Bins -> Int] /\ u \in Int /\ v \in Int
    BY <1>2, <1>8
  <2>2. X[c] = t[c].x /\ Y[c] = t[c].y /\ XOf(t2) = [X EXCEPT ![c] = u] /\ YOf(t2) = [Y EXCEPT ![c] = v]
    BY <1>7, <1>8
  <2> HIDE DEF t, t2, X, Y, u, v
  <2>3. Total([X EXCEPT ![c] = u]) = Total(X) - X[c] + u
    BY <2>1, TotalMoves
  <2>4. Total([Y EXCEPT ![c] = v]) = Total(Y) - Y[c] + v
    BY <2>1, TotalMoves
  <2> QED
    BY <2>2, <2>3, <2>4 DEF X, Y, u, v
<1>10. ASSUME NEW b \in Bins PROVE Worth(b, first[b]) <= Worth(b, t2[b])
  <2>1. CASE b # c
    <3>1. Worth(b, first[b]) <= Worth(b, t[b])
      BY DEF Fair
    <3> QED
      BY <2>1, <3>1, <1>4
  <2>2. CASE b = c
    <3> DEFINE p  == Price[c]
               x0 == book[c].x
               y0 == book[c].y
               f  == Worth(c, first[c])
    <3>1. weight(c) = p /\ p \in Nat /\ Scale \in Nat
      BY DlmmMathAssumption DEF weight, Pos
    <3>2. f <= p * x0 + Scale * y0
      <4>1. Worth(c, first[c]) <= Worth(c, book[c])
        BY DEF Fair
      <4> QED
        BY <3>1, <4>1 DEF Worth
    <3>3. f \in Int
      <4>1. first[c].x \in Int /\ first[c].y \in Int
        BY DlmmMathAssumption DEF Reserves
      <4> QED
        BY <3>1, <4>1 DEF Worth
    <3>4. Worth(c, t2[c]) = p * t2[c].x + Scale * t2[c].y
      BY <3>1 DEF Worth
    <3> HIDE DEF p, x0, y0, f, t2
    <3>5. x0 \in Int /\ y0 \in Int
      BY <1>3 DEF x0, y0
    <3>6. f <= p * t2[c].x + Scale * t2[c].y
      <4>1. CASE y
        <5>1. t2[c].x = x0 + in /\ t2[c].y = y0 - out /\ out * Scale <= in * p
          BY <1>5, <4>1 DEF Covers, p, x0, y0
        <5>2. /\ p * (x0 + in) = p * x0 + in * p /\ Scale * (y0 - out) = Scale * y0 - out * Scale
              /\ p * x0 \in Int /\ in * p \in Int /\ Scale * y0 \in Int /\ out * Scale \in Int
          BY <3>1, <3>5
        <5> QED
          BY <3>2, <3>3, <5>1, <5>2
      <4>2. CASE ~y
        <5>1. t2[c].x = x0 - out /\ t2[c].y = y0 + in /\ out * p <= in * Scale
          BY <1>5, <4>2 DEF Covers, p, x0, y0
        <5>2. /\ p * (x0 - out) = p * x0 - out * p /\ Scale * (y0 + in) = Scale * y0 + in * Scale
              /\ p * x0 \in Int /\ out * p \in Int /\ Scale * y0 \in Int /\ in * Scale \in Int
          BY <3>1, <3>5
        <5> QED
          BY <3>2, <3>3, <5>1, <5>2
      <4> QED
        BY <4>1, <4>2
    <3> QED
      BY <2>2, <3>4, <3>6 DEF f
  <2> QED
    BY <2>1, <2>2
<1>11. /\ Wins(y, won, paid2, got2)[1] + Total(XOf(t2)) <= Total(XOf(first))
       /\ Wins(y, won, paid2, got2)[2] + Total(YOf(t2)) <= Total(YOf(first))
  <2>1. /\ Wins(y, won, paid, got)[1] + Total(XOf(t)) <= Total(XOf(first))
        /\ Wins(y, won, paid, got)[2] + Total(YOf(t)) <= Total(YOf(first))
    BY DEF Fair
  <2>2. Total(XOf(first)) \in Int /\ Total(YOf(first)) \in Int
    <3>1. XOf(first) \in [Bins -> Int] /\ YOf(first) \in [Bins -> Int]
      BY DlmmMathAssumption DEF XOf, YOf, Reserves
    <3> QED
      BY <3>1, SumsExist
  <2> DEFINE TX  == Total(XOf(t))
             TY  == Total(YOf(t))
             TX2 == Total(XOf(t2))
             TY2 == Total(YOf(t2))
             FX  == Total(XOf(first))
             FY  == Total(YOf(first))
             x0  == book[c].x
             y0  == book[c].y
  <2>3. /\ TX \in Int /\ TY \in Int /\ FX \in Int /\ FY \in Int /\ x0 \in Int /\ y0 \in Int
        /\ TX2 = TX - t[c].x + t2[c].x /\ TY2 = TY - t[c].y + t2[c].y
    BY <1>2, <1>3, <1>9, <2>2
  <2>4. CASE y
    <3>1. /\ Wins(y, won, paid, got) = <<won[1] - paid, won[2] + got>>
          /\ Wins(y, won, paid2, got2) = <<won[1] - paid2, won[2] + got2>>
      BY <2>4 DEF Wins
    <3>2. t2[c].x = x0 + in /\ t2[c].y = y0 - out /\ t[c].x = x0 + n /\ t[c].y = y0
      <4> HIDE DEF t, t2, n
      <4> QED
        BY <2>4, <1>5, <1>6
    <3>3. won[1] - paid + TX <= FX /\ won[2] + got + TY <= FY
      BY <2>1, <3>1
    <3> HIDE DEF TX, TY, TX2, TY2, FX, FY, x0, y0, t, t2, n
    <3>4. won[1] - paid2 + TX2 <= FX /\ won[2] + got2 + TY2 <= FY
      BY <1>3, <2>3, <3>2, <3>3
    <3> QED
      BY <3>1, <3>4 DEF TX2, TY2, FX, FY
  <2>5. CASE ~y
    <3>1. /\ Wins(y, won, paid, got) = <<won[1] + got, won[2] - paid>>
          /\ Wins(y, won, paid2, got2) = <<won[1] + got2, won[2] - paid2>>
      BY <2>5 DEF Wins
    <3>2. t2[c].x = x0 - out /\ t2[c].y = y0 + in /\ t[c].x = x0 /\ t[c].y = y0 + n
      <4> HIDE DEF t, t2, n
      <4> QED
        BY <2>5, <1>5, <1>6
    <3>3. won[1] + got + TX <= FX /\ won[2] - paid + TY <= FY
      BY <2>1, <3>1
    <3> HIDE DEF TX, TY, TX2, TY2, FX, FY, x0, y0, t, t2, n
    <3>4. won[1] + got2 + TX2 <= FX /\ won[2] - paid2 + TY2 <= FY
      BY <1>3, <2>3, <3>2, <3>3
    <3> QED
      BY <3>1, <3>4 DEF TX2, TY2, FX, FY
  <2> QED
    BY <2>4, <2>5
<1> QED
  BY <1>2, <1>10, <1>11 DEF Fair

-----------------------------------------------------------------------------
\* The trader never profits

\* The quote so far, if it landed here.
Owed(first) == Fair(first, Taken(q.swapForY, bins, moved),
                    Wins(q.swapForY, trader, q.amountIn - w.left, w.out))

\* The bins the walk has yet to visit were paid nothing.
Unpaid == \A b \in Bins \ (passed \cup {own.active}) : moved[b].in = 0

FairInv ==
    /\ trader \in [1 .. 2 -> Int]
    /\ Sided(bins, pool.active)
    /\ Quoting => Unpaid
    /\ \E first \in Books : Fair(first, bins, trader) /\ (Quoting => Owed(first))

LEMMA FairInitially == Init => FairInv
<1> SUFFICES ASSUME Init PROVE FairInv
  OBVIOUS
<1>1. bins \in Books /\ trader = <<0, 0>> /\ pool.active = 0 /\ ~Quoting
  BY DEF Init, NoPool, Quoting
<1>2. Sided(bins, pool.active) /\ trader \in [1 .. 2 -> Int]
  BY <1>1, BookAssumption DEF Sided
<1>3. Fair(bins, bins, trader)
  <2>1. bins \in [Bins -> Reserves]
    BY <1>1, DlmmAssumption
  <2>2. bins \in [Bins -> [x : Int, y : Int]]
    BY <2>1, DlmmMathAssumption DEF Reserves
  <2>3. \A b \in Bins : Worth(b, bins[b]) \in Int
    BY <2>2, WeightIsPos DEF Worth, Pos
  <2>4. XOf(bins) \in [Bins -> Int] /\ YOf(bins) \in [Bins -> Int]
    BY <2>2 DEF XOf, YOf
  <2>5. Total(XOf(bins)) \in Int /\ Total(YOf(bins)) \in Int
    BY <2>4, SumsExist
  <2>6. trader[1] + Total(XOf(bins)) <= Total(XOf(bins)) /\ trader[2] + Total(YOf(bins)) <= Total(YOf(bins))
    BY <1>1, <2>5
  <2>7. \A b \in Bins : Worth(b, bins[b]) <= Worth(b, bins[b])
    BY <2>3
  <2> QED
    BY <1>2, <2>2, <2>6, <2>7 DEF Fair
<1> QED
  BY <1>1, <1>2, <1>3 DEF FairInv

LEMMA QuoteExactInStaysFair ==
    ASSUME IInv, FairInv, NEW y \in BOOLEAN, NEW a \in Amounts, NEW l \in Lags, NEW n \in Windows,
           QuoteExactIn(y, a, l, n)
    PROVE  FairInv'
<1>1. Types /\ AtRest /\ pc = "idle"
  BY DEF IInv, QuoteExactIn
<1>2. /\ cfg' = cfg /\ pool' = pool /\ bins' = bins /\ trader' = trader /\ moved' = moved
      /\ moved = NoMoves
  BY <1>1 DEF QuoteExactIn, chain, AtRest
<1>3. PICK first \in Books : Fair(first, bins, trader)
  BY DEF FairInv
<1>4. Unpaid'
  BY <1>2 DEF Unpaid, NoMoves
<1>5. ASSUME Quoting' PROVE Owed(first)'
  <2>1. ~Refused
    BY <1>5 DEF QuoteExactIn, Quoting
  <2>2. w'.left = a /\ w'.out = 0 /\ q'.amountIn = a /\ a \in Int
    BY <2>1, DlmmAssumption, DlmmMathAssumption DEF QuoteExactIn, NoWalk
  <2>3. bins \in [Bins -> [x : Int, y : Int]]
    BY <1>1, DlmmMathAssumption DEF Types, Reserves
  <2>4. Taken(q'.swapForY, bins, NoMoves) = bins
    <3>1. ASSUME NEW b \in Bins
          PROVE  Taken(q'.swapForY, bins, NoMoves)[b] = bins[b]
      BY <2>3 DEF Taken, NoMoves
    <3> QED
      BY <2>3, <3>1 DEF Taken
  <2>5. trader \in [1 .. 2 -> Int]
    BY DEF FairInv
  <2>6. Wins(q'.swapForY, trader, q'.amountIn - w'.left, w'.out) = trader
    <3>1. trader[1] \in Int /\ trader[2] \in Int /\ trader = <<trader[1], trader[2]>>
      BY <2>5
    <3> QED
      BY <3>1, <2>2 DEF Wins
  <2> QED
    BY <1>2, <1>3, <2>4, <2>6 DEF Owed
<1> QED
  BY <1>2, <1>3, <1>4, <1>5 DEF FairInv

\* A visit keeps the bins it has yet to reach unpaid.
LEMMA VisitKeepsUnpaid ==
    ASSUME IInv, Quoting, Unpaid, NEW p \in PoolType, p.active = own.active, NEW walked,
           StepOn(p, walked), UNCHANGED <<chain, q>>,
           \A b \in Bins \ {own.active} : moved'[b] = moved[b]
    PROVE  Unpaid'
<1> DEFINE a == own.active
           n == nextBin(a, q.swapForY)
<1>1. Types /\ Ahead /\ pool' = pool /\ q' = q
  BY DEF IInv, WalkInv, chain
<1>2. own'.active \in {a, n}
  BY DEF StepOn, PoolType
<1>3. a \in Int /\ pool.active \in Int
  BY <1>1, DlmmAssumption DEF Types, PoolType, Bins
<1>4. passed \cup {a} \subseteq passed' \cup {own'.active}
  BY <1>1, <1>2, <1>3 DEF passed, nextBin, Ahead, onward
<1>5. ASSUME NEW b \in Bins \ (passed' \cup {own'.active}) PROVE moved'[b].in = 0
  <2>1. b \in Bins \ (passed \cup {a})
    BY <1>4
  <2> QED
    BY <2>1 DEF Unpaid
<1> QED
  BY <1>5 DEF Unpaid

LEMMA SkipEmptyBinStaysFair == ASSUME IInv, FairInv, SkipEmptyBin PROVE FairInv'
<1>1. /\ Visiting /\ StepOn(own, [w EXCEPT !.indices = listIndex(@)]) /\ moved' = moved
      /\ UNCHANGED <<chain, q>> /\ trader' = trader /\ bins' = bins /\ pool' = pool /\ q' = q
  BY DEF SkipEmptyBin, chain
<1>2. Quoting /\ Types
  BY <1>1 DEF Visiting, Quoting, IInv
<1>3. Unpaid'
  BY <1>1, <1>2, VisitKeepsUnpaid DEF FairInv, Types
<1>4. w'.left = w.left /\ w'.out = w.out
  BY <1>1, <1>2 DEF StepOn, Types, WalkType
<1>5. PICK first \in Books : Fair(first, bins, trader) /\ Owed(first)
  BY <1>2 DEF FairInv
<1>6. Owed(first)'
  BY <1>1, <1>4, <1>5 DEF Owed
<1> QED
  BY <1>1, <1>3, <1>5, <1>6 DEF FairInv

LEMMA SwapAtBinStaysFair == ASSUME IInv, FairInv, SwapAtBin PROVE FairInv'
<1> DEFINE r == atBin
           p == updateVolatilityAccumulator(own)
           walked == [left |-> wrap(w.left - r.consumed), out |-> wrap(w.out + r.out),
                      indices |-> listIndex(w.indices)]
           c == own.active
           y == q.swapForY
<1>1. /\ Visiting /\ maxOut > 0 /\ Price[own.active] > 0 /\ r.ok /\ StepOn(p, walked)
      /\ moved' = [moved EXCEPT ![own.active] = [out |-> r.gross, in |-> r.used]]
      /\ UNCHANGED <<chain, q>> /\ trader' = trader
  BY Zenon DEF SwapAtBin
<1>2. Types /\ Drained /\ w.left > 0 /\ pc = "walk" /\ Quoting
  BY <1>1 DEF IInv, WalkInv, Quoting, Visiting
<1>3. /\ cfg \in Configs /\ own \in PoolType /\ c \in Bins /\ bins \in [Bins -> Reserves]
      /\ moved \in Moves /\ q.amountIn \in Int
      /\ w.left \in 0 .. U64Max /\ w.out \in 0 .. U64Max /\ U64Max \in Nat
  <2>1. cfg \in Configs /\ own \in PoolType /\ bins \in [Bins -> Reserves]
    BY <1>2, Zenon DEF Types
  <2>2. c \in Bins
    BY <2>1 DEF PoolType
  <2>3. moved \in Moves
    BY <1>2, Zenon DEF Types, Moves
  <2>4. U64Max \in Nat
    BY DlmmMathAssumption
  <2>5. /\ w \in [left : 0 .. U64Max, out : 0 .. U64Max, indices : Seq(Int)]
        /\ q \in [swapForY : BOOLEAN, amountIn : 0 .. U64Max, timestamp : Int, window : SUBSET Int]
    BY <1>2, Zenon DEF Types
  <2>6. w.left \in 0 .. U64Max /\ w.out \in 0 .. U64Max /\ q.amountIn \in Int
    BY <2>4, <2>5
  <2> QED
    BY <2>1, <2>2, <2>3, <2>4, <2>6, Zenon
<1>4. p \in PoolType /\ p.active = own.active
  BY <1>3, CopyIsPool
<1>5. totalFeeRate(p.va) \in Rates
  BY <1>3, <1>4, FeeRateIsCapped DEF PoolType
<1>6. maxOut \in Nat /\ Price[c] \in Pos
  <2>1. bins[own.active] \in Reserves
    BY <1>2, <1>3 DEF Types
  <2>2. maxOut \in Nat
    BY <2>1, <1>3 DEF maxOut, GetMaxAmountOut, Reserves
  <2> QED
    BY <2>2, <1>1, <1>3, DlmmAssumption DEF Pos
<1>7. /\ r.consumed \in 0 .. w.left /\ r.gross \in 0 .. maxOut /\ r.used \in 0 .. r.consumed
      /\ r.out \in 0 .. U64Max /\ r.out <= r.gross
      /\ Covers(r.used, r.gross, Price[c], y)
      /\ y \in BOOLEAN
  <2>1. y \in BOOLEAN /\ feeOnInput(y) \in BOOLEAN
    BY <1>2, Zenon DEF Types, feeOnInput
  <2>2. atBin = swapAtBin(w.left, maxOut, Price[c], y, feeOnInput(y), totalFeeRate(p.va))
    BY Zenon DEF atBin
  <2> HIDE DEF p, c, y
  <2>3. /\ r.consumed \in 0 .. w.left /\ r.gross \in 0 .. maxOut /\ r.used \in 0 .. r.consumed
        /\ r.out \in 0 .. U64Max /\ r.out <= r.gross
    BY <2>1, <2>2, <1>1, <1>3, <1>5, <1>6, BinIsHonest
  <2>4. Covers(r.used, r.gross, Price[c], y)
    BY <2>1, <2>2, <1>1, <1>3, <1>5, <1>6, BinIsPaid
  <2> QED
    BY <2>1, <2>3, <2>4
<1> HIDE DEF r, p
<1>8. moved[c].out = 0
  BY <1>2 DEF Drained
<1>9. Unpaid'
  <2>1. \A b \in Bins \ {own.active} : moved'[b] = moved[b]
    BY <1>1, <1>3 DEF Moves
  <2> HIDE DEF walked
  <2> QED
    BY <2>1, <1>1, <1>2, <1>4, VisitKeepsUnpaid DEF FairInv
<1>10. /\ w'.left = w.left - r.consumed
       /\ w'.out \in 0 .. U64Max /\ w'.out <= w.out + r.gross
  <2>1. w' = walked
    <3> HIDE DEF walked
    <3> QED
      BY <1>1 DEF StepOn
  <2>2. w'.left = wrap(w.left - r.consumed) /\ w'.out = wrap(w.out + r.out)
    BY <2>1
  <2>3. w.left - r.consumed \in 0 .. U64Max
    BY <1>3, <1>7
  <2>4. w'.left = w.left - r.consumed
    BY <2>2, <2>3, WrapFits
  <2>5. w.out + r.out \in Nat /\ U64Max + 1 \in Pos
    BY <1>3, <1>7 DEF Pos
  <2>6. wrap(w.out + r.out) \in 0 .. U64Max /\ wrap(w.out + r.out) <= w.out + r.out
    BY <1>3, <2>5 DEF wrap
  <2> QED
    BY <1>3, <1>6, <1>7, <2>2, <2>4, <2>6
<1>11. PICK first \in Books : Fair(first, bins, trader) /\ Owed(first)
  BY <1>2 DEF FairInv
<1>12. Owed(first)'
  <2> DEFINE in    == r.used
             out   == r.gross
             paid  == q.amountIn - w.left
             got   == w.out
             paid2 == q.amountIn - w'.left
             got2  == w'.out
  <2>1. /\ in \in Nat /\ out \in Nat /\ paid \in Int /\ got \in Int /\ paid2 \in Int /\ got2 \in Int
        /\ paid + in <= paid2 /\ got2 <= got + out
    BY <1>3, <1>6, <1>7, <1>10
  <2>2. /\ first \in [Bins -> Reserves] /\ trader \in [1 .. 2 -> Int]
        /\ Fair(first, Taken(y, bins, moved), Wins(y, trader, paid, got))
        /\ Covers(in, out, Price[c], y) /\ y \in BOOLEAN
    BY <1>7, <1>11, DlmmAssumption DEF FairInv, Owed
  <2>3. moved' = MovesOf(moved, c, in, out) /\ c \in Bins
    BY <1>1, <1>3 DEF MovesOf
  <2>4. bins' = bins /\ q' = q
    BY <1>1 DEF chain
  <2>5. Price[c] \in Pos
    BY <1>6
  <2> HIDE DEF in, out, paid, got, paid2, got2, c, y
  <2>6. Fair(first, Taken(y, bins, MovesOf(moved, c, in, out)), Wins(y, trader, paid2, got2))
    BY <2>1, <2>2, <2>3, <2>5, <1>3, <1>8, <1>11, BinSwapIsFair
  <2> QED
    BY <2>3, <2>4, <2>6, <1>1 DEF Owed, y, paid2, got2
<1>13. bins' = bins /\ pool' = pool
  BY <1>1 DEF chain
<1> QED
  BY <1>1, <1>9, <1>11, <1>12, <1>13 DEF FairInv

LEMMA SwapLandsStaysFair == ASSUME IInv, FairInv, SwapLands PROVE FairInv'
<1>1. /\ pc = "done" /\ w.left = 0 /\ pc' = "idle" /\ pool' = [own EXCEPT !.last = now]
      /\ bins' = Taken(q.swapForY, bins, moved)
      /\ trader' = Wins(q.swapForY, trader, q.amountIn, w.out)
  BY DEF SwapLands, Taken, Wins
<1>2. Types /\ Drained /\ Ahead /\ Unpaid /\ Quoting
  BY <1>1 DEF IInv, WalkInv, FairInv, Quoting
<1>3. /\ q.swapForY \in BOOLEAN /\ bins \in [Bins -> Reserves] /\ moved \in Moves
      /\ trader \in [1 .. 2 -> Int] /\ q.amountIn \in Int /\ w.out \in Int
      /\ pool'.active = own.active
      /\ own.active \in Int /\ pool.active \in Int /\ Bins \subseteq Int
  <2>1. q.swapForY \in BOOLEAN
    BY <1>2, Zenon DEF Types
  <2>2. own.active \in Bins /\ pool.active \in Bins /\ pool'.active = own.active
    BY <1>1, <1>2 DEF Types, PoolType
  <2>3. Bins \subseteq Int
    BY DlmmAssumption DEF Bins
  <2>4. moved \in Moves /\ bins \in [Bins -> Reserves] /\ trader \in [1 .. 2 -> Int]
    BY <1>2 DEF Types, FairInv, Moves
  <2>5. q.amountIn \in Int /\ w.out \in Int
    BY <1>2, DlmmMathAssumption DEF Types
  <2> QED
    BY <2>1, <2>2, <2>3, <2>4, <2>5
<1>4. PICK first \in Books : Owed(first)
  BY <1>2 DEF FairInv
<1>5. Fair(first, bins', trader')
  BY <1>1, <1>3, <1>4 DEF Owed
<1>6. trader' \in [1 .. 2 -> Int]
  BY <1>1, <1>3, TakenIsTyped
<1>7. ASSUME NEW b \in Bins
      PROVE  (b < own.active => bins'[b].x = 0) /\ (b > own.active => bins'[b].y = 0)
  <2>1. /\ bins[b].x \in Nat /\ bins[b].y \in Nat /\ moved[b].out \in Nat /\ moved[b].in \in Nat
        /\ b \in Int
    BY <1>3, DlmmMathAssumption DEF Reserves, Moves
  <2>2. (b < pool.active => bins[b].x = 0) /\ (b > pool.active => bins[b].y = 0)
    BY DEF FairInv, Sided
  <2>3. b \in passed => moved[b].out = OutOf(b)
    BY <1>2 DEF Drained
  <2>4. b # own.active /\ b \notin passed => moved[b].out = 0 /\ moved[b].in = 0
    BY <1>2 DEF Drained, Unpaid
  <2>5. CASE q.swapForY
    <3>1. /\ bins'[b].x = bins[b].x + moved[b].in /\ bins'[b].y = bins[b].y - moved[b].out
          /\ OutOf(b) = bins[b].y
      BY <1>1, <2>5 DEF Taken, OutOf, GetMaxAmountOut
    <3>2. own.active <= pool.active
      BY <1>2, <2>5 DEF Ahead, onward
    <3>3. b \in passed <=> own.active < b /\ b <= pool.active
      BY <1>3, <2>1, <2>5 DEF passed
    <3> QED
      BY <1>3, <2>1, <2>2, <2>3, <2>4, <3>1, <3>2, <3>3
  <2>6. CASE ~q.swapForY
    <3>1. /\ bins'[b].x = bins[b].x - moved[b].out /\ bins'[b].y = bins[b].y + moved[b].in
          /\ OutOf(b) = bins[b].x
      BY <1>1, <2>6 DEF Taken, OutOf, GetMaxAmountOut
    <3>2. pool.active <= own.active
      BY <1>2, <2>6 DEF Ahead, onward
    <3>3. b \in passed <=> pool.active <= b /\ b < own.active
      BY <1>3, <2>1, <2>6 DEF passed
    <3> QED
      BY <1>3, <2>1, <2>2, <2>3, <2>4, <3>1, <3>2, <3>3
  <2> QED
    BY <2>5, <2>6
<1>8. Sided(bins', pool'.active)
  BY <1>3, <1>7 DEF Sided
<1>9. ~Quoting'
  BY <1>1 DEF Quoting
<1> QED
  BY <1>5, <1>6, <1>8, <1>9 DEF FairInv

LEMMA RestStaysFair ==
    ASSUME FairInv, EndOfWalk \/ SwapAtBinFails \/ Forget \/ TimePasses \/ UNCHANGED vars
    PROVE  FairInv'
<1>1. pool' = pool /\ bins' = bins /\ trader' = trader
  BY DEF EndOfWalk, SwapAtBinFails, Forget, TimePasses, vars, chain
<1>2. CASE Quoting'
  <2>1. Quoting /\ own' = own /\ q' = q /\ w' = w /\ moved' = moved
    BY <1>2 DEF EndOfWalk, SwapAtBinFails, Forget, TimePasses, vars, quote, Quoting
  <2>2. PICK first \in Books : Fair(first, bins, trader) /\ Owed(first)
    BY <2>1 DEF FairInv
  <2>3. Owed(first)'
    BY <1>1, <2>1, <2>2 DEF Owed
  <2>4. Unpaid'
    BY <1>1, <2>1 DEF FairInv, Unpaid, passed
  <2> QED
    BY <1>1, <2>2, <2>3, <2>4 DEF FairInv
<1>3. CASE ~Quoting'
  BY <1>1, <1>3 DEF FairInv
<1> QED
  BY <1>2, <1>3

\* FairInv is an invariant of every DLMM pool.
LEMMA QuotesAreFair == Spec => []FairInv
<1>1. ASSUME IInv, FairInv, [Next]_vars PROVE FairInv'
  <2>1. ASSUME NEW y \in BOOLEAN, NEW a \in Amounts, NEW l \in Lags, NEW n \in Windows,
               QuoteExactIn(y, a, l, n)
        PROVE  FairInv'
    BY <1>1, <2>1, QuoteExactInStaysFair
  <2>2. CASE SkipEmptyBin
    BY <1>1, <2>2, SkipEmptyBinStaysFair
  <2>3. CASE SwapAtBin
    BY <1>1, <2>3, SwapAtBinStaysFair
  <2>4. CASE SwapLands
    BY <1>1, <2>4, SwapLandsStaysFair
  <2>5. CASE EndOfWalk \/ SwapAtBinFails \/ Forget \/ TimePasses \/ UNCHANGED vars
    BY <1>1, <2>5, RestStaysFair
  <2> QED
    BY <1>1, <2>1, <2>2, <2>3, <2>4, <2>5 DEF Next, QuoteStep
<1> QED
  BY FairInitially, QuoteInv, <1>1, PTL DEF Spec

\* No sequence of swaps leaves the trader of a DLMM pool with more of one token and no
\* less of the other, for every price table, fee configuration and book with x above the
\* active bin and y below: the roundings of swapAtBin and of bin_quote.go all go against
\* the trader.
THEOREM TradersNeverProfit == Spec => []TraderNeverProfits
<1>1. ASSUME IInv, FairInv PROVE TraderNeverProfits
  <2> SUFFICES ASSUME trader[1] >= 0, trader[2] >= 0 PROVE trader = <<0, 0>>
    BY DEF TraderNeverProfits
  <2>1. Types
    BY <1>1 DEF IInv
  <2>2. PICK first \in Books : Fair(first, bins, trader)
    BY <1>1 DEF FairInv
  <2>3. first \in [Bins -> Reserves] /\ Sided(first, 0) /\ 0 \in Bins
    BY DlmmAssumption, BookAssumption DEF Sided, Bins
  <2> DEFINE d == pool.active
  <2>4. d \in Bins /\ bins \in [Bins -> Reserves] /\ Sided(bins, d)
    BY <1>1, <2>1 DEF Types, PoolType, FairInv
  <2> HIDE DEF d
  <2>5. trader[1] = 0 /\ trader[2] = 0
    BY <2>2, <2>3, <2>4, FairWinsNothing
  <2>6. trader \in [1 .. 2 -> Int]
    BY <1>1 DEF FairInv
  <2> QED
    BY <2>5, <2>6
<1> QED
  BY <1>1, QuoteInv, QuotesAreFair, PTL

=============================================================================
