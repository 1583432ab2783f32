------------------------ MODULE ConstantProductProofs ------------------------
(***************************************************************************)
(* The constant-product venues, for every pool account, vault balance, fee *)
(* schedule and amount: the fees a pool owes stay in its vaults, no quoter *)
(* answers more than the vault it was read with holds, however the reads   *)
(* fell between swaps and withdrawals, and no swaps at the quoted prices   *)
(* make a profit.                                                          *)
(***************************************************************************)
EXTENDS ConstantProduct, ArithmeticLemmas, SequenceTheorems

u64 == 0 .. U64Max

-----------------------------------------------------------------------------
\* The helpers of the quotes

LEMMA WrapFits ==
    ASSUME NEW n \in Int
    PROVE  wrap(n) \in u64 /\ (n \in u64 => wrap(n) = n)
<1>1. U64Max + 1 \in Nat /\ U64Max + 1 > 0
  BY ConstantProductMathAssumption
<1> DEFINE w == U64Max + 1
<1>2. n % w \in 0 .. w - 1 /\ (n \in 0 .. w - 1 => n % w = n)
  <2> HIDE DEF w
  <2> QED
    BY <1>1 DEF w
<1>3. 0 .. w - 1 = u64
  BY ConstantProductMathAssumption DEF u64
<1>4. wrap(n) = n % w
  BY DEF wrap
<1> HIDE DEF w
<1> QED
  BY <1>2, <1>3, <1>4

\* A pool with reserves on both sides never gives out all of one.
LEMMA CurveFits ==
    ASSUME NEW Ri \in Pos, NEW Ro \in Pos, NEW n \in Nat
    PROVE  curve(Ri, Ro, n) \in 0 .. Ro - 1
<1> DEFINE d == Ri + n
           m == Ro * n
           k == m \div d
<1>1. d \in Pos /\ m \in Nat /\ Ro \in Nat
  BY DEF Pos
<1>2. k \in Nat /\ (Ro * d <= m <=> Ro <= k)
  <2> HIDE DEF d, m
  <2> QED
    BY <1>1, DivFacts, FloorIsGreatest
<1>3. Ro * d = Ro * Ri + m /\ Ro * Ri > 0 /\ Ro * Ri \in Int
  BY DEF Pos
<1>4. ~(Ro <= k)
  <2> HIDE DEF k
  <2> QED
    BY <1>1, <1>2, <1>3
<1>5. curve(Ri, Ro, n) = k
  BY DEF curve
<1> HIDE DEF k
<1> QED
  BY <1>1, <1>2, <1>4, <1>5

LEMMA CeilFits ==
    ASSUME NEW n \in Nat, NEW d \in Pos
    PROVE  ceilDiv(n, d) \in Nat
BY CeilingIsLeast, 0 \in Nat DEF ceilDiv

\* A share of an amount, rounded up, is no more than it.
LEMMA CeilShareFits ==
    ASSUME NEW n \in Nat, NEW d \in Pos, NEW s \in 0 .. d
    PROVE  ceilDiv(n * s, d) \in 0 .. n
<1>1. s \in Nat /\ d \in Nat /\ s <= d
  BY DEF Pos
<1>2. n * s \in Nat /\ n * s = s * n /\ d * n = n * d
  BY <1>1, MulIsNat
<1>3. n * s <= n * d
  BY <1>1, <1>2, MulMonotone
<1> DEFINE m == n * s
           c == (m + d - 1) \div d
<1>4. c \in Nat /\ c <= n
  <2> HIDE DEF m
  <2>1. m \in Nat /\ m <= n * d
    BY <1>2, <1>3 DEF m
  <2> QED
    BY <2>1, CeilingIsLeast
<1>5. ceilDiv(n * s, d) = c
  BY DEF ceilDiv
<1> HIDE DEF c
<1> QED
  BY <1>4, <1>5

-----------------------------------------------------------------------------
\* What FromAccount makes, and what it answers

TransferFees == [older : Settings, newer : Settings]

\* A quoter of reserves that are there: at most the vault where the vault is what is
\* traded, and with fees that the arithmetic takes.
Rated(qt) ==
    \/ /\ qt.venue = "cpmm"
       /\ qt.tradeFeeRate \in Nat /\ qt.creatorFeeRate \in Nat /\ qt.creatorFeeOn \in CreatorFeeModes
    \/ qt.venue = "ammv4" /\ qt.fee[1] \in Nat /\ qt.fee[2] \in Pos
    \/ qt.venue \in {"pump", "curve"} /\ qt.feeBps \in 0 .. BpsDenominator
    \/ /\ qt.venue = "fluxbeam"
       /\ qt.curveType \in Nat /\ qt.epoch \in Nat
       /\ qt.fees \in [trade : [1 .. 2 -> Nat], owner : [1 .. 2 -> Nat]]
       /\ qt.transferFee \in [1 .. 2 -> {Nothing} \cup TransferFees]

Filled(qt) == \A i \in 1 .. 2 : qt.reserves[i] \in 1 .. U64Max

\* Raydium CP-Swap: what the curve gives is some but not all of the reserve, and only for
\* an input larger than its fee.
LEMMA SwappedFits ==
    ASSUME NEW Ri \in Pos, NEW Ro \in Pos, NEW a \in Nat, NEW rate \in Nat
    PROVE  /\ swapped(Ri, Ro, a, rate) \in 0 .. Ro - 1
           /\ ceilFee(a, rate) \in Nat
           /\ swapped(Ri, Ro, a, rate) > 0 => ceilFee(a, rate) <= a
<1> DEFINE fee == ceilFee(a, rate)
           net == a - fee
<1>1. fee \in Nat
  <2>1. a * rate \in Nat /\ FeeRateDenominator \in Pos
    BY MulIsNat, ConstantProductMathAssumption DEF Pos
  <2> QED
    BY <2>1, CeilFits DEF ceilFee
<1>2. swapped(Ri, Ro, a, rate) = IF net <= 0 THEN 0 ELSE curve(Ri, Ro, net)
  BY DEF swapped
<1> HIDE DEF fee
<1>3. CASE net <= 0
  BY <1>1, <1>2, <1>3 DEF Pos, fee
<1>4. CASE ~(net <= 0)
  <2>1. net \in Nat
    BY <1>1, <1>4
  <2> HIDE DEF net
  <2>2. curve(Ri, Ro, net) \in 0 .. Ro - 1
    BY <2>1, CurveFits
  <2>3. fee <= a
    BY <1>1, <1>4 DEF net
  <2> QED
    BY <1>1, <1>2, <1>4, <2>2, <2>3 DEF fee
<1> QED
  BY <1>3, <1>4

LEMMA SwapBaseInputFits ==
    ASSUME NEW Ri \in Pos, NEW Ro \in Pos, NEW a \in Nat, NEW trade \in Nat, NEW creator \in Nat,
           NEW onInput \in BOOLEAN
    PROVE  LET rate == inputFeeRate(trade, creator, onInput)
               out  == SwapBaseInput(Ri, Ro, a, trade, creator, onInput)
           IN  /\ rate \in Nat
               /\ out \in 0 .. swapped(Ri, Ro, a, rate)
               /\ swapped(Ri, Ro, a, rate) \in 0 .. Ro - 1
               /\ ceilFee(a, rate) \in Nat
               /\ out > 0 => ceilFee(a, rate) <= a
<1> DEFINE rate  == inputFeeRate(trade, creator, onInput)
           gross == swapped(Ri, Ro, a, rate)
           out   == SwapBaseInput(Ri, Ro, a, trade, creator, onInput)
           fee   == ceilFee(a, rate)
<1> SUFFICES /\ rate \in Nat /\ out \in 0 .. gross /\ gross \in 0 .. Ro - 1
             /\ fee \in Nat /\ (out > 0 => fee <= a)
  OBVIOUS
<1>1. rate \in Nat
  <2>1. trade + creator \in Int
    OBVIOUS
  <2>2. wrap(trade + creator) \in Nat
    BY <2>1, WrapFits, ConstantProductMathAssumption DEF u64
  <2> QED
    BY <2>2 DEF inputFeeRate
<1>2. gross \in 0 .. Ro - 1 /\ fee \in Nat /\ (gross > 0 => fee <= a)
  <2> HIDE DEF rate
  <2> QED
    BY <1>1, SwappedFits
<1>3. out = IF onInput THEN gross ELSE saturatingSub(gross, ceilFee(gross, creator))
  BY DEF SwapBaseInput
<1> HIDE DEF gross, fee, out, rate
<1>4. gross \in Nat
  BY <1>2 DEF Pos
<1>5. ceilFee(gross, creator) \in Nat
  <2>1. gross * creator \in Nat /\ FeeRateDenominator \in Pos
    BY <1>4, MulIsNat, ConstantProductMathAssumption DEF Pos
  <2> QED
    BY <2>1, CeilFits DEF ceilFee
<1>6. saturatingSub(gross, ceilFee(gross, creator)) \in 0 .. gross
  <2> DEFINE c == ceilFee(gross, creator)
  <2>1. c \in Nat
    BY <1>5
  <2> HIDE DEF c
  <2>2. saturatingSub(gross, c) \in 0 .. gross
    BY <1>4, <2>1 DEF saturatingSub
  <2> QED
    BY <2>2 DEF c
<1>7. out \in 0 .. gross
  BY <1>3, <1>4, <1>6
<1> QED
  BY <1>1, <1>2, <1>4, <1>7

\* Raydium AMM v4, the same with one fee.
LEMMA SwapBaseInFits ==
    ASSUME NEW Ri \in Pos, NEW Ro \in Pos, NEW a \in Nat, NEW n \in Nat, NEW d \in Pos
    PROVE  /\ SwapBaseIn(Ri, Ro, a, n, d) \in 0 .. Ro - 1
           /\ ceilDiv(a * n, d) \in Nat
           /\ SwapBaseIn(Ri, Ro, a, n, d) > 0 => ceilDiv(a * n, d) <= a
<1> DEFINE fee == ceilDiv(a * n, d)
           net == a - fee
<1>1. fee \in Nat
  BY MulIsNat, CeilFits
<1>2. SwapBaseIn(Ri, Ro, a, n, d) = IF net <= 0 THEN 0 ELSE curve(Ri, Ro, net)
  <2>1. d # 0
    BY DEF Pos
  <2> QED
    BY <2>1, Zenon DEF SwapBaseIn
<1> HIDE DEF fee
<1>3. CASE net <= 0
  BY <1>1, <1>2, <1>3 DEF Pos, fee
<1>4. CASE ~(net <= 0)
  <2>1. net \in Nat
    BY <1>1, <1>4
  <2> HIDE DEF net
  <2>2. curve(Ri, Ro, net) \in 0 .. Ro - 1
    BY <2>1, CurveFits
  <2>3. fee <= a
    BY <1>1, <1>4 DEF net
  <2> QED
    BY <1>1, <1>2, <1>4, <2>2, <2>3 DEF fee
<1> QED
  BY <1>3, <1>4

\* Pump: with a fee of at most 100% neither subtraction wraps.
LEMMA SellFits ==
    ASSUME NEW Ri \in Pos, NEW Ro \in 1 .. U64Max, NEW a \in Nat, NEW fee \in 0 .. BpsDenominator
    PROVE  /\ SellExactIn(Ri, Ro, a, fee) \in 0 .. curve(Ri, Ro, a)
           /\ curve(Ri, Ro, a) \in 0 .. Ro - 1
<1> DEFINE g == curve(Ri, Ro, a)
           s == BpsDenominator - fee
           k == (g * s) \div BpsDenominator
<1>1. Ro \in Pos /\ U64Max \in Nat /\ BpsDenominator \in Pos /\ BpsDenominator <= U64Max
  BY ConstantProductMathAssumption DEF Pos
<1>2. g \in 0 .. Ro - 1
  BY <1>1, CurveFits
<1> HIDE DEF g
<1>3. s \in 0 .. BpsDenominator /\ s \in u64 /\ s \in Int /\ s \in Nat
  BY <1>1 DEF u64, Pos
<1>4. wrap(s) = s
  <2> HIDE DEF s
  <2> QED
    BY <1>3, WrapFits
<1>5. k \in 0 .. g
  <2> HIDE DEF s
  <2>1. g \in Nat /\ g * s \in Nat
    BY <1>2, <1>3, MulIsNat
  <2>2. g * s <= g * BpsDenominator
    <3>1. s * g <= BpsDenominator * g /\ g * s = s * g /\ g * BpsDenominator = BpsDenominator * g
      BY <1>1, <1>3, <2>1, MulMonotone, MulIsNat DEF Pos
    <3> QED
      BY <3>1
  <2>3. k \in Nat
    BY <1>1, <2>1, DivFacts
  <2>4. k <= g
    <3> DEFINE n == g * s
    <3>1. n \in Nat /\ n <= g * BpsDenominator
      BY <2>1, <2>2
    <3>2. n < (g + 1) * BpsDenominator
      <4> HIDE DEF n
      <4>1. (g + 1) * BpsDenominator = g * BpsDenominator + BpsDenominator /\ g * BpsDenominator \in Int
        BY <1>1, <2>1 DEF Pos
      <4> QED
        BY <1>1, <3>1, <4>1 DEF Pos
    <3> HIDE DEF n
    <3>3. (g + 1) * BpsDenominator <= n <=> g + 1 <= n \div BpsDenominator
      BY <1>1, <2>1, <3>1, FloorIsGreatest
    <3>4. n \div BpsDenominator \in Nat /\ (g + 1) * BpsDenominator \in Int
      <4>1. n \div BpsDenominator \in Nat
        BY <1>1, <3>1, DivFacts
      <4>2. (g + 1) * BpsDenominator \in Int
        BY <1>1, <2>1 DEF Pos
      <4> QED
        BY <4>1, <4>2
    <3>5. n \div BpsDenominator <= g
      BY <2>1, <3>1, <3>2, <3>3, <3>4
    <3> QED
      BY <3>5 DEF n
  <2> QED
    BY <2>1, <2>3, <2>4
<1>6. wrap(k) = k
  <2>1. k \in Int /\ k \in u64
    <3> HIDE DEF k
    <3> QED
      BY <1>1, <1>2, <1>5 DEF u64
  <2> HIDE DEF k
  <2> QED
    BY <2>1, WrapFits
<1>7. SellExactIn(Ri, Ro, a, fee) = k
  <2>1. Ri + a # 0
    BY DEF Pos
  <2>2. SellExactIn(Ri, Ro, a, fee) = wrap((g * wrap(s)) \div BpsDenominator)
    BY <2>1, Zenon DEF SellExactIn, g
  <2> QED
    BY <1>4, <1>6, <2>2, Zenon
<1> HIDE DEF k
<1> QED
  BY <1>2, <1>5, <1>7 DEF g

LEMMA BuyFits ==
    ASSUME NEW Ri \in Pos, NEW Ro \in Pos, NEW a \in Nat, NEW fee \in 0 .. BpsDenominator
    PROVE  /\ effectiveIn(a, fee) \in 0 .. a
           /\ BuyExactIn(Ri, Ro, a, fee) = curve(Ri, Ro, effectiveIn(a, fee))
           /\ BuyExactIn(Ri, Ro, a, fee) \in 0 .. Ro - 1
<1> DEFINE d == BpsDenominator + fee
           e == effectiveIn(a, fee)
<1>1. d \in Int /\ d \in u64 /\ d \in Pos /\ BpsDenominator \in Nat
  BY ConstantProductMathAssumption DEF u64, Pos
<1>2. wrap(d) = d
  <2> HIDE DEF d
  <2> QED
    BY <1>1, WrapFits
<1>3. e \in Nat /\ e <= a
  <2>1. a * BpsDenominator \in Nat
    BY <1>1, MulIsNat
  <2>2. e = (a * BpsDenominator) \div d
    BY <1>2, Zenon DEF effectiveIn
  <2>3. (a + 1) * d = a * BpsDenominator + (a * fee + d) /\ a * fee \in Nat
    BY <1>1
  <2> HIDE DEF e, d
  <2>4. e \in Nat
    BY <1>1, <2>1, <2>2, DivFacts
  <2>5. ~((a + 1) * d <= a * BpsDenominator)
    BY <1>1, <2>1, <2>3 DEF Pos
  <2>6. (a + 1) * d <= a * BpsDenominator <=> a + 1 <= e
    BY <1>1, <2>1, <2>2, FloorIsGreatest, a + 1 \in Nat
  <2> QED
    BY <2>4, <2>5, <2>6
<1>4. BuyExactIn(Ri, Ro, a, fee) = curve(Ri, Ro, e)
  <2>1. Ri + e # 0
    <3> HIDE DEF e
    <3> QED
      BY <1>3 DEF Pos
  <2> QED
    BY <2>1, Zenon DEF BuyExactIn
<1> HIDE DEF e
<1>5. curve(Ri, Ro, e) \in 0 .. Ro - 1
  BY <1>3, CurveFits
<1> QED
  BY <1>3, <1>4, <1>5 DEF e

\* Token-2022: a mint's fee is never more than the amount.
LEMMA TransferFits ==
    ASSUME NEW config \in {Nothing} \cup TransferFees, NEW epoch \in Nat, NEW a \in u64
    PROVE  afterTransfer(config, epoch, a) \in 0 .. a
<1>1. a \in Nat /\ BpsDenominator \in Pos
  BY ConstantProductMathAssumption DEF u64, Pos
<1>2. CASE config = Nothing
  <2>1. afterTransfer(config, epoch, a) = a
    BY <1>2, Zenon DEF afterTransfer, Nothing
  <2> QED
    BY <1>1, <2>1
<1>3. CASE config # Nothing
  <2> DEFINE s == EpochFee(config, epoch)
             f == TransferFee(s, a)
             c == ceilDiv(a * s.bps, BpsDenominator)
  <2>1. s \in Settings
    BY <1>3 DEF EpochFee, TransferFees
  <2>2. s.bps \in 0 .. BpsDenominator /\ s.maximum \in Nat
    BY <2>1 DEF Settings
  <2> DEFINE b == s.bps
             m == s.maximum
  <2>3. c \in 0 .. a
    <3>1. b \in 0 .. BpsDenominator
      BY <2>2
    <3> HIDE DEF b
    <3>2. ceilDiv(a * b, BpsDenominator) \in 0 .. a
      BY <1>1, <3>1, CeilShareFits
    <3> QED
      BY <3>2 DEF b
  <2>4. f = IF b = 0 \/ a = 0 THEN 0 ELSE lesser(c, m)
    BY DEF TransferFee
  <2>5. f \in 0 .. a
    <3>1. m \in Nat
      BY <2>2
    <3> HIDE DEF f, c, b, m
    <3> QED
      BY <1>1, <2>3, <2>4, <3>1 DEF lesser
  <2>6. afterTransfer(config, epoch, a) = wrap(a - f)
    BY <1>3, Zenon DEF afterTransfer, PostFeeAmount, Nothing
  <2> HIDE DEF f
  <2>7. a - f \in Int /\ a - f \in u64 /\ a - f \in 0 .. a
    BY <1>1, <2>5, ConstantProductMathAssumption DEF u64
  <2>8. wrap(a - f) = a - f
    BY <2>7, WrapFits
  <2> QED
    BY <2>6, <2>7, <2>8
<1> QED
  BY <1>2, <1>3

\* FluxBeam: the curve gives some but not all of the reserve, for what is left of the input.
LEMMA FluxBeamGrossFits ==
    ASSUME NEW qt, qt.venue = "fluxbeam", Rated(qt), Filled(qt), NEW a \in u64,
           NEW i \in 1 .. 2, NEW o \in 1 .. 2
    PROVE  /\ FluxBeamGross(qt, a, i, o) \in 0 .. qt.reserves[o] - 1
           /\ afterTransfer(qt.transferFee[i], qt.epoch, a) \in 0 .. a
           /\ FluxBeamGross(qt, a, i, o) > 0 =>
                  \E n \in 0 .. afterTransfer(qt.transferFee[i], qt.epoch, a) :
                      FluxBeamGross(qt, a, i, o) = curve(qt.reserves[i], qt.reserves[o], n)
<1>1. /\ qt.epoch \in Nat
      /\ qt.fees \in [trade : [1 .. 2 -> Nat], owner : [1 .. 2 -> Nat]]
      /\ qt.transferFee[i] \in {Nothing} \cup TransferFees
  BY DEF Rated
<1> DEFINE Ri == qt.reserves[i]
           Ro == qt.reserves[o]
           t  == qt.fees.trade
           w  == qt.fees.owner
           x  == afterTransfer(qt.transferFee[i], qt.epoch, a)
           f  == calculateFee(x, t) + calculateFee(x, w)
           n  == x - f
<1>2. Ri \in Pos /\ Ro \in Pos
  BY ConstantProductMathAssumption DEF Filled, Pos
<1>3. x \in 0 .. a
  <2> DEFINE c == qt.transferFee[i]
             e == qt.epoch
  <2>1. c \in {Nothing} \cup TransferFees /\ e \in Nat
    BY <1>1
  <2> HIDE DEF c, e
  <2>2. afterTransfer(c, e, a) \in 0 .. a
    BY <2>1, TransferFits
  <2> QED
    BY <2>2 DEF c, e
<1>4. x \in Nat
  <2> HIDE DEF x
  <2> QED
    BY <1>3, ConstantProductMathAssumption DEF u64
<1> HIDE DEF x
<1>5. ASSUME NEW fee \in [1 .. 2 -> Nat] PROVE calculateFee(x, fee) \in Nat
  <2>1. fee[1] \in Nat /\ fee[2] \in Nat
    OBVIOUS
  <2>2. CASE fee[2] = 0
    BY <2>2, Zenon DEF calculateFee
  <2>3. CASE fee[2] # 0
    <3> DEFINE k == (x * fee[1]) \div fee[2]
    <3>1. k \in Nat
      BY <1>4, <2>1, <2>3, MulIsNat, DivFacts DEF Pos
    <3>2. calculateFee(x, fee) \in {0, 1, k}
      BY DEF calculateFee
    <3> HIDE DEF k
    <3> QED
      BY <3>1, <3>2
  <2> QED
    BY <2>2, <2>3
<1>6. f \in Nat
  <2>1. t \in [1 .. 2 -> Nat] /\ w \in [1 .. 2 -> Nat]
    BY <1>1
  <2> HIDE DEF t, w
  <2> QED
    BY <1>5, <2>1
<1>7. SwapExactIn(Ri, Ro, x, qt.fees) = IF n <= 0 THEN 0 ELSE curve(Ri, Ro, n)
  BY Zenon DEF SwapExactIn
<1>8. SwapExactIn(Ri, Ro, x, qt.fees) \in 0 .. Ro - 1
  <2> HIDE DEF f, Ri, Ro
  <2>1. CASE n <= 0
    BY <1>2, <1>7, <2>1 DEF Pos
  <2>2. CASE ~(n <= 0)
    <3>1. n \in Nat
      BY <1>4, <1>6, <2>2
    <3> HIDE DEF n
    <3>2. curve(Ri, Ro, n) \in 0 .. Ro - 1
      BY <1>2, <3>1, CurveFits
    <3> QED
      BY <1>7, <2>2, <3>2
  <2> QED
    BY <2>1, <2>2
<1>9. FluxBeamGross(qt, a, i, o) = IF qt.curveType # 0 THEN 0 ELSE SwapExactIn(Ri, Ro, x, qt.fees)
  BY Zenon DEF FluxBeamGross, x
<1>10. 0 \in 0 .. Ro - 1
  BY <1>2 DEF Pos
<1>11. FluxBeamGross(qt, a, i, o) > 0 =>
           \E k \in 0 .. x : FluxBeamGross(qt, a, i, o) = curve(Ri, Ro, k)
  <2> SUFFICES ASSUME FluxBeamGross(qt, a, i, o) > 0
               PROVE  \E k \in 0 .. x : FluxBeamGross(qt, a, i, o) = curve(Ri, Ro, k)
    OBVIOUS
  <2> HIDE DEF f, Ri, Ro
  <2>1. ~(n <= 0) /\ FluxBeamGross(qt, a, i, o) = curve(Ri, Ro, n)
    BY <1>7, <1>9
  <2>2. n \in 0 .. x
    BY <1>4, <1>6, <2>1
  <2> QED
    BY <2>1, <2>2
<1> QED
  BY <1>3, <1>8, <1>9, <1>10, <1>11 DEF x

\* No quoter answers all of a reserve, or more.
LEMMA QuoteFits ==
    ASSUME NEW qt, Rated(qt), Filled(qt), NEW a \in u64, NEW aToB \in BOOLEAN
    PROVE  QuoteExactIn(qt, a, aToB) \in 0 .. qt.reserves[IF aToB THEN 2 ELSE 1] - 1
<1> DEFINE i  == IF aToB THEN 1 ELSE 2
           o  == 3 - i
           Ri == qt.reserves[i]
           Ro == qt.reserves[o]
<1>1. i \in 1 .. 2 /\ o \in 1 .. 2 /\ o = (IF aToB THEN 2 ELSE 1)
  OBVIOUS
<1>2. Ri \in Pos /\ Ro \in 1 .. U64Max /\ Ro \in Pos /\ a \in Nat
  BY <1>1, ConstantProductMathAssumption DEF Filled, Pos, u64
<1> SUFFICES QuoteExactIn(qt, a, aToB) \in 0 .. Ro - 1
  BY <1>1
<1>3. CASE qt.venue = "cpmm"
  <2> DEFINE t == qt.tradeFeeRate
             c == qt.creatorFeeRate
             b == CreatorFeeOnInput(qt.creatorFeeOn, i = 1)
  <2>1. t \in Nat /\ c \in Nat /\ qt.creatorFeeOn \in CreatorFeeModes
    BY <1>3 DEF Rated
  <2>2. b \in BOOLEAN
    BY <2>1 DEF CreatorFeeModes, CreatorFeeOnInput
  <2>3. QuoteExactIn(qt, a, aToB) = SwapBaseInput(Ri, Ro, a, t, c, b)
    BY <1>3 DEF QuoteExactIn, RaydiumCPMM
  <2> HIDE DEF t, c, b, Ri, Ro
  <2> DEFINE s == swapped(Ri, Ro, a, inputFeeRate(t, c, b))
  <2>4. SwapBaseInput(Ri, Ro, a, t, c, b) \in 0 .. s /\ s \in 0 .. Ro - 1
    BY <1>2, <2>1, <2>2, SwapBaseInputFits
  <2> HIDE DEF s
  <2> QED
    BY <1>2, <2>3, <2>4 DEF Pos
<1>4. CASE qt.venue = "ammv4"
  <2> DEFINE n == qt.fee[1]
             d == qt.fee[2]
  <2>1. n \in Nat /\ d \in Pos
    BY <1>4 DEF Rated
  <2>2. QuoteExactIn(qt, a, aToB) = SwapBaseIn(Ri, Ro, a, n, d)
    BY <1>4 DEF QuoteExactIn, RaydiumAMMV4
  <2> HIDE DEF n, d, Ri, Ro
  <2> QED
    BY <1>2, <2>1, <2>2, SwapBaseInFits
<1>5. CASE qt.venue \in {"pump", "curve"}
  <2> DEFINE f == qt.feeBps
  <2>1. f \in 0 .. BpsDenominator
    BY <1>5 DEF Rated
  <2>2. CASE aToB
    <3>1. QuoteExactIn(qt, a, aToB) = SellExactIn(Ri, Ro, a, f)
      BY <1>5, <2>2 DEF QuoteExactIn, Pump, PumpBondingCurve, CurveSellExactIn
    <3> DEFINE g == curve(Ri, Ro, a)
    <3> HIDE DEF f, Ri, Ro
    <3>2. SellExactIn(Ri, Ro, a, f) \in 0 .. g /\ g \in 0 .. Ro - 1
      BY <1>2, <2>1, SellFits
    <3> HIDE DEF g
    <3> QED
      BY <1>2, <3>1, <3>2 DEF Pos
  <2>3. CASE ~aToB
    <3>1. QuoteExactIn(qt, a, aToB) = BuyExactIn(Ri, Ro, a, f)
      BY <1>5, <2>3 DEF QuoteExactIn, Pump, PumpBondingCurve, CurveBuyExactIn
    <3> HIDE DEF f, Ri, Ro
    <3> QED
      BY <1>2, <2>1, <3>1, BuyFits
  <2> QED
    BY <2>2, <2>3
<1>6. CASE qt.venue = "fluxbeam"
  <2> DEFINE g == FluxBeamGross(qt, a, i, o)
             c == qt.transferFee[o]
             e == qt.epoch
  <2>1. c \in {Nothing} \cup TransferFees /\ e \in Nat
    BY <1>1, <1>6 DEF Rated
  <2>2. g \in 0 .. Ro - 1
    <3> HIDE DEF i, o
    <3> QED
      BY <1>1, <1>6, FluxBeamGrossFits
  <2>3. QuoteExactIn(qt, a, aToB) = afterTransfer(c, e, g)
    BY <1>6 DEF QuoteExactIn, FluxBeam
  <2> HIDE DEF g, c, e, Ro
  <2>4. g \in u64
    BY <1>2, <2>2, ConstantProductMathAssumption DEF u64
  <2>5. afterTransfer(c, e, g) \in 0 .. g
    BY <2>1, <2>4, TransferFits
  <2> QED
    BY <1>2, <2>2, <2>3, <2>5
<1> QED
  BY <1>3, <1>4, <1>5, <1>6 DEF Rated

-----------------------------------------------------------------------------
\* What an account and an Aux of a pool may be

\* An account of the pool w, as it is or as it was.
DataOf(w, d) ==
    /\ w.owner = "cpmm" => d \in CPMMData
    /\ w.owner = "ammv4" => d \in AMMV4Data
    /\ w.owner = "pump" => d = w.data
    /\ w.owner = "curve" => d \in CurveData
    /\ w.owner = "fluxbeam" => d \in FluxData

\* An Aux filled in for it, at any time and with any fields left out.
AuxFor(w, x) ==
    /\ x.vault \in [1 .. 2 -> u64]
    /\ x.now \in Nat /\ x.supply \in Nat
    /\ x.curveFeeBps \in 0 .. BpsDenominator
    /\ x.transferFee \in [1 .. 2 -> {Nothing} \cup TransferFees]
    /\ w.owner = "cpmm" => x.config \in {Nothing} \cup [tradeFeeRate : Nat, creatorFeeRate : Nat]
    /\ w.owner = "pump" => /\ x.config \in {Nothing, DecodePumpGlobalConfig(w.config)}
                           /\ x.feeConfig \in {Nothing, DecodePumpFeeConfig(w.feeConfig)}

\* The reserves a quoter trades are the vault it was read with, or less; a Pump pool's
\* quote side and a bonding curve trade virtual ones.
Within(qt, x) ==
    \A i \in 1 .. 2 : \/ qt.venue = "curve" \/ (qt.venue = "pump" /\ i = 2)
                      \/ qt.reserves[i] <= x.vault[i]

Sound(w, qt, x) == qt.venue = w.owner /\ Rated(qt) /\ Filled(qt) /\ Within(qt, x)

\* What the account decoders return when they return something.
AMMV4Of(d) == [status |-> d.status, fee |-> d.fee, pnl |-> d.pnl, openTime |-> d.openTime]

LEMMA AMMV4Decodes ==
    ASSUME NEW d, DecodeRaydiumAMMV4Pool(d) # Nothing
    PROVE  ~(d.len # 752 \/ d.status > 7) /\ DecodeRaydiumAMMV4Pool(d) = AMMV4Of(d)
<1> DEFINE bad == d.len # 752 \/ d.status > 7
<1>1. DecodeRaydiumAMMV4Pool(d) = IF bad THEN Nothing ELSE AMMV4Of(d)
  BY Zenon DEF DecodeRaydiumAMMV4Pool, AMMV4Of
<1> HIDE DEF bad
<1>2. ~bad /\ DecodeRaydiumAMMV4Pool(d) = AMMV4Of(d)
  BY <1>1, Zenon
<1> QED
  BY <1>2, Zenon DEF bad

PumpPoolShort(d) ==
    d.len < 211 \/ d.disc # "Pool" \/ carried(d, 261, d.virtualQuote, 0) \notin -I64Max - 1 .. I64Max

PumpPoolOf(d) == [graduate      |-> d.graduate,
                  quoteMint     |-> d.quoteMint,
                  coinCreator   |-> carried(d, 243, d.coinCreator, FALSE),
                  virtualQuote  |-> carried(d, 261, d.virtualQuote, 0),
                  creatorFeeBps |-> carried(d, 269, d.creatorFeeBps, 0)]

LEMMA PumpPoolDecodes ==
    ASSUME NEW d, DecodePumpPool(d) # Nothing
    PROVE  ~PumpPoolShort(d) /\ DecodePumpPool(d) = PumpPoolOf(d)
<1>1. DecodePumpPool(d) = IF PumpPoolShort(d) THEN Nothing ELSE PumpPoolOf(d)
  BY Zenon DEF DecodePumpPool, PumpPoolShort, PumpPoolOf
<1> QED
  BY <1>1, Zenon

PumpConfigOf(d) == [fees             |-> d.fees,
                    configurable     |-> carried(d, 949, d.configurable, FALSE),
                    maxCreatorFeeBps |-> carried(d, 949, d.maxCreatorFeeBps, 0)]

LEMMA PumpConfigDecodes ==
    ASSUME NEW d, DecodePumpGlobalConfig(d) # Nothing
    PROVE  ~(d.len < 321) /\ DecodePumpGlobalConfig(d) = PumpConfigOf(d)
<1>1. DecodePumpGlobalConfig(d) = IF d.len < 321 THEN Nothing ELSE PumpConfigOf(d)
  BY Zenon DEF DecodePumpGlobalConfig, PumpConfigOf
<1> QED
  BY <1>1, Zenon

LEMMA CPMMIsSound ==
    ASSUME NEW w, w.owner = "cpmm", NEW d, DataOf(w, d), NEW x, AuxFor(w, x),
           FromAccount(w.owner, d, x) # Nothing
    PROVE  LET qt == FromAccount(w.owner, d, x)
           IN  Sound(w, qt, x) /\ \A i \in 1 .. 2 : qt.reserves[i] + feesOwed(d, i) = x.vault[i]
<1> DEFINE pool == DecodeRaydiumCPMMPool(d)
           R    == CPMMNetReserves(pool, x.vault)
           qt   == FromAccount(w.owner, d, x)
           full == [venue |-> "cpmm", reserves |-> R, tradeFeeRate |-> x.config.tradeFeeRate,
                    creatorFeeRate |-> EffectiveCreatorFeeRate(pool, x.config),
                    creatorFeeOn |-> pool.creatorFeeOn]
<1>1. /\ pool # Nothing /\ x.config # Nothing /\ pool.creatorFeeOn \in CreatorFeeModes /\ ~Empty(R)
      /\ qt = full
  <2>1. qt = IF pool = Nothing THEN Nothing ELSE FromRaydiumCPMM(pool, x)
    BY DEF FromAccount
  <2>2. pool # Nothing /\ qt = FromRaydiumCPMM(pool, x)
    BY <2>1, Zenon
  <2> QED
    BY <2>2, Zenon DEF FromRaydiumCPMM
<1>2. pool = [status |-> d.status, fees |-> d.fees, creatorFeeOn |-> d.creatorFeeOn,
              enableCreatorFee |-> d.enableCreatorFee]
  BY <1>1, Zenon DEF DecodeRaydiumCPMMPool
<1>3. x.config \in [tradeFeeRate : Nat, creatorFeeRate : Nat] /\ x.vault \in [1 .. 2 -> u64]
  BY <1>1 DEF AuxFor
<1>4. EffectiveCreatorFeeRate(pool, x.config) \in Nat
  BY <1>3 DEF EffectiveCreatorFeeRate
<1> DEFINE Owes(i) == feesOwed(d, i)
<1>5. \A i \in 1 .. 2 : /\ R[i] \in 0 .. x.vault[i] /\ x.vault[i] \in u64
                        /\ R[i] # 0 => R[i] + Owes(i) = x.vault[i]
  <2> SUFFICES ASSUME NEW i \in 1 .. 2
               PROVE  R[i] \in 0 .. x.vault[i] /\ x.vault[i] \in u64 /\ (R[i] # 0 => R[i] + Owes(i) = x.vault[i])
    OBVIOUS
  <2>1. x.vault[i] \in u64
    BY <1>3
  <2>2. feesOwed(pool, i) \in Nat
    <3>1. d.fees[i].protocol \in Nat /\ d.fees[i].fund \in Nat /\ d.fees[i].creator \in Nat
      BY DEF DataOf, CPMMData
    <3> DEFINE s == pool.fees[i].protocol + pool.fees[i].fund + pool.fees[i].creator
    <3>2. s \in Int
      BY <1>2, <3>1
    <3> HIDE DEF s
    <3>3. wrap(s) \in u64
      BY <3>2, WrapFits
    <3>4. feesOwed(pool, i) = wrap(s)
      BY Zenon DEF feesOwed, s
    <3> QED
      BY <3>3, <3>4, ConstantProductMathAssumption DEF u64
  <2>3. R[i] = saturatingSub(x.vault[i], feesOwed(pool, i))
    BY Zenon DEF CPMMNetReserves
  <2>4. feesOwed(pool, i) = Owes(i)
    BY <1>2 DEF feesOwed
  <2> HIDE DEF R, Owes, pool
  <2> QED
    BY <2>1, <2>2, <2>3, <2>4, ConstantProductMathAssumption DEF saturatingSub, u64
<1>6. R[1] # 0 /\ R[2] # 0
  BY <1>1, Zenon DEF Empty
<1> HIDE DEF R, pool, Owes
<1>7. \A i \in 1 .. 2 : R[i] \in 1 .. U64Max /\ R[i] <= x.vault[i] /\ R[i] + Owes(i) = x.vault[i]
  BY <1>5, <1>6, ConstantProductMathAssumption DEF u64
<1>8. /\ qt.venue = "cpmm" /\ qt.reserves = R /\ qt.tradeFeeRate \in Nat /\ qt.creatorFeeRate \in Nat
      /\ qt.creatorFeeOn \in CreatorFeeModes
  BY <1>1, <1>3, <1>4
<1> HIDE DEF qt
<1>9. Rated(qt) /\ Filled(qt) /\ Within(qt, x)
  BY <1>7, <1>8 DEF Rated, Filled, Within
<1>10. \A i \in 1 .. 2 : qt.reserves[i] + Owes(i) = x.vault[i]
  BY <1>7, <1>8
<1>11. Sound(w, qt, x)
  BY <1>8, <1>9 DEF Sound
<1> QED
  BY <1>10, <1>11 DEF qt, Owes

LEMMA AMMV4IsSound ==
    ASSUME NEW w, w.owner = "ammv4", NEW d, DataOf(w, d), NEW x, AuxFor(w, x),
           FromAccount(w.owner, d, x) # Nothing
    PROVE  LET qt == FromAccount(w.owner, d, x)
           IN  Sound(w, qt, x) /\ \A i \in 1 .. 2 : qt.reserves[i] + d.pnl[i] = x.vault[i]
<1> DEFINE pool == DecodeRaydiumAMMV4Pool(d)
           R    == AMMV4NetReserves(pool, x.vault)
           qt   == FromAccount(w.owner, d, x)
<1>1. /\ pool # Nothing /\ pool.fee[2] # 0 /\ R # Nothing /\ ~Empty(R)
      /\ qt = [venue |-> "ammv4", reserves |-> R, fee |-> pool.fee]
  <2>1. qt = IF pool = Nothing THEN Nothing ELSE FromRaydiumAMMV4(pool, x)
    BY DEF FromAccount
  <2>2. pool # Nothing /\ qt = FromRaydiumAMMV4(pool, x)
    BY <2>1, Zenon
  <2> QED
    BY <2>2, Zenon DEF FromRaydiumAMMV4
<1>2. pool = [status |-> d.status, fee |-> d.fee, pnl |-> d.pnl, openTime |-> d.openTime]
  <2>1. pool = AMMV4Of(d)
    BY <1>1, AMMV4Decodes
  <2> HIDE DEF pool
  <2> QED
    BY <2>1, Zenon DEF AMMV4Of
<1>3. d.fee \in [1 .. 2 -> Nat] /\ d.pnl \in [1 .. 2 -> Nat] /\ x.vault \in [1 .. 2 -> u64]
  BY DEF DataOf, AMMV4Data, AuxFor
<1>4. /\ ~(x.vault[1] < pool.pnl[1] \/ x.vault[2] < pool.pnl[2])
      /\ R = <<x.vault[1] - pool.pnl[1], x.vault[2] - pool.pnl[2]>>
  BY <1>1, Zenon DEF AMMV4NetReserves
<1>5. R[1] # 0 /\ R[2] # 0
  BY <1>1, Zenon DEF Empty
<1>6. pool.pnl[1] \in Nat /\ pool.pnl[2] \in Nat /\ pool.fee[1] \in Nat /\ pool.fee[2] \in Pos
  BY <1>1, <1>2, <1>3 DEF Pos
<1>7. R[1] = x.vault[1] - pool.pnl[1] /\ R[2] = x.vault[2] - pool.pnl[2]
  <2> HIDE DEF R, pool
  <2> QED
    BY <1>4
<1>p. pool.pnl = d.pnl
  BY <1>2
<1> HIDE DEF R, pool
<1>8. \A i \in 1 .. 2 : R[i] \in 1 .. U64Max /\ R[i] <= x.vault[i] /\ R[i] + d.pnl[i] = x.vault[i]
  <2>1. x.vault[1] \in u64 /\ x.vault[2] \in u64
    BY <1>3
  <2>2. /\ R[1] \in 1 .. U64Max /\ R[1] <= x.vault[1] /\ R[1] + pool.pnl[1] = x.vault[1]
        /\ R[2] \in 1 .. U64Max /\ R[2] <= x.vault[2] /\ R[2] + pool.pnl[2] = x.vault[2]
    BY <1>4, <1>5, <1>6, <1>7, <2>1, ConstantProductMathAssumption DEF u64
  <2> QED
    BY <1>p, <2>2
<1>9. qt.venue = "ammv4" /\ qt.reserves = R /\ qt.fee[1] \in Nat /\ qt.fee[2] \in Pos
  BY <1>1, <1>6
<1> HIDE DEF qt
<1>10. Rated(qt) /\ Filled(qt) /\ Within(qt, x)
  BY <1>8, <1>9 DEF Rated, Filled, Within
<1>11. Sound(w, qt, x) /\ \A i \in 1 .. 2 : qt.reserves[i] + d.pnl[i] = x.vault[i]
  BY <1>8, <1>9, <1>10 DEF Sound
<1> QED
  BY <1>11 DEF qt

LEMMA CurveIsSound ==
    ASSUME NEW w, w.owner = "curve", NEW d, DataOf(w, d), NEW x, AuxFor(w, x),
           FromAccount(w.owner, d, x) # Nothing
    PROVE  /\ Sound(w, FromAccount(w.owner, d, x), x)
           /\ FromAccount(w.owner, d, x).reserves = d.virtual
<1> DEFINE bc == DecodeBondingCurve(d)
           qt == FromAccount(w.owner, d, x)
<1>1. bc # Nothing /\ ~Empty(bc.virtual) /\ qt = [venue |-> "curve", reserves |-> bc.virtual, feeBps |-> x.curveFeeBps]
  <2>1. qt = IF bc = Nothing THEN Nothing ELSE FromBondingCurve(bc, x)
    BY DEF FromAccount
  <2>2. bc # Nothing /\ qt = FromBondingCurve(bc, x)
    BY <2>1, Zenon
  <2> QED
    BY <2>2, Zenon DEF FromBondingCurve
<1>2. bc.virtual = d.virtual
  <2>1. bc = [virtual |-> d.virtual, complete |-> d.complete,
              quoteMint |-> carried(d, 115, d.quoteMint, "zero")]
    BY <1>1, Zenon DEF DecodeBondingCurve
  <2> QED
    BY <2>1
<1> DEFINE V == d.virtual
<1>3. V \in [1 .. 2 -> u64] /\ V[1] # 0 /\ V[2] # 0
  <2>1. V \in [1 .. 2 -> u64]
    BY DEF DataOf, CurveData, u64
  <2>2. ~Empty(V)
    BY <1>1, <1>2, Zenon
  <2> HIDE DEF V
  <2> QED
    BY <2>1, <2>2 DEF Empty
<1>4. qt.venue = "curve" /\ qt.reserves = V /\ qt.feeBps \in 0 .. BpsDenominator
  BY <1>1, <1>2 DEF AuxFor
<1> HIDE DEF qt, V
<1>5. \A i \in 1 .. 2 : V[i] \in 1 .. U64Max
  BY <1>3, ConstantProductMathAssumption DEF u64
<1>6. Rated(qt) /\ Filled(qt) /\ Within(qt, x)
  BY <1>4, <1>5 DEF Rated, Filled, Within
<1> QED
  BY <1>4, <1>6 DEF Sound, qt, V

LEMMA FluxBeamIsSound ==
    ASSUME NEW w, w.owner = "fluxbeam", NEW d, DataOf(w, d), NEW x, AuxFor(w, x),
           FromAccount(w.owner, d, x) # Nothing
    PROVE  Sound(w, FromAccount(w.owner, d, x), x)
<1> DEFINE pool == DecodeFluxBeamPool(d)
           qt   == FromAccount(w.owner, d, x)
           V    == x.vault
<1>1. /\ pool # Nothing /\ ~Empty(V)
      /\ qt = [venue |-> "fluxbeam", reserves |-> V, curveType |-> pool.curveType,
               fees |-> pool.fees, transferFee |-> x.transferFee, epoch |-> x.now]
  <2>1. qt = IF pool = Nothing THEN Nothing ELSE FromFluxBeamPool(pool, x)
    BY DEF FromAccount
  <2>2. pool # Nothing /\ qt = FromFluxBeamPool(pool, x)
    BY <2>1, Zenon
  <2> QED
    BY <2>2, Zenon DEF FromFluxBeamPool
<1>2. pool = [curveType |-> d.curveType, fees |-> d.fees]
  BY <1>1, Zenon DEF DecodeFluxBeamPool
<1>3. /\ pool.curveType \in Nat
      /\ pool.fees \in [trade : [1 .. 2 -> Nat], owner : [1 .. 2 -> Nat]]
  BY <1>2 DEF DataOf, FluxData
<1>4. V \in [1 .. 2 -> u64] /\ x.transferFee \in [1 .. 2 -> {Nothing} \cup TransferFees] /\ x.now \in Nat
  BY DEF AuxFor
<1> HIDE DEF V, pool
<1>5. \A i \in 1 .. 2 : V[i] \in 1 .. U64Max
  BY <1>1, <1>4, ConstantProductMathAssumption DEF u64, Empty
<1>6. /\ qt.venue = "fluxbeam" /\ qt.reserves = V /\ qt.curveType \in Nat /\ qt.epoch \in Nat
      /\ qt.fees \in [trade : [1 .. 2 -> Nat], owner : [1 .. 2 -> Nat]]
      /\ qt.transferFee \in [1 .. 2 -> {Nothing} \cup TransferFees]
  BY <1>1, <1>3, <1>4
<1> HIDE DEF qt
<1>7. Rated(qt) /\ Filled(qt)
  BY <1>5, <1>6, Zenon DEF Rated, Filled
<1>8. Within(qt, x)
  <2>1. \A i \in 1 .. 2 : V[i] <= x.vault[i]
    BY <1>5, ConstantProductMathAssumption DEF V
  <2> QED
    BY <1>6, <2>1, Zenon DEF Within
<1> QED
  BY <1>6, <1>7, <1>8 DEF Sound, qt

-----------------------------------------------------------------------------
\* The Pump fee

LEMMA MinIsLeast ==
    ASSUME NEW T \in SUBSET Nat, T # {}
    PROVE  Min(T) \in T /\ \A m \in T : Min(T) <= m
<1>1. \E n \in T : \A m \in T : n <= m
  BY LeastNatural
<1> QED
  BY <1>1, Zenon DEF Min

LEMMA MaxIsMember ==
    ASSUME NEW n \in Nat, NEW T \in SUBSET (1 .. n), T # {}
    PROVE  Max(T) \in T
<1> DEFINE U == {k \in 0 .. n : n - k \in T}
<1>1. U \in SUBSET Nat
  OBVIOUS
<1>2. U # {}
  <2>1. PICK t \in T : TRUE
    OBVIOUS
  <2>2. n - t \in 0 .. n /\ n - (n - t) = t
    BY <2>1
  <2> QED
    BY <2>1, <2>2
<1>3. PICK k \in U : \A m \in U : k <= m
  BY <1>1, <1>2, LeastNatural
<1>4. n - k \in T /\ \A t \in T : n - k >= t
  <2>1. ASSUME NEW t \in T PROVE n - k >= t
    <3>1. n - t \in 0 .. n /\ n - (n - t) = t /\ t \in Nat
      OBVIOUS
    <3>2. n - t \in U
      BY <3>1
    <3>3. k <= n - t /\ k \in 0 .. n
      BY <1>3, <3>2
    <3> QED
      BY <3>1, <3>3
  <2> QED
    BY <1>3, <2>1
<1> QED
  BY <1>4, Zenon DEF Max

\* A tiered schedule answers with one of its tiers, or with no fee when it has none.
LEMMA TierFeesAreATier ==
    ASSUME NEW tiers \in Tiers, NEW cap \in Nat
    PROVE  tierFees(tiers, cap) \in {NoFees} \cup {tiers[k].fees : k \in DOMAIN tiers}
<1> DEFINE met == {i \in DOMAIN tiers : cap >= tiers[i].threshold}
<1>1. CASE tiers = <<>>
  <2>1. tierFees(tiers, cap) = NoFees
    BY <1>1, Zenon DEF tierFees
  <2> QED
    BY <2>1
<1>2. CASE tiers # <<>>
  <2>1. Len(tiers) \in Nat /\ DOMAIN tiers = 1 .. Len(tiers) /\ 1 \in DOMAIN tiers
    BY <1>2 DEF Tiers
  <2>2. tiers[1].threshold \in Nat
    <3> DEFINE X == [threshold : Nat, fees : FeeParts]
    <3>1. tiers \in Seq(X)
      BY DEF Tiers
    <3>2. tiers[1] \in X
      <4> HIDE DEF X
      <4> QED
        BY <2>1, <3>1
    <3> QED
      BY <3>2
  <2>3. CASE cap < tiers[1].threshold
    <3>1. tierFees(tiers, cap) = tiers[1].fees
      BY <1>2, <2>3, Zenon DEF tierFees
    <3> QED
      BY <2>1, <3>1
  <2>4. CASE ~(cap < tiers[1].threshold)
    <3>1. 1 \in met /\ met \in SUBSET (1 .. Len(tiers))
      BY <2>1, <2>2, <2>4
    <3>2. Max(met) \in DOMAIN tiers
      <4> DEFINE n == Len(tiers)
      <4>1. n \in Nat /\ met \in SUBSET (1 .. n) /\ met # {}
        BY <2>1, <3>1
      <4> HIDE DEF met, n
      <4>2. Max(met) \in met
        BY <4>1, MaxIsMember
      <4> QED
        BY <4>2 DEF met
    <3>3. tierFees(tiers, cap) = tiers[Max(met)].fees
      BY <1>2, <2>4, Zenon DEF tierFees
    <3> HIDE DEF met
    <3> QED
      BY <3>2, <3>3
  <2> QED
    BY <2>3, <2>4
<1> QED
  BY <1>1, <1>2

\* The tiers that are decoded are tiers of the account.
LEMMA DecodedTiers ==
    ASSUME NEW bytes, bytes.len \in Nat, NEW off \in Nat, NEW tiers \in Tiers
    PROVE  LET t == decodePumpTierVec(bytes, off, tiers)
           IN  t \in Tiers /\ \A k \in DOMAIN t : k \in DOMAIN tiers /\ t[k] = tiers[k]
<1> DEFINE t == decodePumpTierVec(bytes, off, tiers)
           S == {Len(tiers), 64, (bytes.len - off - 4) \div 40}
           n == Min(S)
<1> SUFFICES t \in Tiers /\ \A k \in DOMAIN t : k \in DOMAIN tiers /\ t[k] = tiers[k]
  OBVIOUS
<1>1. CASE bytes.len < off + 4
  <2>1. t = <<>>
    BY <1>1, Zenon DEF decodePumpTierVec
  <2>2. <<>> \in Tiers
    BY DEF Tiers
  <2> HIDE DEF t
  <2> QED
    BY <2>1, <2>2
<1>2. CASE ~(bytes.len < off + 4)
  <2>1. t = SubSeq(tiers, 1, n)
    BY <1>2, Zenon DEF decodePumpTierVec
  <2>2. (bytes.len - off - 4) \div 40 \in Nat
    BY <1>2
  <2>3. Len(tiers) \in Nat
    BY DEF Tiers
  <2>4. n \in Nat /\ n <= Len(tiers)
    <3>1. S \in SUBSET Nat /\ S # {} /\ Len(tiers) \in S
      BY <2>2, <2>3
    <3> HIDE DEF S
    <3> QED
      BY <3>1, MinIsLeast
  <2> HIDE DEF n, t
  <2>5. /\ DOMAIN SubSeq(tiers, 1, n) = 1 .. n /\ SubSeq(tiers, 1, n) \in Tiers
        /\ \A k \in 1 .. n : SubSeq(tiers, 1, n)[k] = tiers[k]
    <3> DEFINE X == [threshold : Nat, fees : FeeParts]
               s == SubSeq(tiers, 1, n)
    <3>1. tiers \in Seq(X)
      BY DEF Tiers
    <3> HIDE DEF X
    <3>2. \A i \in 1 .. n : tiers[i] \in X
      BY <2>3, <2>4, <3>1
    <3>3. /\ s \in Seq(X) /\ Len(s) = (IF 1 <= n THEN n - 1 + 1 ELSE 0)
          /\ \A i \in 1 .. n - 1 + 1 : s[i] = tiers[1 + i - 1]
      BY <2>4, <3>2, SubSeqProperties
    <3> HIDE DEF s
    <3>4. Len(s) = n /\ DOMAIN s = 1 .. n
      BY <2>4, <3>3
    <3>5. \A i \in 1 .. n : s[i] = tiers[i]
      <4> SUFFICES ASSUME NEW i \in 1 .. n PROVE s[i] = tiers[i]
        OBVIOUS
      <4>1. i \in 1 .. n - 1 + 1 /\ 1 + i - 1 = i
        BY <2>4
      <4> QED
        BY <3>3, <4>1
    <3> QED
      BY <3>3, <3>4, <3>5 DEF s, X, Tiers
  <2>6. DOMAIN tiers = 1 .. Len(tiers)
    BY DEF Tiers
  <2> QED
    BY <2>1, <2>3, <2>4, <2>5, <2>6
<1> QED
  BY <1>1, <1>2

\* A Pump pool is charged by one of its schedules, so by at most 100%.
LEMMA PumpFeeFits ==
    ASSUME NEW w \in Worlds, w.owner = "pump",
           DecodePumpGlobalConfig(w.config) # Nothing, DecodePumpPool(w.data) # Nothing,
           NEW fc \in {Nothing, DecodePumpFeeConfig(w.feeConfig)},
           NEW base \in Nat \ {0}, NEW quote \in Nat, NEW supply \in Nat
    PROVE  PumpTotalFeeBps(DecodePumpGlobalConfig(w.config), fc, DecodePumpPool(w.data), base, quote, supply)
              \in 0 .. BpsDenominator
<1> DEFINE global == DecodePumpGlobalConfig(w.config)
           pool   == DecodePumpPool(w.data)
           cap    == PumpMarketCap(quote, base, supply)
           fees   == pumpSchedule(global, fc, pool, cap)
           F      == w.feeConfig
           creator == pumpCreatorFeeBps(global, fees, pool)
<1>1. w.data \in PumpData /\ w.config \in PumpConfigs /\ F \in FeeConfigs
  BY WorldAssumption
<1>2. global = [fees |-> w.config.fees, configurable |-> carried(w.config, 949, w.config.configurable, FALSE),
                maxCreatorFeeBps |-> carried(w.config, 949, w.config.maxCreatorFeeBps, 0)]
  <2>1. global = PumpConfigOf(w.config)
    BY PumpConfigDecodes
  <2> HIDE DEF global
  <2> QED
    BY <2>1, Zenon DEF PumpConfigOf
<1>3. pool = [graduate |-> w.data.graduate, quoteMint |-> w.data.quoteMint,
              coinCreator |-> carried(w.data, 243, w.data.coinCreator, FALSE),
              virtualQuote |-> carried(w.data, 261, w.data.virtualQuote, 0),
              creatorFeeBps |-> carried(w.data, 269, w.data.creatorFeeBps, 0)]
  <2>1. pool = PumpPoolOf(w.data)
    BY PumpPoolDecodes
  <2> HIDE DEF pool
  <2> QED
    BY <2>1, Zenon DEF PumpPoolOf
<1>4. cap \in Nat
  <2>1. quote * supply \in Nat /\ base \in Pos
    BY MulIsNat DEF Pos
  <2>2. cap = (quote * supply) \div base
    BY DEF PumpMarketCap
  <2> HIDE DEF cap
  <2> QED
    BY <2>1, <2>2, DivFacts
<1> HIDE DEF cap
<1>5. fees \in schedules(w)
  <2>1. CASE fc = Nothing
    <3>1. fees = global.fees
      BY <2>1, Zenon DEF pumpSchedule, Nothing
    <3>2. fees = w.config.fees
      BY <1>2, <3>1
    <3> HIDE DEF fees
    <3> QED
      BY <3>2, Zenon DEF schedules
  <2>2. CASE fc # Nothing
    <3> DEFINE t  == decodePumpTierVec(F, 65, F.tiers)
               st == decodePumpTierVec(F, 1069, F.stableTiers)
               ex == carried(F, 2073 + 24, F.exoticFlat, NoFees)
    <3>1. fc = [flat |-> F.flat, tiers |-> t, stableTiers |-> st, exoticFlat |-> ex]
      <4>1. fc = DecodePumpFeeConfig(F)
        BY <2>2
      <4>2. ~(F.len < 69)
        BY <2>2, <4>1 DEF DecodePumpFeeConfig
      <4> QED
        BY <4>1, <4>2 DEF DecodePumpFeeConfig
    <3>2. /\ t \in Tiers /\ \A k \in DOMAIN t : k \in DOMAIN F.tiers /\ t[k] = F.tiers[k]
          /\ st \in Tiers /\ \A k \in DOMAIN st : k \in DOMAIN F.stableTiers /\ st[k] = F.stableTiers[k]
      <4>1. F.len \in Nat /\ F.tiers \in Tiers /\ F.stableTiers \in Tiers
        BY <1>1 DEF FeeConfigs
      <4> HIDE DEF F
      <4>2. t \in Tiers /\ \A k \in DOMAIN t : k \in DOMAIN F.tiers /\ t[k] = F.tiers[k]
        <5> DEFINE v == F.tiers
        <5>1. v \in Tiers
          BY <4>1
        <5> HIDE DEF v
        <5>2. LET y == decodePumpTierVec(F, 65, v)
              IN  y \in Tiers /\ \A k \in DOMAIN y : k \in DOMAIN v /\ y[k] = v[k]
          BY <4>1, <5>1, DecodedTiers
        <5> QED
          BY <5>2 DEF v
      <4>3. st \in Tiers /\ \A k \in DOMAIN st : k \in DOMAIN F.stableTiers /\ st[k] = F.stableTiers[k]
        <5> DEFINE v == F.stableTiers
        <5>1. v \in Tiers
          BY <4>1
        <5> HIDE DEF v
        <5>2. LET y == decodePumpTierVec(F, 1069, v)
              IN  y \in Tiers /\ \A k \in DOMAIN y : k \in DOMAIN v /\ y[k] = v[k]
          BY <4>1, <5>1, DecodedTiers
        <5> QED
          BY <5>2 DEF v
      <4> QED
        BY <4>2, <4>3
    <3> HIDE DEF t, st, F
    <3>3. tierFees(t, cap) \in schedules(w) /\ tierFees(st, cap) \in schedules(w)
      <4>1. /\ tierFees(t, cap) \in {NoFees} \cup {t[k].fees : k \in DOMAIN t}
            /\ tierFees(st, cap) \in {NoFees} \cup {st[k].fees : k \in DOMAIN st}
        BY <1>4, <3>2, TierFeesAreATier
      <4>2. /\ {t[k].fees : k \in DOMAIN t} \subseteq {F.tiers[k].fees : k \in DOMAIN F.tiers}
            /\ {st[k].fees : k \in DOMAIN st} \subseteq {F.stableTiers[k].fees : k \in DOMAIN F.stableTiers}
        BY <3>2, Zenon
      <4> QED
        BY <4>1, <4>2, Zenon DEF schedules, F
    <3>4. /\ F.flat \in schedules(w) /\ NoFees \in schedules(w) /\ ex \in schedules(w)
      <4>1. F.flat \in schedules(w) /\ NoFees \in schedules(w) /\ F.exoticFlat \in schedules(w)
        BY Zenon DEF schedules, F
      <4>2. ex = F.exoticFlat \/ ex = NoFees
        BY DEF carried
      <4> HIDE DEF ex
      <4> QED
        BY <4>1, <4>2
    <3> HIDE DEF ex
    <3>5. fc.flat = F.flat /\ fc.tiers = t /\ fc.stableTiers = st /\ fc.exoticFlat = ex
      BY <3>1
    <3>6. fees \in {F.flat, ex, tierFees(t, cap), tierFees(st, cap)}
      <4> DEFINE mint == ClassifyPumpQuoteMint(pool.quoteMint)
      <4>1. fees = IF ~pool.graduate THEN F.flat
                   ELSE CASE mint = "sol" -> tierFees(t, cap)
                          [] mint = "stable" -> tierFees(IF st = <<>> THEN t ELSE st, cap)
                          [] OTHER -> IF ex = NoFees THEN F.flat ELSE ex
        BY <2>2, <3>5, Zenon DEF pumpSchedule, Nothing
      <4> HIDE DEF fees, mint, pool
      <4> QED
        BY <4>1
    <3> HIDE DEF fees
    <3> QED
      BY <3>3, <3>4, <3>6
  <2> QED
    BY <2>1, <2>2
<1>6. fees \in FeeParts
  <2>1. schedules(w) \subseteq FeeParts
    <3>1. NoFees \in FeeParts
      BY DEF NoFees, FeeParts
    <3>2. w.config.fees \in FeeParts /\ F.flat \in FeeParts /\ F.exoticFlat \in FeeParts /\ F.tiers \in Tiers /\ F.stableTiers \in Tiers
      BY <1>1 DEF PumpConfigs, FeeConfigs
    <3>3. ASSUME NEW v \in Tiers, NEW k \in DOMAIN v PROVE v[k].fees \in FeeParts
      <4> DEFINE X == [threshold : Nat, fees : FeeParts]
      <4>1. v \in Seq(X)
        BY DEF Tiers
      <4>2. v[k] \in X
        <5> HIDE DEF X
        <5> QED
          BY <4>1
      <4> QED
        BY <4>2
    <3> QED
      BY <3>1, <3>2, <3>3, Zenon DEF schedules
  <2> QED
    BY <1>5, <2>1
<1>7. fees.lp + fees.protocol + creator <= BpsDenominator
  <2>1. \A f \in schedules(w) :
           /\ f.lp + f.protocol + f.creator <= BpsDenominator
           /\ w.config.configurable => f.lp + f.protocol + creatorCap(w) <= BpsDenominator
    BY WorldAssumption, Zenon
  <2>2. global.maxCreatorFeeBps \in Nat /\ pool.creatorFeeBps \in Nat
    BY <1>1, <1>2, <1>3 DEF carried, PumpData, PumpConfigs
  <2>3. pool.creatorFeeBps > 0 => pool.creatorFeeBps = w.data.creatorFeeBps
    BY <1>1, <1>2, <1>3 DEF carried, PumpData
  <2>4. global.configurable => /\ w.config.configurable
                               /\ global.maxCreatorFeeBps = w.config.maxCreatorFeeBps
    BY <1>1, <1>2, <1>3 DEF carried, PumpConfigs
  <2>5. fees.lp \in Nat /\ fees.protocol \in Nat /\ fees.creator \in Nat
    BY <1>6 DEF FeeParts
  <2>6. /\ fees.lp + fees.protocol + fees.creator <= BpsDenominator
        /\ w.config.configurable => fees.lp + fees.protocol + creatorCap(w) <= BpsDenominator
    <3> HIDE DEF fees
    <3> QED
      BY <1>5, <2>1
  <2>7. w.config.maxCreatorFeeBps \in Nat
    BY <1>1 DEF PumpConfigs
  <2> HIDE DEF fees, global, pool
  <2> QED
    BY <2>2, <2>3, <2>4, <2>5, <2>6, <2>7, ConstantProductMathAssumption DEF pumpCreatorFeeBps, lesser, creatorCap
<1> HIDE DEF fees
<1>8. creator \in Nat
  <2>1. global.maxCreatorFeeBps \in Nat /\ pool.creatorFeeBps \in Nat
    BY <1>1, <1>2, <1>3 DEF carried, PumpData, PumpConfigs
  <2>2. fees.creator \in Nat
    BY <1>6 DEF FeeParts
  <2> HIDE DEF global, pool
  <2> QED
    BY <2>1, <2>2 DEF pumpCreatorFeeBps, lesser
<1>9. fees.lp \in Nat /\ fees.protocol \in Nat
  BY <1>6 DEF FeeParts
<1>10. PumpTotalFeeBps(global, fc, pool, base, quote, supply) = wrap(fees.lp + fees.protocol + creator)
  BY Zenon DEF PumpTotalFeeBps, fees, cap
<1> DEFINE s == fees.lp + fees.protocol + creator
<1>11. s \in 0 .. BpsDenominator
  <2> HIDE DEF creator
  <2> QED
    BY <1>7, <1>8, <1>9, ConstantProductMathAssumption
<1>12. wrap(s) = s
  <2> HIDE DEF s
  <2>1. s \in Int /\ s \in u64
    BY <1>11, ConstantProductMathAssumption DEF u64
  <2> QED
    BY <2>1, WrapFits
<1> HIDE DEF global, pool, creator
<1> QED
  BY <1>10, <1>11, <1>12 DEF global, pool

LEMMA PumpIsSound ==
    ASSUME NEW w \in Worlds, w.owner = "pump", NEW d, DataOf(w, d), NEW x, AuxFor(w, x),
           FromAccount(w.owner, d, x) # Nothing
    PROVE  Sound(w, FromAccount(w.owner, d, x), x)
<1> DEFINE pool == DecodePumpPool(d)
           V    == x.vault
           E    == EffectiveQuoteReserve(pool, V[2])
           R    == <<V[1], E>>
           qt   == FromAccount(w.owner, d, x)
           bps  == PumpTotalFeeBps(x.config, x.feeConfig, pool, R[1], R[2], x.supply)
<1>1. /\ pool # Nothing /\ x.config # Nothing /\ ~Empty(R)
      /\ qt = [venue |-> "pump", reserves |-> R, feeBps |-> bps]
  <2>1. qt = IF pool = Nothing THEN Nothing ELSE FromPumpPool(pool, x)
    BY DEF FromAccount
  <2>2. pool # Nothing /\ qt = FromPumpPool(pool, x)
    BY <2>1, Zenon
  <2> QED
    BY <2>2, Zenon DEF FromPumpPool
<1>2. d = w.data /\ d \in PumpData
  BY WorldAssumption DEF DataOf
<1>3. pool.virtualQuote \in Int
  <2>1. pool = [graduate |-> d.graduate, quoteMint |-> d.quoteMint,
                coinCreator |-> carried(d, 243, d.coinCreator, FALSE),
                virtualQuote |-> carried(d, 261, d.virtualQuote, 0),
                creatorFeeBps |-> carried(d, 269, d.creatorFeeBps, 0)]
    <3>1. pool = PumpPoolOf(d)
      BY <1>1, PumpPoolDecodes
    <3> HIDE DEF pool
    <3> QED
      BY <3>1, Zenon DEF PumpPoolOf
  <2>2. d.virtualQuote \in Int
    BY <1>2 DEF PumpData
  <2> HIDE DEF pool
  <2> QED
    BY <2>1, <2>2 DEF carried
<1>4. V[1] \in u64 /\ V[2] \in u64
  BY DEF AuxFor
<1>5. R[1] = V[1] /\ R[2] = E
  OBVIOUS
<1>6. E \in u64
  <2> HIDE DEF pool, V
  <2> QED
    BY <1>3, <1>4, ConstantProductMathAssumption DEF EffectiveQuoteReserve, saturatingSub, lesser, u64
<1>7. V[1] # 0 /\ E # 0
  <2> HIDE DEF E, V
  <2> QED
    BY <1>1, <1>5 DEF Empty
<1> HIDE DEF E, V
<1>8. V[1] \in 1 .. U64Max /\ E \in 1 .. U64Max /\ V[1] \in Nat \ {0} /\ E \in Nat
  BY <1>4, <1>6, <1>7, ConstantProductMathAssumption DEF u64
<1>9. bps \in 0 .. BpsDenominator
  <2> DEFINE fc == x.feeConfig
             su == x.supply
  <2>1. /\ x.config = DecodePumpGlobalConfig(w.config) /\ su \in Nat
        /\ fc \in {Nothing, DecodePumpFeeConfig(w.feeConfig)}
    BY <1>1 DEF AuxFor
  <2>2. bps = PumpTotalFeeBps(DecodePumpGlobalConfig(w.config), fc, DecodePumpPool(w.data), V[1], E, su)
    BY <1>2, <1>5, <2>1, Zenon
  <2>3. DecodePumpGlobalConfig(w.config) # Nothing /\ DecodePumpPool(w.data) # Nothing
    BY <1>1, <1>2, <2>1
  <2> DEFINE base == V[1]
  <2>4. base \in Nat \ {0}
    BY <1>8
  <2> HIDE DEF fc, su, bps, base
  <2>5. PumpTotalFeeBps(DecodePumpGlobalConfig(w.config), fc, DecodePumpPool(w.data), base, E, su) \in 0 .. BpsDenominator
    BY <1>8, <2>1, <2>3, <2>4, PumpFeeFits
  <2> QED
    BY <2>2, <2>5 DEF base
<1> HIDE DEF bps
<1>10. qt.venue = "pump" /\ qt.reserves = R /\ qt.feeBps = bps
  BY <1>1
<1> HIDE DEF qt
<1>11. Rated(qt)
  BY <1>9, <1>10 DEF Rated
<1>12. Filled(qt)
  <2>1. \A i \in 1 .. 2 : R[i] \in 1 .. U64Max
    BY <1>8
  <2> QED
    BY <1>10, <2>1, Zenon DEF Filled
<1>13. Within(qt, x)
  <2>1. R[1] <= x.vault[1]
    BY <1>8 DEF V
  <2>2. qt.reserves[1] <= x.vault[1]
    BY <1>10, <2>1, Zenon
  <2> QED
    BY <1>10, <2>2 DEF Within
<1> QED
  BY <1>10, <1>11, <1>12, <1>13 DEF Sound, qt

\* Whatever FromAccount does not refuse is sound, however old its account and its Aux are.
LEMMA FromAccountIsSound ==
    ASSUME NEW w \in Worlds, NEW d, DataOf(w, d), NEW x, AuxFor(w, x),
           FromAccount(w.owner, d, x) # Nothing
    PROVE  Sound(w, FromAccount(w.owner, d, x), x)
<1>1. w.owner \in {"cpmm", "ammv4", "pump", "fluxbeam", "curve"}
  BY DEF FromAccount
<1>2. CASE w.owner = "cpmm"
  BY <1>2, CPMMIsSound, Zenon
<1>3. CASE w.owner = "ammv4"
  BY <1>3, AMMV4IsSound, Zenon
<1>4. CASE w.owner = "pump"
  BY <1>4, PumpIsSound, Zenon
<1>5. CASE w.owner = "fluxbeam"
  BY <1>5, FluxBeamIsSound, Zenon
<1>6. CASE w.owner = "curve"
  BY <1>6, CurveIsSound, Zenon
<1> QED
  BY <1>1, <1>2, <1>3, <1>4, <1>5, <1>6

\* A mint decodes to one of its own fee settings, or to none.
LEMMA MintDecodes ==
    ASSUME NEW mint \in Seq(Extensions)
    PROVE  DecodeMintTransferFee(mint).config \in {Nothing} \cup TransferFees
<1> DEFINE stops == {i \in DOMAIN mint : ~mint[i].fits \/ mint[i].type = 1}
           entry == mint[Min(stops)]
           dec   == DecodeMintTransferFee(mint)
<1>1. CASE stops = {}
  <2>1. dec = [ok |-> TRUE, config |-> Nothing]
    BY <1>1, Zenon DEF DecodeMintTransferFee
  <2> QED
    BY <2>1
<1>2. CASE stops # {}
  <2>1. DOMAIN mint = 1 .. Len(mint) /\ Len(mint) \in Nat
    OBVIOUS
  <2>2. Min(stops) \in DOMAIN mint
    <3>1. stops \in SUBSET Nat
      BY <2>1
    <3> HIDE DEF stops
    <3>2. Min(stops) \in stops
      BY <1>2, <3>1, MinIsLeast
    <3> QED
      BY <3>2 DEF stops
  <2>3. entry \in Extensions
    <3> DEFINE k == Min(stops)
    <3>1. k \in DOMAIN mint
      BY <2>2
    <3> HIDE DEF k
    <3>2. mint[k] \in Extensions
      BY <2>1, <3>1
    <3> QED
      BY <3>2 DEF k
  <2>4. dec = [ok |-> FALSE, config |-> Nothing]
           \/ dec = [ok |-> TRUE, config |-> [older |-> entry.older, newer |-> entry.newer]]
    BY <1>2, Zenon DEF DecodeMintTransferFee
  <2> HIDE DEF entry, dec
  <2>5. [older |-> entry.older, newer |-> entry.newer] \in TransferFees
    BY <2>3 DEF Extensions, TransferFees
  <2>6. dec.config = Nothing \/ dec.config = [older |-> entry.older, newer |-> entry.newer]
    BY <2>4
  <2> QED
    BY <2>5, <2>6 DEF dec
<1> QED
  BY <1>1, <1>2

\* An Aux read from the chain, with any fields left out, is one of the pool's.
LEMMA AuxIsOfPool ==
    ASSUME world \in Worlds, vault \in [1 .. 2 -> u64], now \in Nat, NEW given
    PROVE  AuxFor(world, AuxOf(given)) /\ ("vaults" \in given => AuxOf(given).vault = vault)
<1> DEFINE x == AuxOf(given)
           config == IF "config" \in given THEN LinkedConfig ELSE Nothing
           feeConfig == IF "feeConfig" \in given /\ world.owner = "pump"
                        THEN DecodePumpFeeConfig(world.feeConfig) ELSE Nothing
           v == IF "vaults" \in given THEN vault ELSE <<0, 0>>
           supply == IF "supply" \in given THEN world.supply ELSE 0
           bps == IF "curveFee" \in given THEN world.curveFeeBps ELSE 0
           fees == IF "transfer" \in given
                   THEN [i \in 1 .. 2 |-> DecodeMintTransferFee(world.mints[i]).config]
                   ELSE <<Nothing, Nothing>>
           time == IF "now" \in given THEN now ELSE 0
<1>1. x = [given |-> given, config |-> config, feeConfig |-> feeConfig, vault |-> v, supply |-> supply,
           curveFeeBps |-> bps, transferFee |-> fees, now |-> time]
  BY Zenon DEF AuxOf
<1>2. v \in [1 .. 2 -> u64] /\ ("vaults" \in given => v = vault)
  BY ConstantProductMathAssumption DEF u64
<1>3. supply \in Nat /\ bps \in 0 .. BpsDenominator /\ time \in Nat
  BY WorldAssumption, ConstantProductMathAssumption
<1>4. fees \in [1 .. 2 -> {Nothing} \cup TransferFees]
  <2>1. world.mints \in [1 .. 2 -> Seq(Extensions)]
    BY WorldAssumption
  <2>2. \A i \in 1 .. 2 : DecodeMintTransferFee(world.mints[i]).config \in {Nothing} \cup TransferFees
    <3> SUFFICES ASSUME NEW i \in 1 .. 2
                 PROVE  DecodeMintTransferFee(world.mints[i]).config \in {Nothing} \cup TransferFees
      OBVIOUS
    <3> DEFINE mint == world.mints[i]
    <3>1. mint \in Seq(Extensions)
      BY <2>1
    <3> HIDE DEF mint
    <3>2. DecodeMintTransferFee(mint).config \in {Nothing} \cup TransferFees
      BY <3>1, MintDecodes
    <3> QED
      BY <3>2 DEF mint
  <2>3. <<Nothing, Nothing>> \in [1 .. 2 -> {Nothing} \cup TransferFees]
    OBVIOUS
  <2> QED
    BY <2>2, <2>3
<1>5. world.owner = "cpmm" => config \in {Nothing} \cup [tradeFeeRate : Nat, creatorFeeRate : Nat]
  <2> SUFFICES ASSUME world.owner = "cpmm"
               PROVE  config \in {Nothing} \cup [tradeFeeRate : Nat, creatorFeeRate : Nat]
    OBVIOUS
  <2> DEFINE c == world.config
  <2>1. c \in CPMMConfigs
    BY WorldAssumption
  <2>2. LinkedConfig = DecodeRaydiumCPMMConfig(c)
    BY DEF LinkedConfig
  <2> HIDE DEF c
  <2>3. DecodeRaydiumCPMMConfig(c) \in {Nothing} \cup [tradeFeeRate : Nat, creatorFeeRate : Nat]
    <3>1. /\ [tradeFeeRate |-> c.tradeFeeRate, creatorFeeRate |-> c.creatorFeeRate]
                  \in [tradeFeeRate : Nat, creatorFeeRate : Nat]
      BY <2>1 DEF CPMMConfigs
    <3> QED
      BY <3>1, Zenon DEF DecodeRaydiumCPMMConfig
  <2> QED
    BY <2>2, <2>3
<1>6. world.owner = "pump" => /\ config \in {Nothing, DecodePumpGlobalConfig(world.config)}
                              /\ feeConfig \in {Nothing, DecodePumpFeeConfig(world.feeConfig)}
  <2>1. world.owner = "pump" => LinkedConfig = DecodePumpGlobalConfig(world.config)
    BY DEF LinkedConfig
  <2> QED
    BY <2>1, Zenon
<1> HIDE DEF config, feeConfig, v, supply, bps, fees, time
<1>7. /\ x.config = config /\ x.feeConfig = feeConfig /\ x.vault = v /\ x.supply = supply
      /\ x.curveFeeBps = bps /\ x.transferFee = fees /\ x.now = time
  BY <1>1
<1> HIDE DEF x
<1>8. AuxFor(world, x)
  BY <1>2, <1>3, <1>4, <1>5, <1>6, <1>7 DEF AuxFor
<1> QED
  BY <1>2, <1>7, <1>8 DEF x

-----------------------------------------------------------------------------
\* What a swap moves

\* What it takes out of a vault, with the fees set aside there, is in the reserve; what it
\* sets aside of the input came in.
LEMMA SettlementFits ==
    ASSUME NEW qt, Rated(qt), Filled(qt), NEW a \in u64, NEW i \in 1 .. 2, NEW takes \in BOOLEAN,
           Settlement(qt, a, i, 3 - i, takes).out > 0
    PROVE  LET m == Settlement(qt, a, i, 3 - i, takes)
           IN  /\ m.in \in Nat /\ m.paid \in Nat /\ m.feeIn \in Nat /\ m.feeOut \in Nat
               /\ m.feeIn <= m.in
               /\ m.paid + m.feeOut < qt.reserves[3 - i]
<1> DEFINE o   == 3 - i
           Ri  == qt.reserves[i]
           Ro  == qt.reserves[o]
           out == QuoteExactIn(qt, a, i = 1)
           m   == Settlement(qt, a, i, o, takes)
<1> SUFFICES /\ m.in \in Nat /\ m.paid \in Nat /\ m.feeIn \in Nat /\ m.feeOut \in Nat
             /\ m.feeIn <= m.in /\ m.paid + m.feeOut < Ro
  OBVIOUS
<1>1. o \in 1 .. 2 /\ (i = 1 <=> o = 2) /\ (IF i = 1 THEN 1 ELSE 2) = i
      /\ (IF i = 1 THEN 2 ELSE 1) = o
  OBVIOUS
<1>2. Ri \in Pos /\ Ro \in 1 .. U64Max /\ Ro \in Pos /\ a \in Nat
  BY <1>1, ConstantProductMathAssumption DEF Filled, Pos, u64
<1>3. out \in 0 .. Ro - 1
  <2> DEFINE b == i = 1
  <2>1. b \in BOOLEAN /\ (IF b THEN 2 ELSE 1) = o
    BY <1>1
  <2> HIDE DEF b
  <2>2. QuoteExactIn(qt, a, b) \in 0 .. qt.reserves[IF b THEN 2 ELSE 1] - 1
    BY <2>1, QuoteFits
  <2> QED
    BY <2>1, <2>2 DEF b
<1>4. CASE qt.venue = "cpmm"
  <2> DEFINE t == qt.tradeFeeRate
             c == qt.creatorFeeRate
             b == CreatorFeeOnInput(qt.creatorFeeOn, i = 1)
             rate == inputFeeRate(t, c, b)
             s == swapped(Ri, Ro, a, rate)
             f == ceilFee(a, rate)
  <2>1. t \in Nat /\ c \in Nat /\ qt.creatorFeeOn \in CreatorFeeModes
    BY <1>4 DEF Rated
  <2>2. b \in BOOLEAN
    BY <2>1 DEF CreatorFeeModes, CreatorFeeOnInput
  <2>3. out = SwapBaseInput(Ri, Ro, a, t, c, b)
    BY <1>1, <1>4 DEF QuoteExactIn, RaydiumCPMM
  <2>4. m = [in |-> a, out |-> out, paid |-> out, feeIn |-> IF takes THEN f ELSE 0, feeOut |-> s - out]
    BY <1>4 DEF Settlement
  <2>5. m.out > 0
    OBVIOUS
  <2> HIDE DEF t, c, b, m, out, Ri, Ro
  <2>6. out \in 0 .. s /\ s \in 0 .. Ro - 1 /\ f \in Nat /\ (out > 0 => f <= a)
    BY <1>2, <2>1, <2>2, <2>3, SwapBaseInputFits
  <2> HIDE DEF s, f
  <2>7. /\ m.in = a /\ m.out = out /\ m.paid = out /\ m.feeIn = (IF takes THEN f ELSE 0)
        /\ m.feeOut = s - out
    BY <2>4
  <2>8. s \in Nat /\ out \in Nat /\ Ro \in Nat
    BY <1>2, <2>6 DEF Pos
  <2> QED
    BY <1>2, <2>5, <2>6, <2>7, <2>8
<1>5. CASE qt.venue = "ammv4"
  <2> DEFINE n == qt.fee[1]
             d == qt.fee[2]
             f == ceilDiv(a * n, d)
  <2>1. n \in Nat /\ d \in Pos
    BY <1>5 DEF Rated
  <2>2. out = SwapBaseIn(Ri, Ro, a, n, d)
    BY <1>1, <1>5 DEF QuoteExactIn, RaydiumAMMV4
  <2>3. m = [in |-> a, out |-> out, paid |-> out, feeIn |-> IF takes THEN f ELSE 0, feeOut |-> 0]
    BY <1>5 DEF Settlement
  <2>4. m.out > 0
    OBVIOUS
  <2> HIDE DEF n, d, m, out, Ri, Ro
  <2>5. f \in Nat /\ (out > 0 => f <= a)
    BY <1>2, <2>1, <2>2, SwapBaseInFits
  <2> HIDE DEF f
  <2>6. m.in = a /\ m.out = out /\ m.paid = out /\ m.feeIn = (IF takes THEN f ELSE 0) /\ m.feeOut = 0
    BY <2>3
  <2> QED
    BY <1>2, <1>3, <2>4, <2>5, <2>6 DEF Pos
<1>6. CASE qt.venue \in {"pump", "curve"}
  <2> DEFINE f == qt.feeBps
             g == curve(qt.reserves[1], qt.reserves[2], a)
             e == effectiveIn(a, f)
             in == IF i = 2 /\ takes THEN e ELSE a
             paid == IF i = 1 /\ takes THEN g ELSE out
  <2>1. f \in 0 .. BpsDenominator
    BY <1>6 DEF Rated
  <2>2. m = [in |-> in, out |-> out, paid |-> paid, feeIn |-> 0, feeOut |-> 0]
    BY <1>6 DEF Settlement
  <2>3. e \in Nat
    <3> HIDE DEF f, Ri, Ro
    <3> QED
      BY <1>2, <2>1, BuyFits
  <2>4. i = 1 => g \in 0 .. Ro - 1
    <3> SUFFICES ASSUME i = 1 PROVE g \in 0 .. Ro - 1
      OBVIOUS
    <3>1. g = curve(Ri, Ro, a)
      BY <1>1
    <3> HIDE DEF g, Ri, Ro
    <3> QED
      BY <1>2, <3>1, CurveFits
  <2> HIDE DEF e, g, out, Ri, Ro, m
  <2>5. in \in Nat /\ paid \in 0 .. Ro - 1
    BY <1>2, <1>3, <2>3, <2>4
  <2> HIDE DEF in, paid
  <2>6. m.in = in /\ m.paid = paid /\ m.feeIn = 0 /\ m.feeOut = 0
    BY <2>2
  <2> QED
    BY <1>2, <2>5, <2>6 DEF Pos
<1>7. CASE qt.venue = "fluxbeam"
  <2> DEFINE g == FluxBeamGross(qt, a, i, o)
             in == afterTransfer(qt.transferFee[i], qt.epoch, a)
  <2>1. m = [in |-> in, out |-> out, paid |-> g, feeIn |-> 0, feeOut |-> 0]
    BY <1>7 DEF Settlement
  <2>2. g \in 0 .. Ro - 1 /\ in \in 0 .. a
    <3> HIDE DEF o
    <3> QED
      BY <1>1, <1>7, FluxBeamGrossFits DEF Ro
  <2> HIDE DEF g, in, out, Ro, m
  <2>3. m.in = in /\ m.paid = g /\ m.feeIn = 0 /\ m.feeOut = 0
    BY <2>1
  <2> QED
    BY <1>2, <2>2, <2>3 DEF Pos
<1> QED
  BY <1>4, <1>5, <1>6, <1>7 DEF Rated

-----------------------------------------------------------------------------
\* The invariant

\* The fees a pool has set aside are in its vaults.
Backed ==
    /\ world.owner = "cpmm" => \A i \in 1 .. 2 : setAside(data.fees[i]) <= vault[i]
    /\ world.owner = "ammv4" => \A i \in 1 .. 2 : data.pnl[i] <= vault[i]

\* The chain.
ChainInv ==
    /\ world \in Worlds /\ vault \in [1 .. 2 -> u64] /\ now \in 0 .. MaxTime
    /\ DataOf(world, data) /\ Backed

\* The client: what it has read is the pool's, at whatever time, and its quoter is sound
\* for the vaults it was read with.
ClientInv ==
    /\ reads \in 0 .. MaxReads
    /\ account # Nothing => DataOf(world, account)
    /\ aux # Nothing => AuxFor(world, aux)
    /\ quoter # Nothing => aux # Nothing /\ Sound(world, quoter, aux)

QuoteInv == ChainInv /\ ClientInv

LEMMA InitQuoteInv == Init => QuoteInv
<1> SUFFICES ASSUME Init PROVE QuoteInv
  OBVIOUS
<1>1. world \in Worlds /\ data = world.data /\ vault = world.vault /\ now = 0
  BY DEF Init
<1>2. vault \in [1 .. 2 -> u64] /\ now \in 0 .. MaxTime /\ 0 \in 0 .. MaxReads
  BY <1>1, WorldAssumption DEF u64
<1>3. DataOf(world, data)
  BY <1>1, WorldAssumption DEF DataOf
<1>4. Backed
  BY <1>1, WorldAssumption DEF Backed
<1>5. account = Nothing /\ aux = Nothing /\ quoter = Nothing /\ reads = 0
  BY DEF Init
<1> QED
  BY <1>1, <1>2, <1>3, <1>4, <1>5 DEF QuoteInv, ChainInv, ClientInv

\* The client's steps leave the chain alone.
LEMMA ClientKeepsInv ==
    ASSUME QuoteInv,
           FetchAccount \/ (\E given \in Givens : FetchAux(given)) \/ Build \/ StartOver
    PROVE  QuoteInv'
<1>1. world' = world /\ data' = data /\ vault' = vault /\ now' = now
  BY DEF FetchAccount, FetchAux, Build, StartOver, chain
<1>2. ChainInv'
  BY <1>1 DEF QuoteInv, ChainInv, Backed, DataOf
<1>3. ChainInv /\ ClientInv
  BY DEF QuoteInv
<1>4. CASE FetchAccount
  <2>1. account' = data /\ aux' = aux /\ quoter' = quoter /\ reads' = reads + 1 /\ reads < MaxReads
    BY <1>4 DEF FetchAccount
  <2>2. reads' \in 0 .. MaxReads
    BY <1>3, <2>1, WorldAssumption DEF ClientInv
  <2>3. ClientInv'
    BY <1>1, <1>3, <2>1, <2>2, Zenon DEF ClientInv, ChainInv
  <2> QED
    BY <1>2, <2>3 DEF QuoteInv
<1>5. ASSUME NEW given \in Givens, FetchAux(given) PROVE QuoteInv'
  <2>1. /\ aux = Nothing /\ aux' = AuxOf(given) /\ account' = account /\ quoter' = quoter
        /\ reads' = reads + 1 /\ reads < MaxReads
    BY <1>5 DEF FetchAux
  <2>2. reads' \in 0 .. MaxReads
    BY <1>3, <2>1, WorldAssumption DEF ClientInv
  <2>3. AuxFor(world, AuxOf(given))
    <3>1. now \in Nat
      BY <1>3, WorldAssumption DEF ChainInv
    <3> QED
      BY <1>3, <3>1, AuxIsOfPool DEF ChainInv
  <2>4. quoter' = Nothing
    BY <1>3, <2>1 DEF ClientInv
  <2>5. ClientInv'
    BY <1>1, <1>3, <2>1, <2>2, <2>3, <2>4, Zenon DEF ClientInv
  <2> QED
    BY <1>2, <2>5 DEF QuoteInv
<1>6. CASE Build
  <2>1. /\ account # Nothing /\ aux # Nothing /\ account' = account /\ aux' = aux /\ reads' = reads
        /\ quoter' = FromAccount(world.owner, account, aux) /\ quoter' # Nothing
    BY <1>6 DEF Build
  <2>2. DataOf(world, account) /\ AuxFor(world, aux) /\ world \in Worlds
    BY <1>3, <2>1 DEF ClientInv, ChainInv
  <2>3. FromAccount(world.owner, account, aux) # Nothing
    BY <2>1
  <2>4. Sound(world, FromAccount(world.owner, account, aux), aux)
    BY <2>2, <2>3, FromAccountIsSound
  <2>5. Sound(world, quoter', aux)
    BY <2>1, <2>4
  <2>6. ClientInv'
    BY <1>1, <1>3, <2>1, <2>2, <2>5, Zenon DEF ClientInv
  <2> QED
    BY <1>2, <2>6 DEF QuoteInv
<1>7. CASE StartOver
  <2>1. account' = Nothing /\ aux' = Nothing /\ quoter' = Nothing /\ reads' = reads
    BY <1>7 DEF StartOver
  <2>2. ClientInv'
    BY <1>1, <1>3, <2>1, Zenon DEF ClientInv
  <2> QED
    BY <1>2, <2>2 DEF QuoteInv
<1> QED
  BY <1>4, <1>5, <1>6, <1>7

\* Steps on the chain leave the client with what it has read.
LEMMA ClientUntouched ==
    ASSUME ClientInv, world' = world, UNCHANGED client
    PROVE  ClientInv'
<1>1. account' = account /\ aux' = aux /\ quoter' = quoter /\ reads' = reads
  BY DEF client
<1> QED
  BY <1>1, Zenon DEF ClientInv

\* The sum of the fees set aside in a token, as the account's own u64 sum.
LEMMA OwedIsSetAside ==
    ASSUME ChainInv, world.owner = "cpmm", NEW i \in 1 .. 2
    PROVE  /\ data.fees[i].protocol \in Nat /\ data.fees[i].fund \in Nat /\ data.fees[i].creator \in Nat
           /\ feesOwed(data, i) = setAside(data.fees[i])
<1>1. data.fees[i].protocol \in Nat /\ data.fees[i].fund \in Nat /\ data.fees[i].creator \in Nat
  BY DEF ChainInv, DataOf, CPMMData
<1> DEFINE s == data.fees[i].protocol + data.fees[i].fund + data.fees[i].creator
<1>2. s \in Nat /\ s = setAside(data.fees[i])
  BY <1>1 DEF setAside
<1>3. s <= vault[i] /\ vault[i] \in u64
  BY <1>2 DEF ChainInv, Backed
<1>4. feesOwed(data, i) = wrap(s)
  BY Zenon DEF feesOwed
<1> HIDE DEF s
<1>5. s \in Int /\ s \in u64
  BY <1>2, <1>3, ConstantProductMathAssumption DEF u64
<1>6. wrap(s) = s
  BY <1>5, WrapFits
<1> QED
  BY <1>1, <1>2, <1>4, <1>6

\* A CP-Swap account once a swap has set its fees aside, and what that does to their sums.
charged(d, i, o, feeIn, feeOut) ==
    [d EXCEPT !.fees[i].protocol = @ + feeIn, !.fees[o].creator = @ + feeOut]

Charges(d, e, i, o, feeIn, feeOut) ==
    /\ setAside(d.fees[i]) \in Nat /\ setAside(d.fees[o]) \in Nat
    /\ setAside(e.fees[i]) = setAside(d.fees[i]) + feeIn
    /\ setAside(e.fees[o]) = setAside(d.fees[o]) + feeOut

\* A CP-Swap pool sets aside one part of a fee on either side.
LEMMA FeesSetAside ==
    ASSUME NEW d \in CPMMData, NEW i \in 1 .. 2, NEW o \in 1 .. 2, i # o,
           NEW feeIn \in Nat, NEW feeOut \in Nat
    PROVE  /\ charged(d, i, o, feeIn, feeOut) \in CPMMData
           /\ Charges(d, charged(d, i, o, feeIn, feeOut), i, o, feeIn, feeOut)
<1> DEFINE e == charged(d, i, o, feeIn, feeOut)
           F  == [d.fees EXCEPT ![i].protocol = @ + feeIn, ![o].creator = @ + feeOut]
           fi == d.fees[i]
           fo == d.fees[o]
<1>1. d.fees \in [1 .. 2 -> [protocol : Nat, fund : Nat, creator : Nat]]
  BY DEF CPMMData
<1>2. F \in [1 .. 2 -> [protocol : Nat, fund : Nat, creator : Nat]]
  BY <1>1
<1>3. e = [d EXCEPT !.fees = F]
  BY DEF CPMMData, charged
<1>4. e \in CPMMData
  <2> HIDE DEF F
  <2> QED
    BY <1>2, <1>3 DEF CPMMData
<1>5. /\ e.fees[i] = [fi EXCEPT !.protocol = @ + feeIn]
      /\ e.fees[o] = [fo EXCEPT !.creator = @ + feeOut]
  BY DEF CPMMData, charged
<1>6. /\ fi \in [protocol : Nat, fund : Nat, creator : Nat]
      /\ fo \in [protocol : Nat, fund : Nat, creator : Nat]
  BY <1>1
<1> HIDE DEF e, fi, fo
<1>7. /\ setAside(fi) \in Nat /\ setAside(fo) \in Nat
      /\ setAside(e.fees[i]) = setAside(fi) + feeIn /\ setAside(e.fees[o]) = setAside(fo) + feeOut
  BY <1>5, <1>6 DEF setAside
<1> QED
  BY <1>4, <1>7 DEF e, fi, fo, Charges

LEMMA SwapKeepsInv ==
    ASSUME QuoteInv, NEW aToB \in BOOLEAN, NEW a \in Amounts, NEW takes \in BOOLEAN,
           SwapLands(aToB, a, takes)
    PROVE  QuoteInv'
<1> DEFINE i  == IF aToB THEN 1 ELSE 2
           o  == 3 - i
           x  == AuxOf(AllFields)
           qt == FromAccount(world.owner, data, x)
           m  == Settlement(qt, a, i, o, takes)
<1>1. ChainInv /\ ClientInv /\ a \in u64 /\ world \in Worlds
  BY WorldAssumption DEF QuoteInv, ChainInv, u64
<1>2. /\ qt # Nothing
      /\ m.out > 0 /\ m.paid <= vault[o] /\ vault[i] + m.in <= U64Max
      /\ qt.venue = "curve" => qt.reserves[i] + m.in <= U64Max
      /\ vault' = [vault EXCEPT ![i] = @ + m.in, ![o] = @ - m.paid]
      /\ data' = Settled(qt, m, i, o)
      /\ world' = world /\ now' = now /\ UNCHANGED client
  BY Zenon DEF SwapLands
<1>3. i \in 1 .. 2 /\ o \in 1 .. 2 /\ o # i /\ 1 .. 2 = {i, o}
  OBVIOUS
<1>4. AuxFor(world, x) /\ x.vault = vault
  <2>1. now \in Nat
    BY <1>1, WorldAssumption DEF ChainInv
  <2>2. "vaults" \in AllFields
    BY DEF AllFields
  <2> QED
    BY <1>1, <2>1, <2>2, AuxIsOfPool DEF ChainInv
<1>5. DataOf(world, data)
  BY <1>1 DEF ChainInv
<1> HIDE DEF x
<1>6. Sound(world, qt, x)
  BY <1>1, <1>2, <1>4, <1>5, FromAccountIsSound
<1>7. Rated(qt) /\ Filled(qt) /\ qt.venue = world.owner
  BY <1>6 DEF Sound
<1>8. /\ m.in \in Nat /\ m.paid \in Nat /\ m.feeIn \in Nat /\ m.feeOut \in Nat
      /\ m.feeIn <= m.in /\ m.paid + m.feeOut < qt.reserves[o]
  <2> HIDE DEF qt, i
  <2>1. Settlement(qt, a, i, 3 - i, takes).out > 0
    BY <1>2
  <2> QED
    BY <1>1, <1>3, <1>7, <2>1, SettlementFits
<1> DEFINE R == qt.reserves
<1>9. R[i] \in Nat /\ R[o] \in Nat
  <2>1. R[i] \in 1 .. U64Max /\ R[o] \in 1 .. U64Max
    BY <1>3, <1>7 DEF Filled
  <2> QED
    BY <2>1
<1>10. vault[i] \in u64 /\ vault[o] \in u64 /\ vault \in [1 .. 2 -> u64]
  BY <1>1, <1>3 DEF ChainInv
<1>c. \A j \in 1 .. 2 : world.owner = "cpmm" => R[j] + feesOwed(data, j) = vault[j]
  <2> SUFFICES ASSUME world.owner = "cpmm" PROVE \A j \in 1 .. 2 : R[j] + feesOwed(data, j) = vault[j]
    OBVIOUS
  <2> QED
    BY <1>2, <1>4, <1>5, CPMMIsSound
<1>d. \A j \in 1 .. 2 : world.owner = "ammv4" => R[j] + data.pnl[j] = vault[j]
  <2> SUFFICES ASSUME world.owner = "ammv4" PROVE \A j \in 1 .. 2 : R[j] + data.pnl[j] = vault[j]
    OBVIOUS
  <2> QED
    BY <1>2, <1>4, <1>5, AMMV4IsSound
<1>e. world.owner = "curve" => R = data.virtual
  BY <1>2, <1>4, <1>5, CurveIsSound
<1> HIDE DEF qt, m, i, o, R
<1> DEFINE in == m.in
           paid == m.paid
           feeIn == m.feeIn
           feeOut == m.feeOut
<1>11. /\ in \in Nat /\ paid \in Nat /\ feeIn \in Nat /\ feeOut \in Nat
       /\ feeIn <= in /\ paid + feeOut < R[o]
       /\ paid <= vault[o] /\ vault[i] + in <= U64Max
       /\ vault' = [vault EXCEPT ![i] = @ + in, ![o] = @ - paid]
  BY <1>2, <1>8 DEF R
<1> HIDE DEF in, paid, feeIn, feeOut
<1>12. vault'[i] = vault[i] + in /\ vault'[o] = vault[o] - paid
  BY <1>3, <1>10, <1>11
<1>13. vault' \in [1 .. 2 -> u64]
  <2>1. vault[i] + in \in u64 /\ vault[o] - paid \in u64
    BY <1>10, <1>11, ConstantProductMathAssumption DEF u64
  <2> QED
    BY <1>3, <1>10, <1>11, <2>1
<1>14. DataOf(world, data') /\ Backed'
  <2>1. CASE world.owner = "cpmm"
    <3>1. data \in CPMMData /\ qt.venue = "cpmm"
      BY <1>5, <1>7, <2>1 DEF DataOf
    <3>2. data' = [data EXCEPT !.fees[i].protocol = @ + feeIn, !.fees[o].creator = @ + feeOut]
      BY <1>2, <3>1 DEF Settled, feeIn, feeOut
    <3> DEFINE fi == data.fees[i]
               fo == data.fees[o]
    <3>3. R[i] + setAside(fi) = vault[i] /\ R[o] + setAside(fo) = vault[o]
      BY <1>1, <1>3, <1>c, <2>1, OwedIsSetAside
    <3>4. data' = charged(data, i, o, feeIn, feeOut)
      BY <3>2 DEF charged
    <3>5. i # o
      BY <1>3
    <3>6. data' \in CPMMData /\ Charges(data, charged(data, i, o, feeIn, feeOut), i, o, feeIn, feeOut)
      BY <1>3, <1>11, <3>1, <3>4, <3>5, FeesSetAside
    <3>7. /\ setAside(fi) \in Nat /\ setAside(fo) \in Nat
          /\ setAside(data'.fees[i]) = setAside(fi) + feeIn
          /\ setAside(data'.fees[o]) = setAside(fo) + feeOut
      BY <3>4, <3>6 DEF Charges
    <3>9. setAside(data'.fees[i]) <= vault'[i] /\ setAside(data'.fees[o]) <= vault'[o]
      <4> DEFINE si == setAside(fi)
                 so == setAside(fo)
      <4>1. /\ si \in Nat /\ so \in Nat /\ R[i] + si = vault[i] /\ R[o] + so = vault[o]
            /\ setAside(data'.fees[i]) = si + feeIn /\ setAside(data'.fees[o]) = so + feeOut
        BY <3>3, <3>7
      <4> HIDE DEF si, so
      <4>2. R[i] \in Nat /\ R[o] \in Nat
        BY <1>9
      <4>3. si + feeIn <= vault[i] + in /\ so + feeOut <= vault[o] - paid
        BY <1>11, <4>1, <4>2
      <4> QED
        BY <1>12, <4>1, <4>3
    <3>10. \A j \in 1 .. 2 : setAside(data'.fees[j]) <= vault'[j]
      BY <1>3, <3>9
    <3> QED
      BY <1>2, <2>1, <3>6, <3>10 DEF DataOf, Backed
  <2>2. CASE world.owner = "ammv4"
    <3>1. data \in AMMV4Data /\ qt.venue = "ammv4"
      BY <1>5, <1>7, <2>2 DEF DataOf
    <3>2. data' = [data EXCEPT !.pnl[i] = @ + feeIn]
      BY <1>2, <3>1 DEF Settled, feeIn
    <3>3. data.pnl[i] \in Nat /\ data.pnl[o] \in Nat
      BY <1>3, <3>1 DEF AMMV4Data
    <3>4. data' \in AMMV4Data /\ data'.pnl[i] = data.pnl[i] + feeIn /\ data'.pnl[o] = data.pnl[o]
      BY <1>3, <1>11, <3>1, <3>2, <3>3 DEF AMMV4Data
    <3>5. R[i] + data.pnl[i] = vault[i] /\ R[o] + data.pnl[o] = vault[o]
      BY <1>3, <1>d, <2>2
    <3>6. data'.pnl[i] <= vault'[i] /\ data'.pnl[o] <= vault'[o]
      BY <1>9, <1>11, <1>12, <3>3, <3>4, <3>5
    <3>7. \A j \in 1 .. 2 : data'.pnl[j] <= vault'[j]
      BY <1>3, <3>6
    <3> QED
      BY <1>2, <2>2, <3>4, <3>7 DEF DataOf, Backed
  <2>3. CASE world.owner = "curve"
    <3>1. data \in CurveData /\ qt.venue = "curve" /\ R = data.virtual
      BY <1>5, <1>7, <1>e, <2>3 DEF DataOf
    <3>2. data' = [data EXCEPT !.virtual[i] = @ + in, !.virtual[o] = @ - paid,
                               !.complete = o = 1 /\ vault[1] = paid]
      BY <1>2, <3>1 DEF Settled, in, paid
    <3>3. R[i] + in <= U64Max
      BY <1>2, <3>1 DEF R, in
    <3>4. data.virtual \in [1 .. 2 -> 0 .. U64Max] /\ data.virtual[i] \in Nat /\ data.virtual[o] \in 0 .. U64Max
      BY <1>3, <1>9, <3>1 DEF CurveData
    <3>5. data.virtual[i] + in \in 0 .. U64Max /\ data.virtual[o] - paid \in 0 .. U64Max
      BY <1>11, <3>1, <3>3, <3>4, ConstantProductMathAssumption
    <3>6. data' \in CurveData
      BY <1>3, <3>1, <3>2, <3>4, <3>5 DEF CurveData
    <3> QED
      BY <1>2, <2>3, <3>6 DEF DataOf, Backed
  <2>4. CASE world.owner \in {"pump", "fluxbeam"}
    <3>1. data' = data
      BY <1>2, <1>7, <2>4 DEF Settled
    <3> QED
      BY <1>2, <1>5, <2>4, <3>1 DEF DataOf, Backed
  <2> QED
    BY <1>7, <2>1, <2>2, <2>3, <2>4 DEF Rated
<1>15. ChainInv'
  BY <1>1, <1>2, <1>13, <1>14 DEF ChainInv, DataOf
<1>16. ClientInv'
  BY <1>1, <1>2, ClientUntouched
<1> QED
  BY <1>15, <1>16 DEF QuoteInv

LEMMA CollectKeepsInv ==
    ASSUME QuoteInv, CollectFees
    PROVE  QuoteInv'
<1>1. ChainInv /\ ClientInv
  BY DEF QuoteInv
<1>2. /\ \E i \in 1 .. 2 : Owed(i) > 0
      /\ \A i \in 1 .. 2 : Owed(i) <= vault[i]
      /\ vault' = [i \in 1 .. 2 |-> vault[i] - Owed(i)]
      /\ data' = IF world.owner = "cpmm"
                 THEN [data EXCEPT !.fees = [i \in 1 .. 2 |-> [protocol |-> 0, fund |-> 0, creator |-> 0]]]
                 ELSE [data EXCEPT !.pnl = <<0, 0>>]
      /\ world' = world /\ now' = now /\ UNCHANGED client
  BY Zenon DEF CollectFees
<1>3. vault \in [1 .. 2 -> u64] /\ DataOf(world, data)
  BY <1>1 DEF ChainInv
<1>4. world.owner \in {"cpmm", "ammv4"}
  <2>1. \A i \in 1 .. 2 : world.owner \notin {"cpmm", "ammv4"} => Owed(i) = 0
    BY DEF Owed
  <2> QED
    BY <1>2, <2>1
<1>5. \A i \in 1 .. 2 : Owed(i) \in Nat
  <2>1. CASE world.owner = "cpmm"
    <3> SUFFICES ASSUME NEW i \in 1 .. 2 PROVE Owed(i) \in Nat
      OBVIOUS
    <3>1. Owed(i) = setAside(data.fees[i])
      <4>1. Owed(i) = feesOwed(data, i)
        BY <2>1 DEF Owed
      <4> QED
        BY <1>1, <2>1, <4>1, OwedIsSetAside
    <3>2. data.fees[i].protocol \in Nat /\ data.fees[i].fund \in Nat /\ data.fees[i].creator \in Nat
      BY <1>1, <2>1, OwedIsSetAside
    <3> QED
      BY <3>1, <3>2 DEF setAside
  <2>2. CASE world.owner = "ammv4"
    BY <1>3, <2>2 DEF Owed, DataOf, AMMV4Data
  <2> QED
    BY <1>4, <2>1, <2>2
<1>6. vault' \in [1 .. 2 -> u64]
  <2>1. \A i \in 1 .. 2 : vault[i] - Owed(i) \in u64
    BY <1>2, <1>3, <1>5, ConstantProductMathAssumption DEF u64
  <2> QED
    BY <1>2, <2>1
<1>7. \A i \in 1 .. 2 : vault'[i] >= 0
  BY <1>6, ConstantProductMathAssumption DEF u64
<1>8. DataOf(world, data') /\ Backed'
  <2>1. CASE world.owner = "cpmm"
    <3> DEFINE Z == [protocol |-> 0, fund |-> 0, creator |-> 0]
               F == [i \in 1 .. 2 |-> Z]
    <3>1. data \in CPMMData /\ data' = [data EXCEPT !.fees = F]
      BY <1>2, <1>3, <2>1 DEF DataOf
    <3>2. F \in [1 .. 2 -> [protocol : Nat, fund : Nat, creator : Nat]] /\ setAside(Z) = 0
      BY DEF setAside
    <3>3. data' \in CPMMData /\ \A i \in 1 .. 2 : data'.fees[i] = Z
      BY <3>1, <3>2 DEF CPMMData
    <3>4. \A i \in 1 .. 2 : setAside(data'.fees[i]) <= vault'[i]
      <4> HIDE DEF Z
      <4> QED
        BY <1>7, <3>2, <3>3
    <3> QED
      BY <1>2, <2>1, <3>3, <3>4 DEF DataOf, Backed
  <2>2. CASE world.owner = "ammv4"
    <3>1. data \in AMMV4Data /\ data' = [data EXCEPT !.pnl = <<0, 0>>]
      BY <1>2, <1>3, <2>2 DEF DataOf
    <3>2. data' \in AMMV4Data /\ \A i \in 1 .. 2 : data'.pnl[i] = 0
      BY <3>1 DEF AMMV4Data
    <3>3. \A i \in 1 .. 2 : data'.pnl[i] <= vault'[i]
      BY <1>7, <3>2
    <3> QED
      BY <1>2, <2>2, <3>2, <3>3 DEF DataOf, Backed
  <2> QED
    BY <1>4, <2>1, <2>2
<1>9. ChainInv'
  BY <1>1, <1>2, <1>6, <1>8 DEF ChainInv, DataOf
<1>10. ClientInv'
  BY <1>1, <1>2, ClientUntouched
<1> QED
  BY <1>9, <1>10 DEF QuoteInv

LEMMA StepQuoteInv == QuoteInv /\ [Next]_vars => QuoteInv'
<1> SUFFICES ASSUME QuoteInv, [Next]_vars PROVE QuoteInv'
  OBVIOUS
<1>1. CASE FetchAccount \/ (\E given \in Givens : FetchAux(given)) \/ Build \/ StartOver
  BY <1>1, ClientKeepsInv
<1>2. ASSUME NEW aToB \in BOOLEAN, NEW a \in Amounts, NEW takes \in BOOLEAN, SwapLands(aToB, a, takes)
      PROVE  QuoteInv'
  BY <1>2, SwapKeepsInv
<1>3. CASE CollectFees
  BY <1>3, CollectKeepsInv
<1>4. CASE TimePasses
  <2>1. /\ now < MaxTime /\ now' = now + 1 /\ world' = world /\ data' = data /\ vault' = vault
        /\ UNCHANGED client
    BY <1>4 DEF TimePasses
  <2>2. now' \in 0 .. MaxTime
    BY <2>1, WorldAssumption DEF QuoteInv, ChainInv
  <2>3. ChainInv'
    BY <2>1, <2>2 DEF QuoteInv, ChainInv, Backed, DataOf
  <2>4. ClientInv'
    BY <2>1, ClientUntouched DEF QuoteInv
  <2> QED
    BY <2>3, <2>4 DEF QuoteInv
<1>5. CASE UNCHANGED vars
  <2>1. world' = world /\ data' = data /\ vault' = vault /\ now' = now /\ UNCHANGED client
    BY <1>5 DEF vars, chain
  <2>2. ChainInv'
    BY <2>1 DEF QuoteInv, ChainInv, Backed, DataOf
  <2>3. ClientInv'
    BY <2>1, ClientUntouched DEF QuoteInv
  <2> QED
    BY <2>2, <2>3 DEF QuoteInv
<1> QED
  BY <1>1, <1>2, <1>3, <1>4, <1>5, Zenon DEF Next

\* The chain and everything a client has read of it stay as the invariant says.
THEOREM PoolAndClientAreSound == Spec => []QuoteInv
BY InitQuoteInv, StepQuoteInv, PTL DEF Spec

\* What is set aside is what the accounts' u64 sums say, and is in the vaults.
LEMMA OwedIsBacked ==
    ASSUME ChainInv, NEW i \in 1 .. 2
    PROVE  Owed(i) \in 0 .. vault[i] /\ vault[i] \in u64
<1>1. vault[i] \in u64
  BY DEF ChainInv
<1>2. CASE world.owner = "cpmm"
  <2>1. Owed(i) = feesOwed(data, i)
    BY <1>2 DEF Owed
  <2>2. /\ data.fees[i].protocol \in Nat /\ data.fees[i].fund \in Nat /\ data.fees[i].creator \in Nat
        /\ feesOwed(data, i) = setAside(data.fees[i])
    BY <1>2, OwedIsSetAside
  <2>3. setAside(data.fees[i]) \in Nat /\ setAside(data.fees[i]) <= vault[i]
    BY <1>2, <2>2 DEF setAside, ChainInv, Backed
  <2> QED
    BY <1>1, <2>1, <2>2, <2>3, ConstantProductMathAssumption DEF u64
<1>3. CASE world.owner = "ammv4"
  <2>1. Owed(i) = data.pnl[i] /\ data.pnl[i] \in Nat /\ data.pnl[i] <= vault[i]
    BY <1>3 DEF Owed, ChainInv, Backed, DataOf, AMMV4Data
  <2> QED
    BY <1>1, <2>1, ConstantProductMathAssumption DEF u64
<1>4. CASE world.owner \notin {"cpmm", "ammv4"}
  <2>1. Owed(i) = 0
    BY <1>4 DEF Owed
  <2> QED
    BY <1>1, <2>1, ConstantProductMathAssumption DEF u64
<1> QED
  BY <1>2, <1>3, <1>4

\* Balances are u64, no sum of fees wraps, and a quoter that is not refused has reserves
\* on both sides (from_models.go).
THEOREM QuotersAreTyped == Spec => []TypeOK
<1>1. QuoteInv => TypeOK
  <2> SUFFICES ASSUME QuoteInv PROVE TypeOK
    OBVIOUS
  <2>1. \A i \in 1 .. 2 : Owed(i) \in 0 .. U64Max
    <3> SUFFICES ASSUME NEW i \in 1 .. 2 PROVE Owed(i) \in 0 .. U64Max
      OBVIOUS
    <3>1. Owed(i) \in 0 .. vault[i] /\ vault[i] \in u64
      BY OwedIsBacked DEF QuoteInv
    <3> QED
      BY <3>1, ConstantProductMathAssumption DEF u64
  <2>2. quoter # Nothing => \A i \in 1 .. 2 : quoter.reserves[i] \in 1 .. U64Max
    BY DEF QuoteInv, ClientInv, Sound, Filled
  <2> QED
    BY <2>1, <2>2 DEF QuoteInv, ChainInv, ClientInv, TypeOK, u64
<1> QED
  BY <1>1, PoolAndClientAreSound, PTL

\* However many swaps land at the quoted price, each vault still holds the fees its pool
\* owes (raydium_cpmm.go:119-126, raydium_amm_v4.go:91-99).
THEOREM FeesAreBacked == Spec => []FeesStayBacked
<1>1. QuoteInv => FeesStayBacked
  <2> SUFFICES ASSUME QuoteInv, NEW i \in 1 .. 2 PROVE Owed(i) <= vault[i]
    BY DEF FeesStayBacked
  <2>1. Owed(i) \in 0 .. vault[i] /\ vault[i] \in u64
    BY OwedIsBacked DEF QuoteInv
  <2> QED
    BY <2>1, ConstantProductMathAssumption DEF u64
<1> QED
  BY <1>1, PoolAndClientAreSound, PTL

\* No quoter, however stale its account is against its vaults, answers more than the
\* vault it was read with holds (from_models.go, quote/*/swap_quote.go).
THEOREM QuotesAreCovered == Spec => []NeverOverdrawn
<1>1. QuoteInv => NeverOverdrawn
  <2> SUFFICES ASSUME QuoteInv, quoter # Nothing, NEW a \in Amounts, NEW aToB \in BOOLEAN
               PROVE  QuoteExactIn(quoter, a, aToB) <= Backing(IF aToB THEN 2 ELSE 1)
    BY DEF NeverOverdrawn
  <2> DEFINE o   == IF aToB THEN 2 ELSE 1
             out == QuoteExactIn(quoter, a, aToB)
             R   == quoter.reserves[o]
  <2>1. Rated(quoter) /\ Filled(quoter) /\ Within(quoter, aux) /\ AuxFor(world, aux) /\ a \in u64
    BY WorldAssumption DEF QuoteInv, ClientInv, Sound, u64
  <2>2. out \in 0 .. R - 1
    BY <2>1, QuoteFits
  <2>3. o \in 1 .. 2
    OBVIOUS
  <2>4. R \in 1 .. U64Max /\ aux.vault[o] \in u64
    BY <2>1, <2>3 DEF Filled, AuxFor
  <2>5. Backing(o) = R \/ (Backing(o) = aux.vault[o] /\ R <= aux.vault[o])
    BY <2>1, <2>3 DEF Backing, Within
  <2> HIDE DEF out, R, o
  <2>6. out <= Backing(o)
    BY <2>2, <2>4, <2>5, ConstantProductMathAssumption DEF u64
  <2> QED
    BY <2>6 DEF out, o
<1> QED
  BY <1>1, PoolAndClientAreSound, PTL

-----------------------------------------------------------------------------
\* What a pool is worth

\* Side 2 trades at its book balance, at most U64Max of it: a Pump pool's quote side, with
\* its virtual reserve, saturates.
traded(q) == lesser(q, U64Max)

Balances == 1 .. 2 * U64Max

\* worth[q] grows with q as the price it is traded at says: by one part in traded(q).  Up
\* to U64Max it is q, times a constant; beyond, it is a power of (U64Max + 1) / U64Max.
Worth(f) ==
    /\ f \in [Balances -> Pos]
    /\ \A q \in 1 .. 2 * U64Max - 1 : f[q + 1] * traded(q) = f[q] * (traded(q) + 1)

LEMMA TradedFacts ==
    ASSUME NEW q \in Pos
    PROVE  /\ traded(q) \in Pos /\ traded(q) <= q /\ traded(q) <= U64Max
           /\ \A n \in Nat : /\ traded(q + n) <= traded(q) + n
                             /\ traded(q) <= traded(q + n)
<1>1. U64Max \in Nat /\ U64Max >= 1
  BY ConstantProductMathAssumption
<1> QED
  BY <1>1 DEF traded, lesser, Pos

LEMMA WorthExists == \E f : Worth(f)
<1> DEFINE S == {n \in 0 .. 2 * U64Max - 1 :
                     \E f \in [Balances -> Pos] :
                         \A q \in 1 .. n : f[q + 1] * traded(q) = f[q] * (traded(q) + 1)}
           last == 2 * U64Max - 1
<1>1. U64Max \in Nat /\ U64Max >= 1 /\ last \in Nat /\ last + 1 = 2 * U64Max
  BY ConstantProductMathAssumption
<1>2. 0 \in S
  <2>1. [q \in Balances |-> 1] \in [Balances -> Pos]
    BY DEF Pos
  <2>2. 1 .. 0 = {}
    OBVIOUS
  <2>3. 0 \in 0 .. last
    BY <1>1
  <2> QED
    BY <2>1, <2>2, <2>3
<1>3. ASSUME NEW n \in 0 .. last - 1, n \in S PROVE n + 1 \in S
  <2>1. PICK f \in [Balances -> Pos] :
            \A q \in 1 .. n : f[q + 1] * traded(q) = f[q] * (traded(q) + 1)
    BY <1>3
  <2> DEFINE t == traded(n + 1)
             g == [q \in Balances |-> IF q = n + 2 THEN f[n + 1] * (t + 1) ELSE f[q] * t]
  <2>2. /\ n \in Nat /\ n + 1 \in Pos /\ n + 1 \in Balances /\ n + 2 \in Balances
        /\ n + 1 \in 0 .. last
    BY <1>1 DEF Balances, Pos
  <2>3. t \in Pos /\ t + 1 \in Pos
    <3>1. t \in Pos
      BY <2>2, TradedFacts
    <3> HIDE DEF t
    <3> QED
      BY <3>1 DEF Pos
  <2> HIDE DEF t
  <2>4. g \in [Balances -> Pos]
    <3>1. ASSUME NEW q \in Balances
          PROVE  f[q] * t \in Pos /\ f[q] * (t + 1) \in Pos
      <4> DEFINE y == f[q]
      <4>1. y \in Pos
        BY <2>1
      <4> HIDE DEF y
      <4>2. y * t \in Pos /\ y * (t + 1) \in Pos
        BY <2>3, <4>1 DEF Pos
      <4> QED
        BY <4>2 DEF y
    <3> QED
      BY <2>2, <3>1
  <2>5. ASSUME NEW q \in 1 .. n + 1
        PROVE  g[q + 1] * traded(q) = g[q] * (traded(q) + 1)
    <3>1. q \in Balances /\ q + 1 \in Balances /\ q # n + 2 /\ q \in Pos
      BY <1>1, <2>2 DEF Balances, Pos
    <3>2. g[q] = f[q] * t
      BY <3>1
    <3> DEFINE y == f[q]
               z == f[q + 1]
               e == traded(q)
    <3>3. y \in Pos /\ z \in Pos /\ e \in Pos
      BY <2>1, <3>1, TradedFacts
    <3>4. CASE q = n + 1
      <4>1. g[q + 1] = y * (t + 1) /\ e = t
        BY <3>1, <3>4 DEF t
      <4> HIDE DEF y, e, g
      <4>2. (y * (t + 1)) * t = (y * t) * (t + 1)
        BY <2>3, <3>3 DEF Pos
      <4> QED
        BY <3>2, <4>1, <4>2 DEF y, e
    <3>5. CASE q # n + 1
      <4>1. g[q + 1] = z * t /\ z * e = y * (e + 1)
        BY <2>1, <2>2, <3>1, <3>5
      <4> HIDE DEF y, e, z, g
      <4>2. (z * t) * e = (z * e) * t /\ (y * t) * (e + 1) = (y * (e + 1)) * t
        BY <2>3, <3>3 DEF Pos
      <4> QED
        BY <3>2, <4>1, <4>2 DEF y, e
    <3> QED
      BY <3>4, <3>5
  <2> HIDE DEF g
  <2> QED
    BY <2>2, <2>4, <2>5
<1>4. last \in S
  <2> HIDE DEF S
  <2>1. 0 .. last \subseteq S
    <3>1. \A n \in 0 .. last - 1 : n \in S => n + 1 \in S
      BY <1>3
    <3> QED
      BY <1>1, <1>2, <3>1, Induction
  <2> QED
    BY <1>1, <2>1
<1> QED
  BY <1>4 DEF Worth

\* Paying n into side 2 makes it worth at least as much more as the price says.
LEMMA WorthRises ==
    ASSUME NEW f, Worth(f), NEW q \in Balances, NEW n \in Nat, q + n \in Balances
    PROVE  f[q + n] * traded(q) >= f[q] * (traded(q) + n)
<1> DEFINE e == traded(q)
           a == f[q]
           S == {k \in 0 .. n : f[q + k] * e >= a * (e + k)}
<1>0. q \in Pos /\ U64Max \in Nat
  BY ConstantProductMathAssumption DEF Balances, Pos
<1>1. e \in Pos /\ a \in Pos
  BY <1>0, TradedFacts DEF Worth
<1>2. 0 \in S
  <2>1. q + 0 = q /\ e + 0 = e /\ a * e \in Int
    BY <1>0, <1>1 DEF Pos
  <2> HIDE DEF e, a
  <2>2. f[q] * e = a * e /\ a * e <= a * e
    BY <2>1 DEF a
  <2> QED
    BY <2>1, <2>2
<1>3. ASSUME NEW k \in 0 .. n - 1, k \in S PROVE k + 1 \in S
  <2> DEFINE h == traded(q + k)
             b == f[q + k]
             c == f[q + (k + 1)]
  <2>1. q + k \in Balances /\ q + k \in 1 .. 2 * U64Max - 1 /\ (q + k) + 1 = q + (k + 1)
        /\ q + (k + 1) \in Balances /\ k \in Nat /\ q + k \in Pos
    BY <1>0 DEF Balances, Pos
  <2>2. c * h = b * (h + 1) /\ b \in Pos /\ c \in Pos
    BY <2>1 DEF Worth
  <2>3. h \in Pos /\ h <= e + k
    BY <1>0, <2>1, TradedFacts
  <2>4. b * e >= a * (e + k)
    BY <1>3
  <2> HIDE DEF a, b, c, e, h
  <2>5. (b * e) * (h + 1) >= (a * (e + k)) * (h + 1)
    <3>1. a * (e + k) \in Int /\ b * e \in Int /\ h + 1 \in Nat
      BY <1>1, <2>1, <2>2, <2>3 DEF Pos
    <3> QED
      BY <2>4, <3>1, MulMonotone
  <2>6. (e + k) * (h + 1) >= (e + k + 1) * h
    <3>1. (e + k) * (h + 1) = (e + k) * h + (e + k) /\ (e + k + 1) * h = (e + k) * h + h
      BY <1>1, <2>1, <2>3 DEF Pos
    <3>2. (e + k) * h \in Int
      BY <1>1, <2>1, <2>3 DEF Pos
    <3> QED
      BY <1>1, <2>1, <2>3, <3>1, <3>2 DEF Pos
  <2>7. ((e + k) * (h + 1)) * a >= ((e + k + 1) * h) * a
    <3>1. (e + k) * (h + 1) \in Int /\ (e + k + 1) * h \in Int /\ a \in Nat
      BY <1>1, <2>1, <2>3 DEF Pos
    <3> QED
      BY <2>6, <3>1, MulMonotone
  <2>8. /\ (c * e) * h = (b * e) * (h + 1)
        /\ ((e + k) * (h + 1)) * a = (a * (e + k)) * (h + 1)
        /\ ((e + k + 1) * h) * a = (a * (e + k + 1)) * h
    <3>1. (c * e) * h = (c * h) * e /\ (b * (h + 1)) * e = (b * e) * (h + 1)
      BY <1>1, <2>2, <2>3 DEF Pos
    <3>2. ((e + k) * (h + 1)) * a = (a * (e + k)) * (h + 1)
      BY <1>1, <2>1, <2>3 DEF Pos
    <3>3. ((e + k + 1) * h) * a = (a * (e + k + 1)) * h
      BY <1>1, <2>1, <2>3 DEF Pos
    <3> QED
      BY <2>2, <3>1, <3>2, <3>3
  <2> DEFINE u == c * e
             v == a * (e + k + 1)
  <2>9. u \in Int /\ v \in Int
    BY <1>1, <2>1, <2>2 DEF Pos
  <2>10. u * h >= v * h
    <3>1. /\ u * h \in Int /\ v * h \in Int /\ (a * (e + k)) * (h + 1) \in Int
      <4>1. a * (e + k) \in Int
        BY <1>1, <2>1 DEF Pos
      <4> QED
        BY <2>3, <2>9, <4>1 DEF Pos
    <3> QED
      BY <2>5, <2>7, <2>8, <3>1
  <2> HIDE DEF u, v
  <2>11. u >= v
    <3>1. ~(u < v)
      BY <2>3, <2>9, <2>10, MulStrict DEF Pos
    <3> QED
      BY <2>9, <3>1
  <2>12. e + k + 1 = e + (k + 1) /\ k + 1 \in 0 .. n
    BY <1>1, <2>1 DEF Pos
  <2> QED
    BY <2>11, <2>12 DEF u, v, c
<1>4. n \in S
  <2> HIDE DEF S
  <2>1. 0 .. n \subseteq S
    <3>1. \A k \in 0 .. n - 1 : k \in S => k + 1 \in S
      BY <1>3
    <3> QED
      BY <1>2, <3>1, Induction
  <2> QED
    BY <2>1
<1> QED
  BY <1>4

\* Taking g out of side 2 makes it worth at most as much less as the price says.
LEMMA WorthFalls ==
    ASSUME NEW f, Worth(f), NEW q \in Balances, NEW g \in 0 .. traded(q) - 1
    PROVE  /\ q - g \in Balances
           /\ f[q - g] * traded(q) >= f[q] * (traded(q) - g)
<1> DEFINE e == traded(q)
           a == f[q]
           S == {k \in 0 .. g : f[q - k] * e >= a * (e - k)}
<1>0. q \in Pos /\ U64Max \in Nat
  BY ConstantProductMathAssumption DEF Balances, Pos
<1>1. e \in Pos /\ a \in Pos /\ e <= q /\ g \in Nat /\ g < e
  BY <1>0, TradedFacts DEF Worth, Pos
<1>2. 0 \in S
  <2>1. q - 0 = q /\ e - 0 = e /\ a * e \in Int /\ 0 \in 0 .. g
    BY <1>0, <1>1 DEF Pos
  <2> HIDE DEF e, a
  <2>2. f[q] * e = a * e /\ a * e >= a * e
    BY <2>1 DEF a
  <2> QED
    BY <2>1, <2>2
<1>3. ASSUME NEW k \in 0 .. g - 1, k \in S PROVE k + 1 \in S
  <2> DEFINE p == q - (k + 1)
             h == traded(p)
             b == f[q - k]
             c == f[p]
  <2>1. /\ p \in Balances /\ p \in 1 .. 2 * U64Max - 1 /\ p + 1 = q - k
        /\ q - k \in Balances /\ k \in Nat /\ p \in Pos /\ k + 1 < e /\ q = p + (k + 1)
    BY <1>0, <1>1 DEF Balances, Pos
  <2>2. b * h = c * (h + 1) /\ b \in Pos /\ c \in Pos
    <3>1. f[p + 1] * h = c * (h + 1)
      BY <2>1 DEF Worth
    <3> HIDE DEF p
    <3> QED
      BY <2>1, <3>1 DEF Worth
  <2>3. h \in Pos /\ e <= h + (k + 1)
    <3> HIDE DEF p
    <3>1. k + 1 \in Nat /\ h \in Pos
      BY <2>1, TradedFacts
    <3>2. traded(p + (k + 1)) <= h + (k + 1)
      BY <2>1, <3>1, TradedFacts
    <3> QED
      BY <2>1, <3>1, <3>2
  <2>4. b * e >= a * (e - k)
    BY <1>3
  <2> HIDE DEF a, b, c, e, h, p
  <2> DEFINE j == e - k
  <2>5. j \in Int /\ j - 1 \in Int /\ j - 1 <= h /\ e - (k + 1) = j - 1
    BY <1>1, <2>1, <2>3 DEF Pos
  <2> HIDE DEF j
  <2>6. (b * e) * h >= (a * j) * h
    <3>1. a * j \in Int /\ b * e \in Int /\ h \in Nat
      BY <1>1, <2>2, <2>3, <2>5 DEF Pos
    <3>2. a * j <= b * e
      BY <2>4, <3>1 DEF j
    <3> QED
      BY <3>1, <3>2, MulMonotone
  <2>7. j * h >= (j - 1) * (h + 1)
    <3>1. (j - 1) * (h + 1) = j * h + (j - 1 - h) /\ j * h \in Int
      BY <2>3, <2>5 DEF Pos
    <3> QED
      BY <2>3, <2>5, <3>1 DEF Pos
  <2>8. (j * h) * a >= ((j - 1) * (h + 1)) * a
    <3>1. j * h \in Int /\ (j - 1) * (h + 1) \in Int /\ a \in Nat
      BY <1>1, <2>3, <2>5 DEF Pos
    <3> QED
      BY <2>7, <3>1, MulMonotone
  <2>9. /\ (b * e) * h = (c * e) * (h + 1)
        /\ (j * h) * a = (a * j) * h
        /\ ((j - 1) * (h + 1)) * a = (a * (j - 1)) * (h + 1)
    <3>1. (b * e) * h = (b * h) * e /\ (c * (h + 1)) * e = (c * e) * (h + 1)
      BY <1>1, <2>2, <2>3 DEF Pos
    <3>2. (j * h) * a = (a * j) * h
      BY <1>1, <2>3, <2>5 DEF Pos
    <3>3. ((j - 1) * (h + 1)) * a = (a * (j - 1)) * (h + 1)
      BY <1>1, <2>3, <2>5 DEF Pos
    <3> QED
      BY <2>2, <3>1, <3>2, <3>3
  <2> DEFINE u == c * e
             v == a * (j - 1)
             w == h + 1
  <2>10. u \in Int /\ v \in Int /\ w \in Pos
    BY <1>1, <2>2, <2>3, <2>5 DEF Pos
  <2>11. u * w >= v * w
    <3>1. u * w \in Int /\ v * w \in Int /\ (a * j) * h \in Int
      <4>1. a * j \in Int /\ h \in Int
        BY <1>1, <2>3, <2>5 DEF Pos
      <4> HIDE DEF u, v, w
      <4> QED
        BY <2>10, <4>1 DEF Pos
    <3> QED
      BY <2>6, <2>8, <2>9, <3>1
  <2> HIDE DEF u, v, w
  <2>12. u >= v
    <3>1. ~(u < v)
      <4> SUFFICES ASSUME u < v PROVE FALSE
        OBVIOUS
      <4>1. u * w < v * w
        BY <2>10, MulStrict
      <4>2. u * w \in Int /\ v * w \in Int
        BY <2>10 DEF Pos
      <4> QED
        BY <2>11, <4>1, <4>2
    <3> QED
      BY <2>10, <3>1
  <2>13. f[q - (k + 1)] * e >= a * (e - (k + 1))
    BY <2>5, <2>12 DEF u, v, c, p
  <2>14. k + 1 \in 0 .. g
    BY <1>1
  <2> QED
    BY <2>13, <2>14
<1>4. g \in S
  <2> HIDE DEF S
  <2>1. 0 .. g \subseteq S
    <3>1. \A k \in 0 .. g - 1 : k \in S => k + 1 \in S
      BY <1>3
    <3> QED
      BY <1>1, <1>2, <3>1, Induction
  <2> QED
    BY <1>1, <2>1
<1>5. q - g \in Balances
  BY <1>0, <1>1 DEF Balances, Pos
<1> QED
  BY <1>4, <1>5

\* A greater balance is worth more.
LEMMA WorthGrows ==
    ASSUME NEW f, Worth(f), NEW p \in Balances, NEW q \in Balances, p < q
    PROVE  f[p] < f[q]
<1> DEFINE n == q - p
           e == traded(p)
           a == f[p]
           b == f[q]
<1>1. n \in Pos /\ n \in Nat /\ p + n = q /\ p \in Pos
  BY ConstantProductMathAssumption DEF Balances, Pos
<1>2. b * e >= a * (e + n) /\ a \in Pos /\ b \in Pos /\ e \in Pos
  <2> HIDE DEF n
  <2>1. f[p + n] * traded(p) >= f[p] * (traded(p) + n)
    BY <1>1, WorthRises
  <2> QED
    BY <1>1, <2>1, TradedFacts DEF Worth
<1> HIDE DEF a, b, e, n
<1>3. a * (e + n) = a * e + a * n /\ a * n \in Pos /\ a * e \in Int /\ b * e \in Int
  BY <1>1, <1>2 DEF Pos
<1>4. ~(b <= a)
  <2> SUFFICES ASSUME b <= a PROVE FALSE
    OBVIOUS
  <2>1. b * e <= a * e
    BY <1>2, MulMonotone DEF Pos
  <2> QED
    BY <1>2, <1>3, <2>1 DEF Pos
<1> QED
  BY <1>2, <1>4 DEF a, b, Pos

\* The curve keeps the product of the reserves.
LEMMA CurveKeepsProduct ==
    ASSUME NEW Ri \in Pos, NEW Ro \in Pos, NEW n \in Nat
    PROVE  (Ri + n) * (Ro - curve(Ri, Ro, n)) >= Ri * Ro
<1> DEFINE d == Ri + n
           m == Ro * n
           g == curve(Ri, Ro, n)
<1>1. d \in Pos /\ m \in Nat
  BY MulIsNat DEF Pos
<1>2. g \in Nat /\ g * d <= m
  <2>1. g = m \div d
    BY DEF curve
  <2> HIDE DEF d, m, g
  <2> QED
    BY <1>1, <2>1, DivFacts, FloorIsGreatest
<1> HIDE DEF g
<1>3. d * (Ro - g) = Ri * Ro + m - g * d /\ g * d \in Int /\ Ri * Ro \in Int
  <2>1. d * (Ro - g) = d * Ro - g * d /\ g * d \in Int /\ d * Ro \in Int
    <3> HIDE DEF d
    <3> QED
      BY <1>1, <1>2 DEF Pos
  <2>2. d * Ro = Ri * Ro + m /\ Ri * Ro \in Int
    BY DEF Pos
  <2> HIDE DEF d, m
  <2> QED
    BY <1>1, <2>1, <2>2
<1>4. d * (Ro - g) >= Ri * Ro
  <2> HIDE DEF d, m
  <2> QED
    BY <1>1, <1>2, <1>3
<1> QED
  BY <1>4 DEF g

\* Multiplying two bounds through, and dividing by what they share.
LEMMA BoundsCompose ==
    ASSUME NEW a \in Pos, NEW b \in Pos, NEW c \in Pos, NEW e \in Pos, NEW w \in Pos,
           NEW x \in Pos, NEW j \in Nat, NEW z \in Int,
           b * e >= a * j, w * j >= x * e, b <= c, z >= w
    PROVE  z * c >= x * a
<1>1. /\ (b * e) * w >= (a * j) * w
      /\ (w * j) * a >= (x * e) * a
  <2>1. a * j \in Int /\ b * e \in Int /\ w * j \in Int /\ x * e \in Int /\ w \in Nat /\ a \in Nat
    BY DEF Pos
  <2>2. (a * j) * w <= (b * e) * w
    BY <2>1, MulMonotone
  <2>3. (x * e) * a <= (w * j) * a
    BY <2>1, MulMonotone
  <2> QED
    BY <2>1, <2>2, <2>3
<1> DEFINE p == w * b
           q == x * a
<1>2. /\ (b * e) * w = p * e /\ (x * e) * a = q * e /\ (w * j) * a = (a * j) * w
      /\ p \in Int /\ q \in Int
  BY DEF Pos
<1>3. p * e >= q * e
  <2>1. (a * j) * w \in Int
    BY DEF Pos
  <2>2. p * e \in Int /\ q * e \in Int
    <3> HIDE DEF p, q
    <3> QED
      BY <1>2 DEF Pos
  <2> HIDE DEF p, q
  <2> QED
    BY <1>1, <1>2, <2>1, <2>2
<1>4. p >= q
  <2> HIDE DEF p, q
  <2> SUFFICES ASSUME p < q PROVE FALSE
    BY <1>2
  <2>1. p * e < q * e
    BY <1>2, MulStrict
  <2> QED
    BY <1>2, <1>3, <2>1 DEF Pos
<1>5. w * c >= p /\ z * c >= w * c
  <2>1. b * w <= c * w
    BY MulMonotone DEF Pos
  <2>2. w * c <= z * c
    BY MulMonotone DEF Pos
  <2>3. b * w = p /\ c * w = w * c /\ z * c \in Int /\ w * c \in Int
    BY DEF Pos
  <2> HIDE DEF p
  <2> QED
    BY <1>2, <2>1, <2>2, <2>3
<1> HIDE DEF p
<1>6. z * c \in Int /\ w * c \in Int
  BY DEF Pos
<1> QED
  BY <1>2, <1>4, <1>5, <1>6

\* What a pool is worth with the balances x and y does not fall when it takes in n of
\* either side, or more, and gives out what the curve pays for n, or less.
LEMMA SellKeepsWorth ==
    ASSUME NEW f, Worth(f), NEW x \in Pos, NEW y \in Balances, NEW n \in Nat,
           NEW z \in Int, NEW t \in Balances,
           z >= x + n, t >= y - curve(x, traded(y), n)
    PROVE  z * f[t] >= x * f[y]
<1> DEFINE e == traded(y)
           g == curve(x, e, n)
           a == f[y]
           b == f[y - g]
           c == f[t]
<1>1. y \in Pos /\ e \in Pos
  <2>1. y \in Pos
    BY ConstantProductMathAssumption DEF Balances, Pos
  <2> QED
    BY <2>1, TradedFacts
<1>2. g \in 0 .. e - 1
  <2> HIDE DEF e
  <2> QED
    BY <1>1, CurveFits
<1>3. y - g \in Balances /\ b * e >= a * (e - g)
  <2> HIDE DEF g
  <2> QED
    BY <1>2, WorthFalls
<1>4. (x + n) * (e - g) >= x * e
  <2> HIDE DEF e
  <2> QED
    BY <1>1, CurveKeepsProduct
<1>5. a \in Pos /\ b \in Pos /\ c \in Pos
  BY <1>3 DEF Worth
<1>6. b <= c
  <2>1. t = y - g \/ y - g < t
    BY <1>3 DEF Balances
  <2>2. y - g < t => b < c
    <3> HIDE DEF g
    <3> QED
      BY <1>3, WorthGrows
  <2> HIDE DEF g
  <2> QED
    BY <1>5, <2>1, <2>2 DEF Pos
<1> HIDE DEF a, b, c, e, g
<1> DEFINE w == x + n
           j == e - g
<1>7. w \in Pos /\ j \in Nat
  BY <1>1, <1>2 DEF Pos
<1>8. b * e >= a * j /\ w * j >= x * e /\ z >= w
  BY <1>3, <1>4
<1> HIDE DEF w, j
<1>9. z * c >= x * a
  <2>1. /\ a \in Pos /\ b \in Pos /\ c \in Pos /\ e \in Pos /\ w \in Pos /\ j \in Nat
        /\ b * e >= a * j /\ w * j >= x * e /\ b <= c /\ z >= w
    BY <1>1, <1>5, <1>6, <1>7, <1>8, Zenon
  <2> QED
    BY <2>1, BoundsCompose
<1> QED
  BY <1>9 DEF a, c

LEMMA BuyKeepsWorth ==
    ASSUME NEW f, Worth(f), NEW x \in Pos, NEW y \in Balances, NEW n \in Nat,
           NEW z \in Int, NEW t \in Balances,
           t >= y + n, z >= x - curve(traded(y), x, n)
    PROVE  z * f[t] >= x * f[y]
<1> DEFINE e == traded(y)
           g == curve(e, x, n)
           a == f[y]
           b == f[y + n]
           c == f[t]
<1>1. y \in Pos /\ e \in Pos
  <2>1. y \in Pos
    BY ConstantProductMathAssumption DEF Balances, Pos
  <2> QED
    BY <2>1, TradedFacts
<1>2. g \in 0 .. x - 1
  <2> HIDE DEF e
  <2> QED
    BY <1>1, CurveFits
<1>3. y + n \in Balances
  BY ConstantProductMathAssumption DEF Balances
<1>m. b * e >= a * (e + n)
  BY <1>3, WorthRises
<1>4. (e + n) * (x - g) >= e * x
  <2> HIDE DEF e
  <2> QED
    BY <1>1, CurveKeepsProduct
<1>5. a \in Pos /\ b \in Pos /\ c \in Pos
  BY <1>3 DEF Worth
<1>6. b <= c
  <2>1. t = y + n \/ y + n < t
    BY <1>3 DEF Balances
  <2>2. y + n < t => b < c
    BY <1>3, WorthGrows
  <2> QED
    BY <1>5, <2>1, <2>2 DEF Pos
<1> HIDE DEF a, b, c, e, g
<1> DEFINE w == x - g
           j == e + n
<1>7. w \in Pos /\ j \in Pos
  BY <1>1, <1>2 DEF Pos
<1>8. b * e >= a * j /\ w * j >= x * e /\ z >= w
  <2>1. z >= w
    BY DEF g, e
  <2>2. w * j = j * w /\ e * x = x * e
    BY <1>1, <1>7 DEF Pos
  <2>3. b * e >= a * j
    BY <1>m
  <2>4. j * w >= e * x
    BY <1>4
  <2> HIDE DEF w, j
  <2> QED
    BY <2>1, <2>2, <2>3, <2>4
<1> HIDE DEF w, j
<1>9. z * c >= x * a
  <2>1. j \in Nat
    BY <1>7 DEF Pos
  <2> QED
    <3>1. /\ a \in Pos /\ b \in Pos /\ c \in Pos /\ e \in Pos /\ w \in Pos
          /\ b * e >= a * j /\ w * j >= x * e /\ b <= c /\ z >= w
      BY <1>1, <1>5, <1>6, <1>7, <1>8, Zenon
    <3> QED
      BY <2>1, <3>1, BoundsCompose
<1> QED
  BY <1>9 DEF a, c

-----------------------------------------------------------------------------
\* What a swap leaves in the books

\* A trader pays for all that stays in the pool and wins no more than what leaves it; what
\* leaves it, fees included, is at most what the curve pays for a part of what stays.
LEMMA SettlementIsCurve ==
    ASSUME NEW qt, Rated(qt), Filled(qt), NEW a \in u64, NEW i \in 1 .. 2, NEW takes \in BOOLEAN,
           Settlement(qt, a, i, 3 - i, takes).out > 0
    PROVE  LET m == Settlement(qt, a, i, 3 - i, takes)
           IN  /\ m.in <= a /\ m.out \in Nat /\ m.out <= m.paid
               /\ \E n \in Nat : /\ n <= m.in - m.feeIn
                                 /\ m.paid + m.feeOut <= curve(qt.reserves[i], qt.reserves[3 - i], n)
<1> DEFINE o   == 3 - i
           Ri  == qt.reserves[i]
           Ro  == qt.reserves[o]
           out == QuoteExactIn(qt, a, i = 1)
           m   == Settlement(qt, a, i, o, takes)
<1> SUFFICES /\ m.in <= a /\ m.out \in Nat /\ m.out <= m.paid
             /\ \E n \in Nat : n <= m.in - m.feeIn /\ m.paid + m.feeOut <= curve(Ri, Ro, n)
  OBVIOUS
<1>1. o \in 1 .. 2 /\ (i = 1 <=> o = 2) /\ (IF i = 1 THEN 1 ELSE 2) = i
      /\ (IF i = 1 THEN 2 ELSE 1) = o
  OBVIOUS
<1>2. Ri \in Pos /\ Ro \in 1 .. U64Max /\ Ro \in Pos /\ a \in Nat
  BY <1>1, ConstantProductMathAssumption DEF Filled, Pos, u64
<1>3. out \in Nat
  <2> DEFINE b == i = 1
  <2>1. b \in BOOLEAN /\ (IF b THEN 2 ELSE 1) = o
    BY <1>1
  <2> HIDE DEF b
  <2>2. QuoteExactIn(qt, a, b) \in 0 .. qt.reserves[IF b THEN 2 ELSE 1] - 1
    BY <2>1, QuoteFits
  <2>3. qt.reserves[IF b THEN 2 ELSE 1] = Ro
    BY <2>1
  <2> HIDE DEF Ro
  <2>4. QuoteExactIn(qt, a, b) \in 0 .. Ro - 1
    BY <2>2, <2>3
  <2> QED
    BY <1>2, <2>4 DEF b, Pos
<1>4. CASE qt.venue = "cpmm"
  <2> DEFINE t == qt.tradeFeeRate
             c == qt.creatorFeeRate
             b == CreatorFeeOnInput(qt.creatorFeeOn, i = 1)
             rate == inputFeeRate(t, c, b)
             s == swapped(Ri, Ro, a, rate)
             f == ceilFee(a, rate)
             n == a - f
  <2>1. t \in Nat /\ c \in Nat /\ qt.creatorFeeOn \in CreatorFeeModes
    BY <1>4 DEF Rated
  <2>2. b \in BOOLEAN
    BY <2>1 DEF CreatorFeeModes, CreatorFeeOnInput
  <2>3. out = SwapBaseInput(Ri, Ro, a, t, c, b)
    BY <1>1, <1>4 DEF QuoteExactIn, RaydiumCPMM
  <2>4. m = [in |-> a, out |-> out, paid |-> out, feeIn |-> IF takes THEN f ELSE 0, feeOut |-> s - out]
    BY <1>4 DEF Settlement
  <2>5. m.out > 0
    OBVIOUS
  <2>6. s = IF n <= 0 THEN 0 ELSE curve(Ri, Ro, n)
    BY DEF swapped
  <2> HIDE DEF t, c, b, m, out, Ri, Ro
  <2>7. out \in 0 .. s /\ s \in 0 .. Ro - 1 /\ f \in Nat /\ (out > 0 => f <= a)
    BY <1>2, <2>1, <2>2, <2>3, SwapBaseInputFits
  <2> HIDE DEF s, f
  <2>8. /\ m.in = a /\ m.out = out /\ m.paid = out /\ m.feeIn = (IF takes THEN f ELSE 0)
        /\ m.feeOut = s - out
    BY <2>4
  <2>9. s \in Nat /\ s > 0
    BY <1>2, <2>5, <2>7, <2>8 DEF Pos
  <2>10. n \in Nat /\ s = curve(Ri, Ro, n)
    BY <1>2, <2>6, <2>7, <2>9
  <2>11. n <= m.in - m.feeIn /\ m.paid + m.feeOut = s
    BY <1>2, <1>3, <2>7, <2>8, <2>9
  <2> HIDE DEF n
  <2>12. \E k \in Nat : k <= m.in - m.feeIn /\ m.paid + m.feeOut <= curve(Ri, Ro, k)
    BY <2>9, <2>10, <2>11
  <2> QED
    BY <1>2, <1>3, <2>8, <2>12
<1>5. CASE qt.venue = "ammv4"
  <2> DEFINE p == qt.fee[1]
             d == qt.fee[2]
             f == ceilDiv(a * p, d)
             n == a - f
  <2>1. p \in Nat /\ d \in Pos
    BY <1>5 DEF Rated
  <2>2. out = SwapBaseIn(Ri, Ro, a, p, d)
    BY <1>1, <1>5 DEF QuoteExactIn, RaydiumAMMV4
  <2>3. m = [in |-> a, out |-> out, paid |-> out, feeIn |-> IF takes THEN f ELSE 0, feeOut |-> 0]
    BY <1>5 DEF Settlement
  <2>4. m.out > 0
    OBVIOUS
  <2>5. SwapBaseIn(Ri, Ro, a, p, d) = IF n <= 0 THEN 0 ELSE curve(Ri, Ro, n)
    <3>1. d # 0
      BY <2>1 DEF Pos
    <3> QED
      BY <3>1, Zenon DEF SwapBaseIn
  <2> HIDE DEF p, d, m, out, Ri, Ro
  <2>6. f \in Nat /\ (out > 0 => f <= a)
    BY <1>2, <2>1, <2>2, SwapBaseInFits
  <2> HIDE DEF f
  <2>7. m.in = a /\ m.out = out /\ m.paid = out /\ m.feeIn = (IF takes THEN f ELSE 0) /\ m.feeOut = 0
    BY <2>3
  <2>8. n \in Nat /\ out = curve(Ri, Ro, n)
    BY <1>2, <2>2, <2>4, <2>5, <2>6, <2>7
  <2>9. n <= m.in - m.feeIn /\ m.paid + m.feeOut = out
    BY <1>2, <1>3, <2>6, <2>7
  <2> HIDE DEF n
  <2>10. \E k \in Nat : k <= m.in - m.feeIn /\ m.paid + m.feeOut <= curve(Ri, Ro, k)
    BY <1>3, <2>8, <2>9
  <2> QED
    BY <1>2, <1>3, <2>7, <2>10
<1>6. CASE qt.venue \in {"pump", "curve"}
  <2> DEFINE f == qt.feeBps
             g == curve(qt.reserves[1], qt.reserves[2], a)
             e == effectiveIn(a, f)
             in == IF i = 2 /\ takes THEN e ELSE a
             paid == IF i = 1 /\ takes THEN g ELSE out
  <2>1. f \in 0 .. BpsDenominator
    BY <1>6 DEF Rated
  <2>2. m = [in |-> in, out |-> out, paid |-> paid, feeIn |-> 0, feeOut |-> 0]
    BY <1>6 DEF Settlement
  <2>3. CASE i = 1
    <3>1. out = SellExactIn(Ri, Ro, a, f) /\ g = curve(Ri, Ro, a)
      BY <1>1, <1>6, <2>3 DEF QuoteExactIn, Pump, PumpBondingCurve, CurveSellExactIn
    <3>2. in = a
      BY <2>3
    <3>3. out \in 0 .. g /\ g \in Nat
      <4> HIDE DEF f, g, out, Ri, Ro
      <4>1. out \in 0 .. g /\ g \in 0 .. Ro - 1
        BY <1>2, <2>1, <3>1, SellFits
      <4> QED
        BY <1>2, <4>1 DEF Pos
    <3>4. paid = g \/ paid = out
      OBVIOUS
    <3> HIDE DEF in, paid, out, g, m, Ri, Ro
    <3>5. m.in = in /\ m.out = out /\ m.paid = paid /\ m.feeIn = 0 /\ m.feeOut = 0
      BY <2>2
    <3>6. a <= m.in - m.feeIn /\ m.paid + m.feeOut <= curve(Ri, Ro, a)
      BY <1>2, <3>1, <3>2, <3>3, <3>4, <3>5
    <3>7. \E n \in Nat : n <= m.in - m.feeIn /\ m.paid + m.feeOut <= curve(Ri, Ro, n)
      BY <1>2, <3>6
    <3>8. m.out <= m.paid
      BY <1>3, <3>3, <3>4, <3>5
    <3> QED
      BY <1>2, <1>3, <3>2, <3>5, <3>7, <3>8
  <2>4. CASE i = 2
    <3>1. out = BuyExactIn(Ri, Ro, a, f) /\ paid = out /\ (in = e \/ in = a)
      BY <1>1, <1>6, <2>4 DEF QuoteExactIn, Pump, PumpBondingCurve, CurveBuyExactIn
    <3> HIDE DEF f, in, paid, out, g, m, Ri, Ro
    <3>2. e \in 0 .. a /\ BuyExactIn(Ri, Ro, a, f) = curve(Ri, Ro, e)
      BY <1>2, <2>1, BuyFits
    <3> HIDE DEF e
    <3>3. m.in = in /\ m.out = out /\ m.paid = paid /\ m.feeIn = 0 /\ m.feeOut = 0
      BY <2>2
    <3>4. e \in Nat /\ e <= m.in - m.feeIn /\ m.in <= a
      BY <1>2, <3>1, <3>2, <3>3
    <3>5. \E n \in Nat : n <= m.in - m.feeIn /\ m.paid + m.feeOut <= curve(Ri, Ro, n)
      BY <1>3, <3>1, <3>2, <3>3, <3>4
    <3> QED
      BY <1>3, <3>1, <3>3, <3>4, <3>5
  <2> QED
    BY <2>3, <2>4
<1>7. CASE qt.venue = "fluxbeam"
  <2> DEFINE g == FluxBeamGross(qt, a, i, o)
             in == afterTransfer(qt.transferFee[i], qt.epoch, a)
             c == qt.transferFee[o]
             e == qt.epoch
  <2>1. m = [in |-> in, out |-> out, paid |-> g, feeIn |-> 0, feeOut |-> 0]
    BY <1>7 DEF Settlement
  <2>2. /\ g \in 0 .. Ro - 1 /\ in \in 0 .. a
        /\ g > 0 => \E n \in 0 .. in : g = curve(Ri, Ro, n)
    <3> HIDE DEF o
    <3> QED
      BY <1>1, <1>7, FluxBeamGrossFits DEF Ro
  <2>3. c \in {Nothing} \cup TransferFees /\ e \in Nat
    BY <1>1, <1>7 DEF Rated
  <2>4. out = afterTransfer(c, e, g)
    BY <1>1, <1>7 DEF QuoteExactIn, FluxBeam
  <2>5. m.out > 0
    OBVIOUS
  <2> HIDE DEF g, in, out, Ri, Ro, m, c, e
  <2>6. g \in u64 /\ g \in Nat
    BY <1>2, <2>2, ConstantProductMathAssumption DEF u64, Pos
  <2>7. out \in 0 .. g
    BY <2>3, <2>4, <2>6, TransferFits
  <2>8. m.in = in /\ m.out = out /\ m.paid = g /\ m.feeIn = 0 /\ m.feeOut = 0
    BY <2>1
  <2>9. g > 0
    BY <2>5, <2>6, <2>7, <2>8
  <2>10. PICK n \in 0 .. in : g = curve(Ri, Ro, n)
    BY <2>2, <2>9
  <2>11. n \in Nat /\ n <= m.in - m.feeIn /\ m.paid + m.feeOut <= curve(Ri, Ro, n)
    BY <1>2, <2>2, <2>6, <2>8, <2>10
  <2>12. m.out \in Nat /\ m.out <= m.paid /\ m.in <= a
    BY <1>2, <1>3, <2>2, <2>6, <2>7, <2>8
  <2> QED
    BY <2>11, <2>12
<1> QED
  BY <1>4, <1>5, <1>6, <1>7 DEF Rated

\* What a pool may trade of its token i: a vault less the fees set aside in it, a virtual
\* reserve, or a vault with one.
book(w, d, v, i) ==
    CASE w.owner = "cpmm"  -> v[i] - setAside(d.fees[i])
      [] w.owner = "ammv4" -> v[i] - d.pnl[i]
      [] w.owner = "curve" -> d.virtual[i]
      [] w.owner = "pump" /\ i = 2 -> v[2] + carried(w.data, 261, w.data.virtualQuote, 0)
      [] OTHER -> v[i]

Book(i)  == book(world, data, vault, i)
First(i) == book(world, world.data, world.vault, i)

LEMMA Saturation ==
    /\ U64Max \in Nat /\ U64Max >= 1
    /\ \A q \in 1 .. U64Max : q \in Balances /\ q \in Pos /\ traded(q) = q
  BY ConstantProductMathAssumption DEF Balances, Pos, traded, lesser

\* A virtual quote reserve that decodes fits an i64 (pump_amm.go).
LEMMA PumpVirtualFits ==
    ASSUME NEW w \in Worlds, w.owner = "pump", NEW x, FromAccount(w.owner, w.data, x) # Nothing
    PROVE  LET pool == DecodePumpPool(w.data)
               v    == carried(w.data, 261, w.data.virtualQuote, 0)
           IN  /\ FromAccount(w.owner, w.data, x) = FromPumpPool(pool, x)
               /\ v \in Int /\ v <= I64Max /\ pool.virtualQuote = v
<1> DEFINE d    == w.data
           pool == DecodePumpPool(d)
           v    == carried(d, 261, d.virtualQuote, 0)
           qt   == FromAccount(w.owner, d, x)
<1>1. qt = IF pool = Nothing THEN Nothing ELSE FromPumpPool(pool, x)
  BY DEF FromAccount
<1>2. pool # Nothing /\ qt = FromPumpPool(pool, x)
  BY <1>1, Zenon
<1>3. /\ ~(d.len < 211 \/ d.disc # "Pool" \/ v \notin -I64Max - 1 .. I64Max)
      /\ pool = [graduate      |-> d.graduate,
                 quoteMint     |-> d.quoteMint,
                 coinCreator   |-> carried(d, 243, d.coinCreator, FALSE),
                 virtualQuote  |-> v,
                 creatorFeeBps |-> carried(d, 269, d.creatorFeeBps, 0)]
  <2>1. ~PumpPoolShort(d) /\ pool = PumpPoolOf(d)
    BY <1>2, PumpPoolDecodes
  <2> HIDE DEF pool
  <2> QED
    BY <2>1, Zenon DEF PumpPoolShort, PumpPoolOf
<1>4. v \in Int
  <2>1. d \in PumpData
    BY WorldAssumption
  <2> QED
    BY <2>1 DEF carried, PumpData
<1> HIDE DEF v, pool, qt
<1>5. I64Max \in Int
  BY ConstantProductMathAssumption DEF I64Max
<1>6. v <= I64Max /\ pool.virtualQuote = v
  BY <1>3, <1>4, <1>5
<1> QED
  BY <1>2, <1>4, <1>6 DEF v, pool, qt

\* A quoter of a pool as it is trades its books.
LEMMA QuoterTradesBooks ==
    ASSUME ChainInv, NEW x, AuxFor(world, x), x.vault = vault,
           FromAccount(world.owner, data, x) # Nothing
    PROVE  LET qt == FromAccount(world.owner, data, x)
           IN  /\ Book(1) \in Pos /\ Book(2) \in Balances
               /\ qt.reserves[1] = Book(1) /\ qt.reserves[2] = traded(Book(2))
<1> DEFINE qt == FromAccount(world.owner, data, x)
           R  == qt.reserves
<1>1. world \in Worlds /\ DataOf(world, data)
  BY DEF ChainInv
<1>2. Sound(world, qt, x)
  BY <1>1, FromAccountIsSound
<1>3. /\ R[1] \in 1 .. U64Max /\ R[2] \in 1 .. U64Max
      /\ vault[1] \in Nat /\ vault[2] \in u64 /\ vault[2] \in Nat
  BY <1>2, ConstantProductMathAssumption DEF Sound, Filled, ChainInv, u64
<1>4. (\A i \in 1 .. 2 : Book(i) = R[i]) =>
          /\ Book(1) \in Pos /\ Book(2) \in Balances
          /\ R[1] = Book(1) /\ R[2] = traded(Book(2))
  <2> HIDE DEF R
  <2> QED
    BY <1>3, Saturation
<1>5. CASE world.owner = "cpmm"
  <2>1. \A i \in 1 .. 2 : R[i] + feesOwed(data, i) = vault[i]
    BY <1>1, <1>5, CPMMIsSound
  <2> HIDE DEF R
  <2>2. ASSUME NEW i \in 1 .. 2 PROVE Book(i) = R[i]
    <3>1. /\ data.fees[i].protocol \in Nat /\ data.fees[i].fund \in Nat /\ data.fees[i].creator \in Nat
          /\ feesOwed(data, i) = setAside(data.fees[i])
      BY <1>5, OwedIsSetAside
    <3>2. setAside(data.fees[i]) \in Nat
      BY <3>1 DEF setAside
    <3>3. Book(i) = vault[i] - setAside(data.fees[i])
      BY <1>5 DEF Book, book
    <3>4. R[i] + setAside(data.fees[i]) = vault[i] /\ R[i] \in Nat
      BY <1>3, <2>1, <3>1
    <3> QED
      BY <3>2, <3>3, <3>4
  <2> QED
    BY <1>4, <2>2 DEF R
<1>6. CASE world.owner = "ammv4"
  <2>1. \A i \in 1 .. 2 : R[i] + data.pnl[i] = vault[i]
    BY <1>1, <1>6, AMMV4IsSound
  <2> HIDE DEF R
  <2>2. ASSUME NEW i \in 1 .. 2 PROVE Book(i) = R[i]
    <3>1. data.pnl[i] \in Nat
      BY <1>1, <1>6 DEF DataOf, AMMV4Data
    <3>2. Book(i) = vault[i] - data.pnl[i]
      BY <1>6 DEF Book, book
    <3>3. R[i] + data.pnl[i] = vault[i] /\ R[i] \in Nat
      BY <1>3, <2>1
    <3> QED
      BY <3>1, <3>2, <3>3
  <2> QED
    BY <1>4, <2>2 DEF R
<1>7. CASE world.owner = "curve"
  <2>1. R = data.virtual
    BY <1>1, <1>7, CurveIsSound
  <2>2. \A i \in 1 .. 2 : Book(i) = R[i]
    BY <1>7, <2>1 DEF Book, book
  <2> QED
    BY <1>4, <2>2
<1>8. CASE world.owner = "fluxbeam"
  <2> DEFINE pool == DecodeFluxBeamPool(data)
  <2>1. qt = IF pool = Nothing THEN Nothing ELSE FromFluxBeamPool(pool, x)
    BY <1>8 DEF FromAccount
  <2>2. qt = FromFluxBeamPool(pool, x)
    BY <2>1, Zenon
  <2>3. qt = [venue |-> "fluxbeam", reserves |-> x.vault, curveType |-> pool.curveType,
              fees |-> pool.fees, transferFee |-> x.transferFee, epoch |-> x.now]
    BY <2>2, Zenon DEF FromFluxBeamPool
  <2>4. R = vault
    BY <2>3
  <2>5. \A i \in 1 .. 2 : Book(i) = R[i]
    BY <1>8, <2>4 DEF Book, book
  <2> QED
    BY <1>4, <2>5
<1>9. CASE world.owner = "pump"
  <2> DEFINE pool == DecodePumpPool(data)
             v    == carried(data, 261, data.virtualQuote, 0)
             E    == EffectiveQuoteReserve(pool, x.vault[2])
  <2>1. data = world.data
    BY <1>1, <1>9 DEF DataOf
  <2>2. qt = FromPumpPool(pool, x) /\ v \in Int /\ v <= I64Max /\ pool.virtualQuote = v
    BY <1>1, <1>9, <2>1, PumpVirtualFits
  <2>3. qt = [venue |-> "pump", reserves |-> <<x.vault[1], E>>,
              feeBps |-> PumpTotalFeeBps(x.config, x.feeConfig, pool, <<x.vault[1], E>>[1],
                                         <<x.vault[1], E>>[2], x.supply)]
    BY <2>2, Zenon DEF FromPumpPool
  <2>4. R[1] = vault[1] /\ R[2] = E
    <3> HIDE DEF E, pool
    <3> QED
      BY <2>3
  <2>5. Book(1) = vault[1] /\ Book(2) = vault[2] + v
    BY <1>9, <2>1 DEF Book, book
  <2>6. E = IF v < 0 THEN saturatingSub(vault[2], -v) ELSE lesser(vault[2] + v, U64Max)
    BY <2>2 DEF EffectiveQuoteReserve
  <2>7. I64Max \in Nat /\ I64Max <= U64Max
    BY ConstantProductMathAssumption DEF I64Max
  <2> HIDE DEF v, E, pool, R
  <2>8. E \in 1 .. U64Max /\ vault[2] + v \in Balances /\ E = traded(vault[2] + v)
    <3>1. CASE v < 0
      BY <1>3, <2>2, <2>4, <2>6, <3>1, ConstantProductMathAssumption
         DEF saturatingSub, Balances, traded, lesser, u64
    <3>2. CASE ~(v < 0)
      BY <1>3, <2>2, <2>4, <2>6, <2>7, <3>2, ConstantProductMathAssumption
         DEF Balances, traded, lesser, u64
    <3> QED
      BY <3>1, <3>2
  <2>9. Book(1) \in Pos
    BY <1>3, <2>4, <2>5, Saturation
  <2> QED
    BY <2>4, <2>5, <2>8, <2>9 DEF R
<1> QED
  BY <1>2, <1>5, <1>6, <1>7, <1>8, <1>9 DEF Sound, Rated

\* The books of a pool that is quoted never hold more than the balances that are worth
\* something.
LEMMA BooksFit ==
    ASSUME NEW w \in Worlds, NEW d, DataOf(w, d), NEW v \in [1 .. 2 -> u64],
           w.owner = "cpmm" => setAside(d.fees[2]) \in Nat,
           w.owner = "pump" => carried(w.data, 261, w.data.virtualQuote, 0) <= I64Max
    PROVE  w.owner \in {"cpmm", "ammv4", "pump", "curve", "fluxbeam"} =>
               book(w, d, v, 2) \in Int /\ book(w, d, v, 2) <= 2 * U64Max
<1>1. v[2] \in Nat /\ v[2] <= U64Max /\ U64Max \in Nat /\ I64Max \in Nat /\ I64Max <= U64Max
  BY ConstantProductMathAssumption DEF u64, I64Max
<1>2. CASE w.owner = "cpmm"
  BY <1>1, <1>2 DEF book
<1>3. CASE w.owner = "ammv4"
  <2>1. d.pnl[2] \in Nat
    BY <1>3 DEF DataOf, AMMV4Data
  <2> QED
    BY <1>1, <1>3, <2>1 DEF book
<1>4. CASE w.owner = "curve"
  <2>1. d.virtual[2] \in 0 .. U64Max
    BY <1>4 DEF DataOf, CurveData
  <2> QED
    BY <1>1, <1>4, <2>1 DEF book
<1>5. CASE w.owner = "pump"
  <2>1. w.data \in PumpData
    BY <1>5, WorldAssumption
  <2>2. carried(w.data, 261, w.data.virtualQuote, 0) \in Int
    BY <2>1 DEF carried, PumpData
  <2>3. book(w, d, v, 2) = v[2] + carried(w.data, 261, w.data.virtualQuote, 0)
    BY <1>5 DEF book
  <2> QED
    BY <1>1, <1>5, <2>2, <2>3
<1>6. CASE w.owner = "fluxbeam"
  BY <1>1, <1>6 DEF book
<1> QED
  BY <1>2, <1>3, <1>4, <1>5, <1>6

\* What SwapLands does to the chain.
Settles(qt, a, i, takes) ==
    LET m == Settlement(qt, a, i, 3 - i, takes)
    IN  /\ m.in \in Nat /\ m.paid \in Nat /\ m.feeIn \in Nat /\ m.feeOut \in Nat
        /\ vault' = [vault EXCEPT ![i] = @ + m.in, ![3 - i] = @ - m.paid]
        /\ data' = Settled(qt, m, i, 3 - i)
        /\ world' = world

\* The books follow a swap: what comes in less the fee of it, what goes out with the fee
\* of it.
LEMMA SwapMovesBooks ==
    ASSUME ChainInv, NEW qt, qt.venue = world.owner, NEW a \in u64, NEW i \in 1 .. 2, NEW takes,
           world.owner \in {"cpmm", "ammv4", "pump", "curve", "fluxbeam"},
           Settles(qt, a, i, takes)
    PROVE  LET m == Settlement(qt, a, i, 3 - i, takes)
           IN  /\ book(world, data', vault', i) = Book(i) + m.in - m.feeIn
               /\ book(world, data', vault', 3 - i) = Book(3 - i) - m.paid - m.feeOut
<1> DEFINE o      == 3 - i
           m      == Settlement(qt, a, i, o, takes)
           in     == m.in
           paid   == m.paid
           feeIn  == m.feeIn
           feeOut == m.feeOut
<1>1. /\ in \in Nat /\ paid \in Nat /\ feeIn \in Nat /\ feeOut \in Nat
      /\ vault' = [vault EXCEPT ![i] = @ + in, ![o] = @ - paid]
      /\ data' = Settled(qt, m, i, o)
      /\ world' = world
  BY DEF Settles
<1>2. o \in 1 .. 2 /\ i # o
  OBVIOUS
<1>3. /\ vault \in [1 .. 2 -> u64] /\ vault[i] \in Int /\ vault[o] \in Int /\ world \in Worlds
      /\ DataOf(world, data)
  BY <1>2, ConstantProductMathAssumption DEF ChainInv, u64
<1>4. world.owner \notin {"cpmm", "ammv4"} => feeIn = 0 /\ feeOut = 0
  BY DEF Settlement
<1>5. world.owner = "ammv4" => feeOut = 0
  BY DEF Settlement
<1> SUFFICES /\ book(world, data', vault', i) = Book(i) + in - feeIn
             /\ book(world, data', vault', o) = Book(o) - paid - feeOut
  OBVIOUS
<1> HIDE DEF m, in, paid, feeIn, feeOut, o
<1>7. vault'[i] = vault[i] + in /\ vault'[o] = vault[o] - paid
  BY <1>1, <1>2, <1>3
<1>8. CASE world.owner = "cpmm"
  <2>1. data \in CPMMData
    BY <1>3, <1>8 DEF DataOf
  <2>2. data' = [data EXCEPT !.fees[i].protocol = @ + feeIn, !.fees[o].creator = @ + feeOut]
    BY <1>1, <1>8 DEF Settled, feeIn, feeOut
  <2>3. /\ setAside(data.fees[i]) \in Nat /\ setAside(data.fees[o]) \in Nat
        /\ setAside(data'.fees[i]) = setAside(data.fees[i]) + feeIn
        /\ setAside(data'.fees[o]) = setAside(data.fees[o]) + feeOut
    <3>1. data' = charged(data, i, o, feeIn, feeOut)
      BY <2>2 DEF charged
    <3>2. feeIn \in Nat /\ feeOut \in Nat /\ o \in 1 .. 2 /\ i # o
      BY <1>1, <1>2
    <3>3. Charges(data, charged(data, i, o, feeIn, feeOut), i, o, feeIn, feeOut)
      BY <2>1, <3>2, FeesSetAside
    <3> QED
      BY <3>1, <3>3 DEF Charges
  <2>4. /\ book(world, data', vault', i) = vault'[i] - setAside(data'.fees[i])
        /\ book(world, data', vault', o) = vault'[o] - setAside(data'.fees[o])
        /\ Book(i) = vault[i] - setAside(data.fees[i])
        /\ Book(o) = vault[o] - setAside(data.fees[o])
    BY <1>8 DEF Book, book
  <2> QED
    BY <1>1, <1>3, <1>7, <2>3, <2>4
<1>9. CASE world.owner = "ammv4"
  <2>1. data \in AMMV4Data
    BY <1>3, <1>9 DEF DataOf
  <2>2. data' = [data EXCEPT !.pnl[i] = @ + feeIn]
    BY <1>1, <1>9 DEF Settled, feeIn
  <2>3. /\ data.pnl[i] \in Nat /\ data.pnl[o] \in Nat
        /\ data'.pnl[i] = data.pnl[i] + feeIn /\ data'.pnl[o] = data.pnl[o]
    BY <1>1, <1>2, <2>1, <2>2 DEF AMMV4Data
  <2>4. /\ book(world, data', vault', i) = vault'[i] - data'.pnl[i]
        /\ book(world, data', vault', o) = vault'[o] - data'.pnl[o]
        /\ Book(i) = vault[i] - data.pnl[i] /\ Book(o) = vault[o] - data.pnl[o]
    BY <1>9 DEF Book, book
  <2> QED
    BY <1>1, <1>3, <1>5, <1>7, <1>9, <2>3, <2>4
<1>10. CASE world.owner = "curve"
  <2>1. data \in CurveData
    BY <1>3, <1>10 DEF DataOf
  <2>2. data' = [data EXCEPT !.virtual[i] = @ + in, !.virtual[o] = @ - paid,
                             !.complete = o = 1 /\ vault[1] = paid]
    BY <1>1, <1>10 DEF Settled, in, paid
  <2>3. /\ data.virtual[i] \in Int /\ data.virtual[o] \in Int
        /\ data'.virtual[i] = data.virtual[i] + in /\ data'.virtual[o] = data.virtual[o] - paid
    <3> DEFINE done == o = 1 /\ vault[1] = paid
    <3>1. data' = [data EXCEPT !.virtual[i] = @ + in, !.virtual[o] = @ - paid, !.complete = done]
      BY <2>2
    <3> HIDE DEF done
    <3>2. data'.virtual = [data.virtual EXCEPT ![i] = @ + in, ![o] = @ - paid]
      BY <2>1, <3>1 DEF CurveData
    <3>3. data.virtual \in [1 .. 2 -> 0 .. U64Max]
      BY <2>1 DEF CurveData
    <3> QED
      BY <1>1, <1>2, <3>2, <3>3, ConstantProductMathAssumption
  <2>4. /\ book(world, data', vault', i) = data'.virtual[i]
        /\ book(world, data', vault', o) = data'.virtual[o]
        /\ Book(i) = data.virtual[i] /\ Book(o) = data.virtual[o]
    BY <1>10 DEF Book, book
  <2> QED
    BY <1>1, <1>4, <1>10, <2>3, <2>4
<1>11. CASE world.owner = "fluxbeam"
  <2>1. /\ book(world, data', vault', i) = vault'[i] /\ book(world, data', vault', o) = vault'[o]
        /\ Book(i) = vault[i] /\ Book(o) = vault[o]
    BY <1>11 DEF Book, book
  <2> QED
    BY <1>1, <1>3, <1>4, <1>7, <1>11, <2>1
<1>12. CASE world.owner = "pump"
  <2> DEFINE v == carried(world.data, 261, world.data.virtualQuote, 0)
  <2>1. v \in Int
    <3>1. world.data \in PumpData
      BY <1>3, <1>12, WorldAssumption
    <3> QED
      BY <3>1 DEF carried, PumpData
  <2>2. \A j \in 1 .. 2 :
            /\ book(world, data', vault', j) = IF j = 2 THEN vault'[2] + v ELSE vault'[j]
            /\ Book(j) = IF j = 2 THEN vault[2] + v ELSE vault[j]
    BY <1>12 DEF Book, book
  <2> HIDE DEF v
  <2> QED
    BY <1>1, <1>2, <1>3, <1>4, <1>7, <1>12, <2>1, <2>2
<1> QED
  BY <1>8, <1>9, <1>10, <1>11, <1>12

-----------------------------------------------------------------------------
\* No trader profits

\* A pool that started with the books p and q and now has x and y, of which traders have
\* won t: nothing came from elsewhere, and the books are worth no less than they were.
Priced(p, q, x, y, t) ==
    /\ p \in Pos /\ q \in Balances /\ x \in Pos /\ y \in Balances
    /\ t[1] \in Int /\ t[2] \in Int /\ t[1] + x <= p /\ t[2] + y <= q
    /\ \A f : Worth(f) => x * f[y] >= p * f[q]

\* Nothing is known of the books of a pool that was never quoted.
Fair(p, q, x, y, t) == (t = <<0, 0>> /\ x = p /\ y = q) \/ Priced(p, q, x, y, t)

FairInv == trader \in [1 .. 2 -> Int] /\ Fair(First(1), First(2), Book(1), Book(2), trader)

LEMMA FairIsPriced ==
    ASSUME NEW p, NEW q, NEW x \in Pos, NEW y \in Balances, NEW t, Fair(p, q, x, y, t)
    PROVE  Priced(p, q, x, y, t)
<1>1. CASE t = <<0, 0>> /\ x = p /\ y = q
  <2>1. ASSUME NEW f, Worth(f) PROVE x * f[y] >= p * f[q]
    <3>1. f[y] \in Pos
      BY <2>1 DEF Worth
    <3> DEFINE b == f[y]
    <3>2. b \in Pos
      BY <3>1
    <3> HIDE DEF b
    <3>3. x * b >= x * b
      BY <3>2 DEF Pos
    <3> QED
      BY <1>1, <3>3 DEF b
  <2>2. t[1] = 0 /\ t[2] = 0
    BY <1>1
  <2>3. t[1] + x <= p /\ t[2] + y <= q
    BY <1>1, <2>2 DEF Pos, Balances
  <2> QED
    BY <1>1, <2>1, <2>2, <2>3 DEF Priced
<1> QED
  BY <1>1 DEF Fair

\* What leaves a pool is worth no more than what enters it.
LEMMA TradeKeepsWorth ==
    ASSUME NEW x \in Pos, NEW y \in Balances, NEW i \in 1 .. 2, NEW n \in Nat,
           NEW z \in Int, NEW t \in Int, t <= 2 * U64Max,
           i = 1 => z >= x + n /\ t >= y - curve(x, traded(y), n),
           i = 2 => t >= y + n /\ z >= x - curve(traded(y), x, n)
    PROVE  z \in Pos /\ t \in Balances /\ \A f : Worth(f) => z * f[t] >= x * f[y]
<1>1. y \in Pos
  BY ConstantProductMathAssumption DEF Balances, Pos
<1>2. traded(y) \in Pos /\ traded(y) <= y
  BY <1>1, TradedFacts
<1> DEFINE e == traded(y)
<1>3. e \in Pos /\ e <= y
  BY <1>2
<1> HIDE DEF e
<1>4. curve(x, e, n) \in 0 .. e - 1 /\ curve(e, x, n) \in 0 .. x - 1
  BY <1>3, CurveFits
<1>5. z \in Pos /\ t \in Balances
  <2>1. U64Max \in Nat
    BY ConstantProductMathAssumption
  <2>2. (i = 1 => z >= x + n /\ t >= y - curve(x, e, n))
        /\ (i = 2 => t >= y + n /\ z >= x - curve(e, x, n))
    BY DEF e
  <2>3. i = 1 \/ i = 2
    OBVIOUS
  <2> QED
    BY <1>1, <1>3, <1>4, <2>1, <2>2, <2>3 DEF Pos, Balances
<1>6. ASSUME NEW f, Worth(f) PROVE z * f[t] >= x * f[y]
  <2>1. CASE i = 1
    BY <1>5, <1>6, <2>1, SellKeepsWorth
  <2>2. CASE i = 2
    BY <1>5, <1>6, <2>2, BuyKeepsWorth
  <2> QED
    BY <2>1, <2>2
<1> QED
  BY <1>5, <1>6

\* So it stays priced when it takes in n or more of a trader that pays no less, and gives
\* out what the curve pays for n, or less, of which the trader gets no more.
LEMMA TradeKeepsPriced ==
    ASSUME NEW p, NEW q, NEW x, NEW y, NEW t, Priced(p, q, x, y, t),
           NEW i \in 1 .. 2, NEW n \in Nat, NEW z \in Int, NEW w \in Int, w <= 2 * U64Max,
           i = 1 => z >= x + n /\ w >= y - curve(x, traded(y), n),
           i = 2 => w >= y + n /\ z >= x - curve(traded(y), x, n),
           NEW s, s[1] \in Int, s[2] \in Int, s[1] + z <= t[1] + x, s[2] + w <= t[2] + y
    PROVE  Priced(p, q, z, w, s)
<1>1. /\ p \in Pos /\ q \in Balances /\ x \in Pos /\ y \in Balances
      /\ t[1] \in Int /\ t[2] \in Int /\ t[1] + x <= p /\ t[2] + y <= q
  BY DEF Priced
<1>2. z \in Pos /\ w \in Balances /\ \A f : Worth(f) => z * f[w] >= x * f[y]
  BY <1>1, TradeKeepsWorth
<1>3. s[1] + z <= p /\ s[2] + w <= q
  BY <1>1, <1>2 DEF Pos, Balances
<1>4. ASSUME NEW f, Worth(f) PROVE z * f[w] >= p * f[q]
  <2> DEFINE a == f[w]
             b == f[y]
             c == f[q]
  <2>1. a \in Pos /\ b \in Pos /\ c \in Pos
    BY <1>1, <1>2, <1>4 DEF Worth
  <2>2. z * a >= x * b
    BY <1>2, <1>4
  <2>3. x * b >= p * c
    BY <1>4 DEF Priced
  <2> HIDE DEF a, b, c
  <2>4. z * a \in Int /\ x * b \in Int /\ p * c \in Int
    BY <1>1, <2>1 DEF Pos
  <2>5. z * a >= p * c
    BY <2>2, <2>3, <2>4
  <2> QED
    BY <2>5 DEF a, c
<1> QED
  BY <1>1, <1>2, <1>3, <1>4 DEF Priced

\* Books that are worth no less are not both lower.
LEMMA PricedIsFair ==
    ASSUME NEW p, NEW q, NEW x, NEW y, NEW t, Priced(p, q, x, y, t), t[1] >= 0, t[2] >= 0
    PROVE  t[1] = 0 /\ t[2] = 0
<1>1. /\ p \in Pos /\ q \in Balances /\ x \in Pos /\ y \in Balances
      /\ t[1] \in Int /\ t[2] \in Int /\ t[1] + x <= p /\ t[2] + y <= q
  BY DEF Priced
<1>2. PICK f : Worth(f)
  BY WorthExists
<1> DEFINE b == f[y]
           c == f[q]
<1>3. x * b >= p * c /\ b \in Pos /\ c \in Pos
  BY <1>1, <1>2 DEF Priced, Worth
<1>4. y <= q /\ x <= p /\ y \in Int /\ q \in Int /\ x \in Int /\ p \in Int
  BY <1>1 DEF Pos, Balances
<1>5. y < q => b < c
  BY <1>1, <1>2, WorthGrows
<1>6. y = q => b = c
  OBVIOUS
<1> HIDE DEF b, c
<1>7. b <= c
  BY <1>3, <1>4, <1>5, <1>6 DEF Pos
<1>8. x * b <= p * b /\ b * p <= c * p
  BY <1>1, <1>3, <1>4, <1>7, MulMonotone DEF Pos
<1>9. /\ p * b = b * p /\ p * c = c * p
      /\ x * b \in Int /\ p * b \in Int /\ p * c \in Int
  BY <1>1, <1>3 DEF Pos
<1>10. x = p
  <2>1. x < p => x * b < p * b
    BY <1>3, <1>4, MulStrict
  <2> QED
    BY <1>3, <1>4, <1>8, <1>9, <2>1
<1>11. y = q
  <2>1. b < c => b * p < c * p
    BY <1>1, <1>3, MulStrict DEF Pos
  <2> QED
    BY <1>3, <1>4, <1>5, <1>8, <1>9, <2>1
<1> QED
  BY <1>1, <1>4, <1>10, <1>11

\* The books after a step, of the chain and the traders it leaves.
LEMMA FairAfter ==
    ASSUME world' = world, trader' \in [1 .. 2 -> Int],
           Fair(First(1), First(2), book(world, data', vault', 1), book(world, data', vault', 2), trader')
    PROVE  FairInv'
BY DEF FairInv, Book, First

LEMMA SwapKeepsFair ==
    ASSUME QuoteInv, QuoteInv', FairInv, NEW aToB \in BOOLEAN, NEW a \in Amounts,
           NEW takes \in BOOLEAN, SwapLands(aToB, a, takes)
    PROVE  FairInv'
<1> DEFINE i  == IF aToB THEN 1 ELSE 2
           o  == 3 - i
           x  == AuxOf(AllFields)
           qt == FromAccount(world.owner, data, x)
           m  == Settlement(qt, a, i, o, takes)
<1>1. ChainInv /\ a \in u64 /\ a \in Nat /\ world \in Worlds /\ DataOf(world, data)
  BY WorldAssumption DEF QuoteInv, ChainInv, u64
<1>2. /\ qt # Nothing /\ m.out > 0
      /\ vault' = [vault EXCEPT ![i] = @ + m.in, ![o] = @ - m.paid]
      /\ data' = Settled(qt, m, i, o)
      /\ trader' = [trader EXCEPT ![i] = @ - a, ![o] = @ + m.out]
      /\ world' = world
  BY Zenon DEF SwapLands
<1>3. i \in 1 .. 2 /\ o \in 1 .. 2 /\ o # i /\ o = 3 - i
  OBVIOUS
<1>4. AuxFor(world, x) /\ x.vault = vault
  <2>1. now \in Nat
    BY <1>1, WorldAssumption DEF ChainInv
  <2>2. "vaults" \in AllFields
    BY DEF AllFields
  <2> QED
    BY <1>1, <2>1, <2>2, AuxIsOfPool DEF ChainInv
<1> HIDE DEF x
<1>5. Sound(world, qt, x)
  BY <1>1, <1>2, <1>4, FromAccountIsSound
<1>6. Rated(qt) /\ Filled(qt) /\ qt.venue = world.owner
  BY <1>5 DEF Sound
<1>7. world.owner \in {"cpmm", "ammv4", "pump", "curve", "fluxbeam"}
  BY <1>6 DEF Rated
<1> DEFINE R == qt.reserves
<1>8. /\ Book(1) \in Pos /\ Book(2) \in Balances
      /\ R[1] = Book(1) /\ R[2] = traded(Book(2))
  BY <1>1, <1>2, <1>4, QuoterTradesBooks
<1> DEFINE b1 == book(world, data', vault', 1)
           b2 == book(world, data', vault', 2)
<1>9. b2 \in Int /\ b2 <= 2 * U64Max
  <2>1. DataOf(world, data') /\ vault' \in [1 .. 2 -> u64]
    BY <1>2 DEF QuoteInv, ChainInv
  <2>2. world.owner = "cpmm" => setAside(data'.fees[2]) \in Nat
    BY <2>1 DEF DataOf, CPMMData, setAside
  <2>3. world.owner = "pump" => carried(world.data, 261, world.data.virtualQuote, 0) <= I64Max
    <3> SUFFICES ASSUME world.owner = "pump"
                 PROVE  carried(world.data, 261, world.data.virtualQuote, 0) <= I64Max
      OBVIOUS
    <3>1. data = world.data
      BY <1>1 DEF DataOf
    <3> QED
      BY <1>1, <1>2, <3>1, PumpVirtualFits
  <2> QED
    BY <1>1, <1>7, <2>1, <2>2, <2>3, BooksFit
<1> HIDE DEF qt, i, o, b1, b2, R
<1>10. /\ m.in \in Nat /\ m.paid \in Nat /\ m.feeIn \in Nat /\ m.feeOut \in Nat
  BY <1>1, <1>2, <1>3, <1>6, SettlementFits
<1>11. /\ m.in <= a /\ m.out \in Nat /\ m.out <= m.paid
       /\ \E n \in Nat : /\ n <= m.in - m.feeIn
                         /\ m.paid + m.feeOut <= curve(R[i], R[o], n)
  BY <1>1, <1>2, <1>3, <1>6, SettlementIsCurve DEF R
<1>12. /\ book(world, data', vault', i) = Book(i) + m.in - m.feeIn
       /\ book(world, data', vault', o) = Book(o) - m.paid - m.feeOut
  <2>1. Settles(qt, a, i, takes)
    BY <1>2, <1>3, <1>10 DEF Settles
  <2> QED
    BY <1>1, <1>3, <1>6, <1>7, <2>1, SwapMovesBooks
<1>13. PICK n \in Nat : /\ n <= m.in - m.feeIn
                        /\ m.paid + m.feeOut <= curve(R[i], R[o], n)
  BY <1>11
<1> DEFINE in == m.in
           paid == m.paid
           feeIn == m.feeIn
           feeOut == m.feeOut
           out == m.out
           g == curve(R[i], R[o], n)
           y == Book(2)
           x1 == Book(1)
<1>14. /\ in \in Nat /\ paid \in Nat /\ feeIn \in Nat /\ feeOut \in Nat /\ out \in Nat
       /\ in <= a /\ out <= paid /\ n <= in - feeIn /\ paid + feeOut <= g
       /\ trader' = [trader EXCEPT ![i] = @ - a, ![o] = @ + out]
       /\ trader \in [1 .. 2 -> Int]
  BY <1>2, <1>10, <1>11, <1>13 DEF FairInv
<1>15. Priced(First(1), First(2), x1, y, trader)
  BY <1>8, FairIsPriced DEF FairInv
<1>16. x1 \in Pos /\ y \in Balances /\ x1 \in Int /\ y \in Int
  BY <1>8 DEF Pos, Balances
<1>17. CASE i = 1
  <2>1. o = 2
    BY <1>3, <1>17
  <2>2. b1 = x1 + in - feeIn /\ b2 = y - paid - feeOut /\ g = curve(x1, traded(y), n)
    BY <1>8, <1>12, <1>17, <2>1 DEF b1, b2
  <2>3. trader'[1] = trader[1] - a /\ trader'[2] = trader[2] + out
        /\ trader[1] \in Int /\ trader[2] \in Int
    BY <1>14, <1>17, <2>1
  <2> HIDE DEF in, paid, feeIn, feeOut, out, x1, y, m
  <2>4. g \in Int
    <3>1. traded(y) \in Pos
      BY <1>16, TradedFacts, ConstantProductMathAssumption DEF Balances, Pos
    <3>2. curve(x1, traded(y), n) \in 0 .. traded(y) - 1
      BY <1>16, <3>1, CurveFits
    <3> QED
      BY <2>2, <3>2
  <2> HIDE DEF g
  <2>5. /\ b1 \in Int /\ b1 >= x1 + n /\ b2 >= y - g
        /\ trader'[1] + b1 <= trader[1] + x1 /\ trader'[2] + b2 <= trader[2] + y
        /\ trader'[1] \in Int /\ trader'[2] \in Int
    BY <1>1, <1>14, <1>16, <2>2, <2>3, <2>4
  <2>6. Priced(First(1), First(2), b1, b2, trader')
    <3> DEFINE s == trader'
    <3>1. /\ s[1] \in Int /\ s[2] \in Int
          /\ s[1] + b1 <= trader[1] + x1 /\ s[2] + b2 <= trader[2] + y
      BY <2>5
    <3> HIDE DEF s
    <3>2. b2 >= y - curve(x1, traded(y), n)
      BY <2>2, <2>5
    <3>3. Priced(First(1), First(2), b1, b2, s)
      BY <1>9, <1>15, <2>5, <3>1, <3>2, TradeKeepsPriced
    <3> QED
      BY <3>3 DEF s
  <2>7. trader' \in [1 .. 2 -> Int]
    BY <1>1, <1>3, <1>14
  <2> QED
    BY <1>2, <2>6, <2>7, FairAfter DEF Fair, b1, b2
<1>18. CASE i = 2
  <2>1. o = 1
    BY <1>3, <1>18
  <2>2. b2 = y + in - feeIn /\ b1 = x1 - paid - feeOut /\ g = curve(traded(y), x1, n)
    BY <1>8, <1>12, <1>18, <2>1 DEF b1, b2
  <2>3. trader'[2] = trader[2] - a /\ trader'[1] = trader[1] + out
        /\ trader[1] \in Int /\ trader[2] \in Int
    BY <1>14, <1>18, <2>1
  <2> HIDE DEF in, paid, feeIn, feeOut, out, x1, y, m
  <2>4. g \in Int
    <3>1. traded(y) \in Pos
      BY <1>16, TradedFacts, ConstantProductMathAssumption DEF Balances, Pos
    <3>2. curve(traded(y), x1, n) \in 0 .. x1 - 1
      BY <1>16, <3>1, CurveFits
    <3> QED
      BY <2>2, <3>2
  <2> HIDE DEF g
  <2>5. /\ b1 \in Int /\ b2 >= y + n /\ b1 >= x1 - g
        /\ trader'[1] + b1 <= trader[1] + x1 /\ trader'[2] + b2 <= trader[2] + y
        /\ trader'[1] \in Int /\ trader'[2] \in Int
    BY <1>1, <1>14, <1>16, <2>2, <2>3, <2>4
  <2>6. Priced(First(1), First(2), b1, b2, trader')
    <3> DEFINE s == trader'
    <3>1. /\ s[1] \in Int /\ s[2] \in Int
          /\ s[1] + b1 <= trader[1] + x1 /\ s[2] + b2 <= trader[2] + y
      BY <2>5
    <3> HIDE DEF s
    <3>2. b1 >= x1 - curve(traded(y), x1, n)
      BY <2>2, <2>5
    <3>3. Priced(First(1), First(2), b1, b2, s)
      BY <1>9, <1>15, <2>5, <3>1, <3>2, TradeKeepsPriced
    <3> QED
      BY <3>3 DEF s
  <2>7. trader' \in [1 .. 2 -> Int]
    BY <1>1, <1>3, <1>14
  <2> QED
    BY <1>2, <2>6, <2>7, FairAfter DEF Fair, b1, b2
<1> QED
  BY <1>3, <1>17, <1>18

\* A withdrawal of fees takes out of the vaults what was not in the books.
LEMMA CollectKeepsFair ==
    ASSUME QuoteInv, FairInv, CollectFees
    PROVE  FairInv'
<1>1. ChainInv /\ vault \in [1 .. 2 -> u64] /\ DataOf(world, data)
  BY DEF QuoteInv, ChainInv
<1>2. /\ \E i \in 1 .. 2 : Owed(i) > 0
      /\ vault' = [i \in 1 .. 2 |-> vault[i] - Owed(i)]
      /\ data' = IF world.owner = "cpmm"
                 THEN [data EXCEPT !.fees = [i \in 1 .. 2 |-> [protocol |-> 0, fund |-> 0, creator |-> 0]]]
                 ELSE [data EXCEPT !.pnl = <<0, 0>>]
      /\ world' = world /\ trader' = trader
  BY Zenon DEF CollectFees
<1>3. world.owner \in {"cpmm", "ammv4"}
  <2>1. \A i \in 1 .. 2 : world.owner \notin {"cpmm", "ammv4"} => Owed(i) = 0
    BY DEF Owed
  <2> QED
    BY <1>2, <2>1
<1>4. \A i \in 1 .. 2 : vault[i] \in Nat /\ vault'[i] = vault[i] - Owed(i)
  BY <1>1, <1>2, ConstantProductMathAssumption DEF u64
<1>5. ASSUME NEW i \in 1 .. 2 PROVE book(world, data', vault', i) = Book(i)
  <2>1. CASE world.owner = "cpmm"
    <3> DEFINE Z == [protocol |-> 0, fund |-> 0, creator |-> 0]
    <3>1. data \in CPMMData /\ data' = [data EXCEPT !.fees = [j \in 1 .. 2 |-> Z]]
      BY <1>1, <1>2, <2>1 DEF DataOf
    <3>2. data'.fees[i] = Z /\ setAside(Z) = 0
      BY <3>1 DEF CPMMData, setAside
    <3>3. Owed(i) = setAside(data.fees[i])
      <4>1. Owed(i) = feesOwed(data, i)
        BY <2>1 DEF Owed
      <4> QED
        BY <1>1, <2>1, <4>1, OwedIsSetAside
    <3>4. setAside(data.fees[i]) \in Nat
      <4>1. /\ data.fees[i].protocol \in Nat /\ data.fees[i].fund \in Nat
            /\ data.fees[i].creator \in Nat
        BY <1>1, <2>1, OwedIsSetAside
      <4> QED
        BY <4>1 DEF setAside
    <3> HIDE DEF Z
    <3>5. book(world, data', vault', i) = vault'[i] - 0 /\ Book(i) = vault[i] - setAside(data.fees[i])
      BY <2>1, <3>2 DEF Book, book
    <3> QED
      BY <1>4, <3>3, <3>4, <3>5
  <2>2. CASE world.owner = "ammv4"
    <3>1. data \in AMMV4Data /\ data' = [data EXCEPT !.pnl = <<0, 0>>]
      BY <1>1, <1>2, <2>2 DEF DataOf
    <3>2. data'.pnl[i] = 0 /\ data.pnl[i] \in Nat /\ Owed(i) = data.pnl[i]
      BY <2>2, <3>1 DEF AMMV4Data, Owed
    <3>3. book(world, data', vault', i) = vault'[i] - data'.pnl[i] /\ Book(i) = vault[i] - data.pnl[i]
      BY <2>2 DEF Book, book
    <3> QED
      BY <1>4, <3>2, <3>3
  <2> QED
    BY <1>3, <2>1, <2>2
<1> QED
  BY <1>2, <1>5, FairAfter DEF FairInv

LEMMA StepFair == QuoteInv /\ FairInv /\ [Next]_vars => FairInv'
<1> SUFFICES ASSUME QuoteInv, FairInv, [Next]_vars PROVE FairInv'
  OBVIOUS
<1>1. ASSUME world' = world, data' = data, vault' = vault, trader' = trader PROVE FairInv'
  BY <1>1 DEF FairInv, Book, First
<1>2. CASE FetchAccount \/ (\E given \in Givens : FetchAux(given)) \/ Build \/ StartOver \/ TimePasses
  BY <1>1, <1>2 DEF FetchAccount, FetchAux, Build, StartOver, TimePasses, chain
<1>3. ASSUME NEW aToB \in BOOLEAN, NEW a \in Amounts, NEW takes \in BOOLEAN, SwapLands(aToB, a, takes)
      PROVE  FairInv'
  BY <1>3, StepQuoteInv, SwapKeepsFair DEF Next
<1>4. CASE CollectFees
  BY <1>4, CollectKeepsFair
<1>5. CASE UNCHANGED vars
  BY <1>1, <1>5 DEF vars, chain
<1> QED
  BY <1>2, <1>3, <1>4, <1>5, Zenon DEF Next

\* However many swaps land at the quoted price, in whatever order, with fees withdrawn and
\* fee tiers changing in between, the traders together never have more of one token and no
\* less of the other: no answer of a quoter (quote/*/swap_quote.go) is worth more than what
\* is paid for it.
THEOREM TradersNeverProfit == Spec => []TraderNeverProfits
<1>1. Init => FairInv
  <2> SUFFICES ASSUME Init PROVE FairInv
    OBVIOUS
  <2>1. data = world.data /\ vault = world.vault /\ trader = <<0, 0>>
    BY DEF Init
  <2>2. trader \in [1 .. 2 -> Int]
    BY <2>1
  <2> QED
    BY <2>1, <2>2 DEF FairInv, Fair, First, Book
<1>2. FairInv => TraderNeverProfits
  <2> SUFFICES ASSUME FairInv, trader[1] >= 0, trader[2] >= 0 PROVE trader = <<0, 0>>
    BY DEF TraderNeverProfits
  <2>1. CASE trader = <<0, 0>>
    BY <2>1
  <2>2. CASE trader # <<0, 0>>
    <3>1. trader[1] = 0 /\ trader[2] = 0
      BY <2>2, PricedIsFair DEF FairInv, Fair
    <3> QED
      BY <3>1 DEF FairInv
  <2> QED
    BY <2>1, <2>2
<1> QED
  BY <1>1, <1>2, StepFair, PoolAndClientAreSound, PTL DEF Spec

=============================================================================
