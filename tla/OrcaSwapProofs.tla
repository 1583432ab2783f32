---------------------------- MODULE OrcaSwapProofs ----------------------------
(***************************************************************************)
(* The Whirlpool walk for every pool, tick table, fee configuration and    *)
(* amount: price, tick, liquidity and fee group stay together through the  *)
(* tick arrays and through skipped groups, a step is charged one rate, and *)
(* the check for an over-drawn input is never met.                         *)
(***************************************************************************)
EXTENDS OrcaSwap, ArithmeticLemmas, FiniteSetTheorems

-----------------------------------------------------------------------------
\* Ticks and prices

\* Ticks that have a price, the neighbours of the range included.
PricedTicks == MinTickIndex - 1 .. MaxTickIndex + 1

LEMMA TicksAreInts ==
    /\ MinTickIndex \in Int /\ MaxTickIndex \in Int /\ MinTickIndex < 0 /\ 0 < MaxTickIndex
    /\ TickIndexes = MinTickIndex .. MaxTickIndex /\ MaxU64 \in Nat /\ feeRateMulValue \in Pos
BY OrcaMathAssumption DEF TickIndexes, Pos

LEMMA PriceIsPositive ==
    ASSUME NEW t \in PricedTicks
    PROVE  sqrtPrices[t] \in Pos
<1>1. t \in MinTickIndex - 1 .. MaxTickIndex \/ (t = MaxTickIndex + 1 /\ MaxTickIndex \in MinTickIndex - 1 .. MaxTickIndex)
  BY TicksAreInts DEF PricedTicks
<1> QED
  BY <1>1, PriceTableAssumption DEF Pos

\* The price rises with the tick.
LEMMA PricesRise ==
    ASSUME NEW t \in PricedTicks, NEW u \in PricedTicks, t < u
    PROVE  sqrtPrices[t] < sqrtPrices[u]
<1> DEFINE bound == u - t - 1
           S == {k \in Nat : t + 1 + k <= MaxTickIndex + 1 => sqrtPrices[t] < sqrtPrices[t + 1 + k]}
<1>1. t \in Int /\ u \in Int /\ MinTickIndex \in Int /\ MaxTickIndex \in Int /\ bound \in Nat
  BY TicksAreInts DEF PricedTicks
<1>2. 0 \in S
  <2>1. t \in MinTickIndex - 1 .. MaxTickIndex /\ t + 1 + 0 = t + 1
    BY <1>1 DEF PricedTicks
  <2> QED
    BY <2>1, PriceTableAssumption
<1>3. ASSUME NEW k \in 0 .. bound - 1, k \in S PROVE k + 1 \in S
  <2> SUFFICES ASSUME t + 1 + (k + 1) <= MaxTickIndex + 1
               PROVE  sqrtPrices[t] < sqrtPrices[t + 1 + (k + 1)]
    BY <1>1
  <2> DEFINE v == t + 1 + k
  <2>1. v \in MinTickIndex - 1 .. MaxTickIndex /\ t + 1 + (k + 1) = v + 1 /\ t + 1 + k <= MaxTickIndex + 1
    BY <1>1 DEF PricedTicks
  <2>2. sqrtPrices[t] < sqrtPrices[v]
    BY <1>3, <2>1
  <2>3. sqrtPrices[v] < sqrtPrices[v + 1]
        /\ sqrtPrices[v] \in Pos /\ sqrtPrices[v + 1] \in Pos
    BY <2>1, PriceTableAssumption DEF Pos
  <2>4. sqrtPrices[t] \in Pos
    BY PriceIsPositive
  <2> HIDE DEF v
  <2> QED
    BY <2>1, <2>2, <2>3, <2>4 DEF Pos
<1> HIDE DEF S
<1>4. 0 .. bound \subseteq S
  BY <1>1, <1>2, <1>3, Induction
<1>5. bound \in S /\ t + 1 + bound = u /\ u <= MaxTickIndex + 1
  BY <1>1, <1>4 DEF PricedTicks
<1> QED
  BY <1>5 DEF S

LEMMA PriceOrder ==
    ASSUME NEW t \in PricedTicks, NEW u \in PricedTicks
    PROVE  /\ sqrtPrices[t] \in Pos /\ sqrtPrices[u] \in Pos
           /\ t <= u <=> sqrtPrices[t] <= sqrtPrices[u]
           /\ t < u <=> sqrtPrices[t] < sqrtPrices[u]
           /\ t = u <=> sqrtPrices[t] = sqrtPrices[u]
<1>1. t \in Int /\ u \in Int
  BY TicksAreInts DEF PricedTicks
<1>2. sqrtPrices[t] \in Pos /\ sqrtPrices[u] \in Pos
  BY PriceIsPositive
<1>3. t < u => sqrtPrices[t] < sqrtPrices[u]
  BY PricesRise
<1>4. u < t => sqrtPrices[u] < sqrtPrices[t]
  BY PricesRise
<1> QED
  BY <1>1, <1>2, <1>3, <1>4 DEF Pos

\* TickIndexFromSqrtPrice is the tick whose interval holds the price.
LEMMA TickOfPrice ==
    ASSUME NEW p \in MinSqrtPrice .. MaxSqrtPrice
    PROVE  /\ TickIndexFromSqrtPrice(p) \in TickIndexes
           /\ sqrtPrices[TickIndexFromSqrtPrice(p)] <= p
           /\ p < sqrtPrices[TickIndexFromSqrtPrice(p) + 1]
<1> DEFINE T == {n \in Nat : MaxTickIndex - n \in TickIndexes /\ sqrtPrices[MaxTickIndex - n] <= p}
<1>1. MinTickIndex \in Int /\ MaxTickIndex \in Int /\ MinTickIndex < MaxTickIndex /\ TickIndexes = MinTickIndex .. MaxTickIndex
  BY TicksAreInts
<1>2. \A t \in TickIndexes : t \in PricedTicks /\ t + 1 \in PricedTicks /\ t \in Int
  BY <1>1 DEF PricedTicks
<1>3. \A t \in TickIndexes : sqrtPrices[t] \in Pos /\ sqrtPrices[t + 1] \in Pos
  BY <1>2, PriceIsPositive
<1>4. p \in Int /\ MinSqrtPrice <= p /\ p <= MaxSqrtPrice /\ MinTickIndex \in TickIndexes /\ MaxTickIndex \in TickIndexes
  BY <1>1, <1>3 DEF MinSqrtPrice, MaxSqrtPrice, SqrtPriceFromTickIndex, Pos
<1>5. MaxTickIndex - MinTickIndex \in T
  <2>1. MaxTickIndex - (MaxTickIndex - MinTickIndex) = MinTickIndex /\ MaxTickIndex - MinTickIndex \in Nat
    BY <1>1
  <2> QED
    BY <2>1, <1>4 DEF MinSqrtPrice, SqrtPriceFromTickIndex
<1>6. PICK n \in T : \A m \in T : n <= m
  <2>1. T \in SUBSET Nat /\ T # {}
    BY <1>5
  <2> HIDE DEF T
  <2> QED
    BY <2>1, LeastNatural
<1> DEFINE t == MaxTickIndex - n
<1>7. t \in TickIndexes /\ sqrtPrices[t] <= p
  BY <1>6
<1>8. \A u \in TickIndexes : sqrtPrices[u] <= p => u <= t
  <2> SUFFICES ASSUME NEW u \in TickIndexes, sqrtPrices[u] <= p PROVE u <= t
    OBVIOUS
  <2>1. MaxTickIndex - u \in Nat /\ MaxTickIndex - (MaxTickIndex - u) = u
    BY <1>1
  <2>2. MaxTickIndex - u \in T
    BY <2>1
  <2>3. n <= MaxTickIndex - u /\ n \in Nat
    BY <1>6, <2>2
  <2> QED
    BY <1>1, <2>3
<1> HIDE DEF t, T
<1> DEFINE c == TickIndexFromSqrtPrice(p)
<1>9. c \in TickIndexes /\ sqrtPrices[c] <= p /\ \A u \in TickIndexes : sqrtPrices[u] <= p => u <= c
  BY <1>7, <1>8 DEF TickIndexFromSqrtPrice
<1> HIDE DEF c
<1>10. p < sqrtPrices[c + 1]
  <2>1. CASE c = MaxTickIndex
    <3>1. sqrtPrices[c] < sqrtPrices[c + 1]
      BY <1>1, <1>2, <1>9, PricesRise
    <3> QED
      BY <1>3, <1>4, <1>9, <2>1, <3>1 DEF MaxSqrtPrice, SqrtPriceFromTickIndex, Pos
  <2>2. CASE c # MaxTickIndex
    <3>1. c + 1 \in TickIndexes /\ ~(c + 1 <= c)
      BY <1>1, <1>9, <2>2
    <3> QED
      BY <1>3, <1>4, <1>9, <3>1 DEF Pos
  <2> QED
    BY <2>1, <2>2
<1> QED
  BY <1>9, <1>10 DEF c

-----------------------------------------------------------------------------
\* Tick-spacing groups

-----------------------------------------------------------------------------
\* Fee groups

\* Go's truncated quotient of a multiple is exact.
LEMMA ExactQuotient ==
    ASSUME NEW k \in Int, NEW d \in Pos
    PROVE  goQuo(k * d, d) = k /\ goRem(k * d, d) = 0
<1> SUFFICES goQuo(k * d, d) = k
  <2>1. d * k = k * d /\ k * d \in Int
    BY DEF Pos
  <2> QED
    BY <2>1 DEF goRem
<1>1. CASE k >= 0
  <2>1. k * d \in Nat /\ k \in Nat
    BY <1>1, MulIsNat DEF Pos
  <2> DEFINE j == (k * d) \div d
  <2>2. j \in Nat /\ k <= j
    <3>1. j \in Nat
      BY <2>1, DivFacts
    <3> QED
      BY <3>1, <2>1, FloorIsGreatest
  <2>3. j <= k
    <3>1. j * d <= k * d
      BY <2>1, <2>2, FloorIsGreatest
    <3>2. k < j => k * d < j * d
      BY <2>1, <2>2, MulStrict
    <3>3. j * d \in Nat
      BY <2>2, MulIsNat DEF Pos
    <3> HIDE DEF j
    <3> QED
      BY <2>1, <2>2, <3>1, <3>2, <3>3
  <2>4. goQuo(k * d, d) = j
    BY <2>1 DEF goQuo
  <2> HIDE DEF j
  <2> QED
    BY <2>1, <2>2, <2>3, <2>4
<1>2. CASE k < 0
  <2> DEFINE m == -k
             j == (m * d) \div d
  <2>1. m * d \in Nat /\ m \in Nat /\ m # 0 /\ -(k * d) = m * d
    BY <1>2, MulIsNat DEF Pos
  <2>2. m * d > 0
    <3>1. 0 * d < m * d /\ 0 * d = 0
      BY <2>1, MulStrict DEF Pos
    <3> QED
      BY <3>1, <2>1
  <2>3. j \in Nat /\ m <= j
    <3>1. j \in Nat
      BY <2>1, DivFacts
    <3> QED
      BY <3>1, <2>1, FloorIsGreatest
  <2>4. j <= m
    <3>1. j * d <= m * d
      BY <2>1, <2>3, FloorIsGreatest
    <3>2. m < j => m * d < j * d
      BY <2>1, <2>3, MulStrict
    <3>3. j * d \in Nat
      BY <2>3, MulIsNat DEF Pos
    <3> HIDE DEF j, m
    <3> QED
      BY <2>1, <2>3, <3>1, <3>2, <3>3
  <2>5. goQuo(k * d, d) = -j
    <3>1. k * d \in Int
      BY DEF Pos
    <3>2. ~(k * d >= 0)
      <4> HIDE DEF m
      <4> QED
        BY <2>1, <2>2, <3>1
    <3> QED
      BY <2>1, <3>2, Zenon DEF goQuo
  <2> HIDE DEF j
  <2> QED
    BY <2>1, <2>3, <2>4, <2>5
<1> QED
  BY <1>1, <1>2

\* floorDivision is the floor of the quotient, ticks below zero included.
LEMMA GroupOfTick ==
    ASSUME NEW t \in Int, NEW d \in Pos
    PROVE  LET i == floorDivision(t, d)
           IN  i \in Int /\ i * d <= t /\ t < i * d + d
<1>1. CASE t >= 0
  <2> DEFINE k == t \div d
             r == t % d
  <2>1. k \in Nat /\ r \in 0 .. d - 1 /\ t = d * k + r
    BY <1>1, DivFacts
  <2>2. floorDivision(t, d) = k
    BY <1>1 DEF floorDivision, goQuo, Pos
  <2>3. d * k = k * d /\ k * d \in Nat
    BY <2>1, MulIsNat DEF Pos
  <2> HIDE DEF k, r
  <2> QED
    BY <2>1, <2>2, <2>3 DEF Pos
<1>2. CASE t < 0
  <2> DEFINE k == (-t) \div d
             r == (-t) % d
  <2>1. k \in Nat /\ r \in 0 .. d - 1 /\ -t = d * k + r
    <3>1. -t \in Nat
      BY <1>2
    <3> QED
      BY <3>1, DivFacts
  <2>2. goQuo(t, d) = -k
    BY <1>2 DEF goQuo
  <2> HIDE DEF k, r
  <2>3. d * (-k) = -(d * k) /\ d * k \in Nat /\ (-k) * d = -(d * k) /\ (-k - 1) * d = -(d * k) - d
    BY <2>1, MulIsNat DEF Pos
  <2>4. goRem(t, d) = -r
    BY <2>1, <2>2, <2>3 DEF goRem
  <2>5. floorDivision(t, d) = IF r = 0 THEN -k ELSE -k - 1
    BY <1>2, <2>1, <2>2, <2>4 DEF floorDivision, Pos
  <2> QED
    BY <2>1, <2>3, <2>5 DEF Pos
<1> QED
  BY <1>1, <1>2

LEMMA NextGroups ==
    ASSUME NEW i \in Int, NEW sp \in Pos
    PROVE  i * sp \in Int /\ (i + 1) * sp = i * sp + sp /\ (i - 1) * sp = i * sp - sp
BY DEF Pos

\* A tick is in one group only.
LEMMA GroupIsUnique ==
    ASSUME NEW t \in Int, NEW i \in Int, NEW j \in Int, NEW sp \in Pos,
           i * sp <= t, t < i * sp + sp, j * sp <= t, t < j * sp + sp
    PROVE  i = j
<1>1. /\ i + 1 <= j => (i + 1) * sp <= j * sp
      /\ j + 1 <= i => (j + 1) * sp <= i * sp
  BY MulMonotone DEF Pos
<1>2. (i + 1) * sp = i * sp + sp /\ (j + 1) * sp = j * sp + sp /\ i * sp \in Int /\ j * sp \in Int
  BY NextGroups
<1> QED
  BY <1>1, <1>2 DEF Pos

-----------------------------------------------------------------------------
\* Liquidity

\* The sum over the ticks up to one is that up to the tick below and its own.
LEMMA LiquidityAdds ==
    ASSUME NEW net \in [Initialized -> Int]
    PROVE  /\ LiquidityOf(net, MinTickIndex - 1) = 0
           /\ \A t \in TickIndexes : LiquidityOf(net, t) = LiquidityOf(net, t - 1) + netAt(net, t)
           /\ \A t \in MinTickIndex - 1 .. MaxTickIndex : LiquidityOf(net, t) \in Int
<1> DEFINE N == MaxTickIndex - MinTickIndex + 1
           step0 == [k \in 1 .. N |-> [v \in Int |-> v + netAt(net, MinTickIndex - 1 + k)]]
           D == MinTickIndex - 1 .. MaxTickIndex
<1>1. MinTickIndex \in Int /\ MaxTickIndex \in Int /\ MinTickIndex < MaxTickIndex /\ TickIndexes = MinTickIndex .. MaxTickIndex /\ N \in Nat
  BY TicksAreInts
<1>2. step0 \in [1 .. N -> [Int -> Int]]
  <2>1. \A k \in 1 .. N : netAt(net, MinTickIndex - 1 + k) \in Int
    BY <1>1 DEF netAt
  <2> QED
    BY <2>1
<1>3. PICK g : Trace(g, Int, 0, N, step0)
  <2>1. 0 \in Int /\ N \in Nat
    BY <1>1
  <2> HIDE DEF step0, N
  <2> QED
    BY <2>1, <1>2, LoopHasTrace, Zenon
<1> DEFINE u == [t \in D |-> g[t - MinTickIndex + 1]]
<1>4. \A t \in D : t - MinTickIndex + 1 \in 0 .. N
  BY <1>1
<1>5. \A t \in D : u[t] \in Int
  BY <1>3, <1>4 DEF Trace
<1>6. u = [t \in D |-> IF t < MinTickIndex THEN 0 ELSE u[t - 1] + netAt(net, t)]
  <2>1. ASSUME NEW t \in D PROVE u[t] = IF t < MinTickIndex THEN 0 ELSE u[t - 1] + netAt(net, t)
    <3>1. CASE t < MinTickIndex
      <4>1. t - MinTickIndex + 1 = 0
        BY <1>1, <3>1
      <4> QED
        BY <3>1, <4>1, <1>3 DEF Trace
    <3>2. CASE ~(t < MinTickIndex)
      <4> DEFINE k == t - MinTickIndex + 1
      <4>1. k \in 1 .. N /\ t - 1 \in D /\ k - 1 = (t - 1) - MinTickIndex + 1 /\ MinTickIndex - 1 + k = t
        BY <1>1, <3>2
      <4>2. g[k] = step0[k][g[k - 1]] /\ g[k - 1] \in Int
        BY <1>3, <4>1, <1>4 DEF Trace
      <4>3. step0[k][g[k - 1]] = g[k - 1] + netAt(net, MinTickIndex - 1 + k)
        BY <4>1, <4>2
      <4> QED
        BY <4>1, <4>2, <4>3, <3>2
    <3> QED
      BY <3>1, <3>2
  <2> QED
    BY <2>1
<1> DEFINE P(f) == f = [t \in D |-> IF t < MinTickIndex THEN 0 ELSE f[t - 1] + netAt(net, t)]
           c == CHOOSE f : P(f)
<1>7. P(c)
  BY <1>6
<1>8. \A t \in D : LiquidityOf(net, t) = c[t]
  BY DEF LiquidityOf
<1> HIDE DEF c, u
<1>9. \A t \in D : c[t] = IF t < MinTickIndex THEN 0 ELSE c[t - 1] + netAt(net, t)
  BY <1>7
<1> DEFINE S == {k \in Nat : k \in 0 .. N => c[MinTickIndex - 1 + k] \in Int}
<1>10. 0 .. N \subseteq S
  <2>1. 0 \in S
    BY <1>1, <1>9
  <2>2. ASSUME NEW k \in 0 .. N - 1, k \in S PROVE k + 1 \in S
    <3>1. c[MinTickIndex - 1 + k] \in Int /\ MinTickIndex + k \in D /\ ~(MinTickIndex + k < MinTickIndex)
          /\ (MinTickIndex + k) - 1 = MinTickIndex - 1 + k /\ MinTickIndex - 1 + (k + 1) = MinTickIndex + k
          /\ netAt(net, MinTickIndex + k) \in Int
      BY <1>1, <2>2 DEF netAt
    <3>2. c[MinTickIndex + k] = c[MinTickIndex - 1 + k] + netAt(net, MinTickIndex + k)
      BY <3>1, <1>9
    <3> QED
      BY <3>1, <3>2
  <2> HIDE DEF S
  <2> QED
    BY <1>1, <2>1, <2>2, Induction
<1>11. \A t \in D : c[t] \in Int
  <2> TAKE t \in D
  <2>1. t - (MinTickIndex - 1) \in 0 .. N /\ MinTickIndex - 1 + (t - (MinTickIndex - 1)) = t
    BY <1>1
  <2> QED
    BY <2>1, <1>10
<1>12. MinTickIndex - 1 \in D /\ MinTickIndex - 1 < MinTickIndex
  BY <1>1
<1>13. \A t \in TickIndexes : t \in D /\ t - 1 \in D /\ ~(t < MinTickIndex)
  BY <1>1
<1> HIDE DEF D
<1> QED
  BY <1>8, <1>9, <1>11, <1>12, <1>13 DEF D

\* Between two ticks with no position's edge after the one and up to the other, the
\* liquidity is one.
LEMMA LiquidityStays ==
    ASSUME NEW net \in [Initialized -> Int], NEW t \in MinTickIndex - 1 .. MaxTickIndex, NEW u \in MinTickIndex - 1 .. MaxTickIndex,
           \A v \in TickIndexes : t < v /\ v <= u => netAt(net, v) = 0, t <= u
    PROVE  LiquidityOf(net, t) = LiquidityOf(net, u)
<1> DEFINE L(v) == LiquidityOf(net, v)
           N == u - t
           S == {k \in Nat : k <= N => L(t + k) = L(t)}
<1>1. MinTickIndex \in Int /\ MaxTickIndex \in Int /\ t \in Int /\ u \in Int /\ TickIndexes = MinTickIndex .. MaxTickIndex /\ N \in Nat
  BY TicksAreInts
<1>2. /\ \A v \in TickIndexes : L(v) = L(v - 1) + netAt(net, v)
      /\ \A v \in MinTickIndex - 1 .. MaxTickIndex : L(v) \in Int
  BY LiquidityAdds
<1> HIDE DEF L
<1>3. 0 \in S
  BY <1>1
<1>4. ASSUME NEW k \in 0 .. N - 1, k \in S PROVE k + 1 \in S
  <2> DEFINE v == t + k + 1
  <2>1. v \in TickIndexes /\ t < v /\ v <= u /\ v - 1 = t + k /\ t + (k + 1) = v /\ t + k \in MinTickIndex - 1 .. MaxTickIndex
    BY <1>1
  <2>2. netAt(net, v) = 0 /\ L(t + k) = L(t) /\ L(t + k) \in Int
    BY <1>1, <1>2, <1>4, <2>1
  <2>3. L(v) = L(v - 1) + netAt(net, v)
    BY <1>2, <2>1
  <2> HIDE DEF v
  <2> QED
    BY <2>1, <2>2, <2>3
<1> HIDE DEF S
<1>5. 0 .. N \subseteq S
  BY <1>1, <1>3, <1>4, Induction
<1>6. N \in S /\ t + N = u
  BY <1>1, <1>5
<1>7. L(u) = L(t)
  BY <1>1, <1>6 DEF S
<1> QED
  BY <1>7 DEF L

-----------------------------------------------------------------------------
\* One step along the curve

\* The target lies where the direction leads: below or at the price, above or at it.
Ahead(p, t, z) == IF z THEN t <= p ELSE p <= t

\* divCeil is the least quotient that covers: n <= m * d exactly when divCeil <= m.
LEMMA CeilIsLeast ==
    ASSUME NEW n \in Nat, NEW d \in Pos, NEW m \in Nat
    PROVE  /\ divCeil(n, d) \in Nat
           /\ n <= m * d <=> divCeil(n, d) <= m
BY RoundedUpIsLeast DEF divCeil

\* What a step down or up asks for and gives, as a quotient rounded up or down.
LEMMA DeltaIsQuotient ==
    ASSUME NEW p \in Pos, NEW t \in Pos, NEW L \in Nat
    PROVE  /\ t <= p => /\ p * t \in Pos /\ L * (p - t) * Q64 \in Nat /\ L * (p - t) \in Nat
                        /\ fixedDelta(p, t, L, TRUE) = divCeil(L * (p - t) * Q64, p * t)
                        /\ unfixedDelta(p, t, L, TRUE) = (L * (p - t)) \div Q64
           /\ p <= t => /\ t * p \in Pos /\ L * (t - p) * Q64 \in Nat /\ L * (t - p) \in Nat
                        /\ fixedDelta(p, t, L, FALSE) = divCeil(L * (t - p), Q64)
                        /\ unfixedDelta(p, t, L, FALSE) = (L * (t - p) * Q64) \div (t * p)
<1>1. Q64 \in Pos
  BY OrcaMathAssumption DEF Pos
<1>2. p * t \in Pos /\ t * p \in Pos
  BY DEF Pos
<1>3. ASSUME t <= p
      PROVE  /\ L * (p - t) * Q64 \in Nat /\ L * (p - t) \in Nat
             /\ bigMin(p, t) = t /\ bigMax(p, t) = p
  <2>1. p - t \in Nat /\ L * (p - t) \in Nat
    <3>1. p - t \in Nat
      BY <1>3 DEF Pos
    <3> QED
      BY <3>1, MulIsNat
  <2>2. L * (p - t) * Q64 \in Nat
    BY <1>1, <2>1, MulIsNat DEF Pos
  <2> QED
    BY <2>1, <2>2, <1>3 DEF bigMin, bigMax, Pos
<1>4. ASSUME p <= t
      PROVE  /\ L * (t - p) * Q64 \in Nat /\ L * (t - p) \in Nat
             /\ bigMin(p, t) = p /\ bigMax(p, t) = t
  <2>1. t - p \in Nat /\ L * (t - p) \in Nat
    <3>1. t - p \in Nat
      BY <1>4 DEF Pos
    <3> QED
      BY <3>1, MulIsNat
  <2>2. L * (t - p) * Q64 \in Nat
    BY <1>1, <2>1, MulIsNat DEF Pos
  <2> QED
    BY <2>1, <2>2, <1>4 DEF bigMin, bigMax, Pos
<1>5. ASSUME t <= p
      PROVE  /\ fixedDelta(p, t, L, TRUE) = divCeil(L * (p - t) * Q64, p * t)
             /\ unfixedDelta(p, t, L, TRUE) = (L * (p - t)) \div Q64
  BY <1>3, <1>5, Zenon DEF fixedDelta, unfixedDelta, GetDeltaAmountA, GetDeltaAmountB
<1>6. ASSUME p <= t
      PROVE  /\ fixedDelta(p, t, L, FALSE) = divCeil(L * (t - p), Q64)
             /\ unfixedDelta(p, t, L, FALSE) = (L * (t - p) * Q64) \div (t * p)
  BY <1>4, <1>6, Zenon DEF fixedDelta, unfixedDelta, GetDeltaAmountA, GetDeltaAmountB
<1> QED
  BY <1>2, <1>3, <1>4, <1>5, <1>6

\* An input that does not cover the way down to the target leaves the price above it
\* (NextSqrtPrice rounds a falling price up).
LEMMA FallStopsShort ==
    ASSUME NEW p \in Pos, NEW t \in Pos, NEW L \in Pos, NEW a \in Nat,
           t <= p, a < fixedDelta(p, t, L, TRUE)
    PROVE  t < NextSqrtPrice(p, L, a, TRUE)
<1> DEFINE X   == L * Q64
           num == L * (p - t) * Q64
<1>1. L \in Nat /\ Q64 \in Pos
  BY OrcaMathAssumption DEF Pos
<1>2. p * t \in Pos /\ num \in Nat /\ fixedDelta(p, t, L, TRUE) = divCeil(num, p * t)
  BY <1>1, DeltaIsQuotient
<1>3. X \in Pos /\ X * p \in Nat /\ X * t \in Nat /\ p * a \in Nat /\ t * (p * a) \in Nat
  <2>1. X \in Pos
    BY <1>1 DEF Pos
  <2> HIDE DEF X
  <2>2. p \in Nat /\ t \in Nat /\ X \in Nat
    BY <2>1 DEF Pos
  <2>3. p * a \in Nat
    BY <2>2, MulIsNat
  <2> QED
    BY <2>1, <2>2, <2>3, MulIsNat
<1>4. num = X * p - X * t
  <2>1. num = (L * Q64) * (p - t)
    BY <1>1 DEF Pos
  <2> HIDE DEF num
  <2>2. (L * Q64) * (p - t) = (L * Q64) * p - (L * Q64) * t
    BY <1>1 DEF Pos
  <2> QED
    BY <2>1, <2>2
<1>5. a * (p * t) = t * (p * a) /\ a * (p * t) \in Nat
  <2>1. a * (p * t) = t * (p * a)
    BY DEF Pos
  <2> QED
    BY <1>3, <2>1
<1>6. L * p * Q64 = X * p
  BY <1>1 DEF Pos
<1> HIDE DEF num, X
<1>7. ~(X * p <= X * t + t * (p * a))
  <2>1. divCeil(num, p * t) \in Nat /\ (num <= a * (p * t) <=> divCeil(num, p * t) <= a)
    BY <1>2, CeilIsLeast
  <2>2. a < divCeil(num, p * t)
    BY <1>2, Zenon
  <2>3. ~(num <= a * (p * t))
    BY <2>1, <2>2
  <2> QED
    BY <2>3, <1>3, <1>4, <1>5
<1>8. CASE a = 0
  <2>1. NextSqrtPrice(p, L, a, TRUE) = p
    BY <1>8 DEF NextSqrtPrice
  <2>2. t * (p * a) = 0
    BY <1>8 DEF Pos
  <2>3. t # p
    BY <1>3, <1>7, <2>2
  <2>4. t < p
    BY <2>3 DEF Pos
  <2> QED
    BY <2>1, <2>4, Zenon
<1>9. CASE a # 0
  <2> DEFINE d == X + p * a
             n == divCeil(X * p, d)
  <2>1. NextSqrtPrice(p, L, a, TRUE) = n
    BY <1>6, <1>9 DEF NextSqrtPrice, X
  <2>2. d \in Pos /\ t * d = X * t + t * (p * a) /\ t \in Nat
    <3>1. d \in Pos
      BY <1>3 DEF Pos
    <3>2. t * d = t * X + t * (p * a) /\ t * X = X * t
      BY <1>3 DEF Pos
    <3> QED
      BY <3>1, <3>2 DEF Pos
  <2> HIDE DEF d
  <2>3. n \in Nat /\ ~(n <= t)
    <3>1. divCeil(X * p, d) \in Nat /\ (X * p <= t * d <=> divCeil(X * p, d) <= t)
      BY <1>3, <2>2, CeilIsLeast
    <3> QED
      BY <3>1, <2>2, <1>7
  <2> HIDE DEF n
  <2>4. t < n
    BY <2>2, <2>3
  <2> QED
    BY <2>1, <2>4
<1> QED
  BY <1>8, <1>9

\* An input that does not cover the way up to the target leaves the price below it
\* (NextSqrtPrice rounds a rising price down).
LEMMA RiseStopsShort ==
    ASSUME NEW p \in Pos, NEW t \in Pos, NEW L \in Pos, NEW a \in Nat,
           p <= t, a < fixedDelta(p, t, L, FALSE)
    PROVE  NextSqrtPrice(p, L, a, FALSE) < t
<1> DEFINE k == (a * Q64) \div L
<1>1. L \in Nat /\ Q64 \in Pos /\ t - p \in Nat /\ (t - p) * L = L * (t - p) /\ a * Q64 \in Nat
  BY OrcaMathAssumption DEF Pos
<1>2. L * (t - p) \in Nat /\ fixedDelta(p, t, L, FALSE) = divCeil(L * (t - p), Q64)
  BY <1>1, DeltaIsQuotient
<1>3. ~(L * (t - p) <= a * Q64)
  <2>1. /\ divCeil(L * (t - p), Q64) \in Nat
        /\ L * (t - p) <= a * Q64 <=> divCeil(L * (t - p), Q64) <= a
    BY <1>1, <1>2, CeilIsLeast
  <2>2. a < divCeil(L * (t - p), Q64)
    BY <1>2, Zenon
  <2> QED
    BY <2>1, <2>2
<1>4. k \in Nat /\ ~(t - p <= k)
  BY <1>1, <1>3, FloorIsGreatest, DivFacts
<1>5. NextSqrtPrice(p, L, a, FALSE) = p + k
  BY DEF NextSqrtPrice
<1> HIDE DEF k
<1>6. p + k < t
  BY <1>4 DEF Pos
<1> QED
  BY <1>5, <1>6

\* What a falling price moves for is at most the input that moved it.
LEMMA FallIsPaid ==
    ASSUME NEW p \in Pos, NEW L \in Pos, NEW a \in Nat
    PROVE  LET n == NextSqrtPrice(p, L, a, TRUE)
           IN  /\ n \in Pos /\ n <= p
               /\ fixedDelta(p, n, L, TRUE) \in Nat
               /\ fixedDelta(p, n, L, TRUE) <= a
<1> DEFINE n == NextSqrtPrice(p, L, a, TRUE)
           X == L * Q64
           d == X + p * a
<1>1. X \in Pos /\ X * p \in Pos /\ p * a \in Nat /\ p * (p * a) \in Nat /\ d \in Pos
      /\ Q64 \in Pos /\ L \in Nat
  <2>1. X \in Pos /\ L \in Nat /\ Q64 \in Pos
    BY OrcaMathAssumption DEF Pos
  <2> HIDE DEF X
  <2>2. X * p \in Pos /\ p \in Nat
    BY <2>1 DEF Pos
  <2>3. p * a \in Nat
    BY <2>2, MulIsNat
  <2>4. p * (p * a) \in Nat
    BY <2>2, <2>3, MulIsNat
  <2>5. X + p * a \in Pos
    BY <2>1, <2>3 DEF Pos
  <2> QED
    BY <2>1, <2>2, <2>3, <2>4, <2>5
<1>2. L * p * Q64 = X * p
  BY <1>1 DEF Pos
<1>3. p * d = X * p + p * (p * a)
  <2> HIDE DEF X
  <2>1. p * d = p * X + p * (p * a) /\ p * X = X * p
    BY <1>1 DEF Pos
  <2> QED
    BY <2>1
<1> HIDE DEF d
<1>4. n \in Pos /\ n <= p /\ X * p <= n * d
  <2>1. CASE a = 0
    <3>1. n = p
      BY <2>1 DEF NextSqrtPrice
    <3> HIDE DEF n, X
    <3>2. X * p <= p * d
      BY <1>1, <1>3 DEF Pos
    <3> QED
      BY <3>1, <3>2 DEF Pos
  <2>2. CASE a # 0
    <3>1. n = divCeil(X * p, d)
      BY <1>2, <2>2 DEF NextSqrtPrice, d
    <3> HIDE DEF n, X
    <3>2. n \in Nat
      BY <1>1, <3>1, CeilIsLeast DEF Pos
    <3>3. X * p <= p * d
      BY <1>1, <1>3 DEF Pos
    <3>4. n <= p
      BY <1>1, <3>1, <3>3, CeilIsLeast DEF Pos
    <3>5. X * p <= n * d
      <4>1. X * p \in Nat
        BY <1>1 DEF Pos
      <4>2. X * p <= n * d <=> divCeil(X * p, d) <= n
        BY <4>1, <1>1, <3>2, CeilIsLeast
      <4> QED
        BY <4>2, <3>1, <3>2
    <3>6. n # 0
      <4>1. 0 * d = 0 /\ ~(X * p <= 0)
        BY <1>1 DEF Pos
      <4> QED
        BY <4>1, <3>5, Zenon
    <3> QED
      BY <3>2, <3>4, <3>5, <3>6 DEF Pos
  <2> QED
    BY <2>1, <2>2
<1> HIDE DEF n
<1> DEFINE num == L * (p - n) * Q64
<1>5. num \in Nat /\ p * n \in Pos /\ fixedDelta(p, n, L, TRUE) = divCeil(num, p * n)
  BY <1>1, <1>4, DeltaIsQuotient
<1>6. num <= a * (p * n)
  <2>1. num = (L * Q64) * (p - n)
    BY <1>1, <1>4 DEF Pos
  <2>2. X * (p - n) = X * p - X * n /\ X * n \in Int
    BY <1>1, <1>4 DEF Pos
  <2>3. n * d = X * n + n * (p * a) /\ n * (p * a) \in Int
    <3> HIDE DEF X
    <3>1. n * d = n * X + n * (p * a) /\ n * X = X * n /\ n * (p * a) \in Int
      BY <1>1, <1>4 DEF d, Pos
    <3> QED
      BY <3>1
  <2>4. a * (p * n) = n * (p * a)
    BY <1>4 DEF Pos
  <2>5. num = X * (p - n)
    BY <2>1
  <2> HIDE DEF num, X
  <2> QED
    BY <2>2, <2>3, <2>4, <2>5, <1>4, <1>1 DEF Pos
<1> HIDE DEF num
<1>7. divCeil(num, p * n) \in Nat /\ divCeil(num, p * n) <= a
  BY <1>5, <1>6, CeilIsLeast
<1> QED
  BY <1>4, <1>5, <1>7 DEF n

\* What a rising price moves for is at most the input that moved it.
LEMMA RiseIsPaid ==
    ASSUME NEW p \in Pos, NEW L \in Pos, NEW a \in Nat
    PROVE  LET n == NextSqrtPrice(p, L, a, FALSE)
           IN  /\ n \in Pos /\ p <= n
               /\ fixedDelta(p, n, L, FALSE) \in Nat
               /\ fixedDelta(p, n, L, FALSE) <= a
<1> DEFINE n == NextSqrtPrice(p, L, a, FALSE)
           k == (a * Q64) \div L
<1>1. Q64 \in Pos /\ a * Q64 \in Nat /\ L \in Nat
  BY OrcaMathAssumption DEF Pos
<1>2. k \in Nat /\ k * L <= a * Q64
  <2>1. k \in Nat
    BY <1>1, DivFacts
  <2> QED
    BY <1>1, <2>1, FloorIsGreatest
<1>3. n = p + k
  BY DEF NextSqrtPrice
<1> HIDE DEF n, k
<1>4. n \in Pos /\ p <= n /\ L * (n - p) = k * L /\ k * L \in Nat
  BY <1>2, <1>3 DEF Pos
<1>5. fixedDelta(p, n, L, FALSE) = divCeil(k * L, Q64)
  <2>1. fixedDelta(p, n, L, FALSE) = divCeil(L * (n - p), Q64)
    BY <1>1, <1>4, DeltaIsQuotient
  <2> QED
    BY <1>4, <2>1
<1> QED
  BY <1>1, <1>2, <1>4, <1>5, CeilIsLeast DEF n

\* What the way to a price ahead costs and gives are natural numbers, nothing without
\* liquidity.
LEMMA DeltaIsNat ==
    ASSUME NEW p \in Pos, NEW t \in Pos, NEW L \in Nat, NEW z \in BOOLEAN, Ahead(p, t, z)
    PROVE  /\ fixedDelta(p, t, L, z) \in Nat /\ unfixedDelta(p, t, L, z) \in Nat
           /\ L = 0 => fixedDelta(p, t, L, z) = 0
<1>1. Q64 \in Pos
  BY OrcaMathAssumption DEF Pos
<1>2. ASSUME NEW n \in Nat, NEW d \in Pos
      PROVE  divCeil(n, d) \in Nat /\ n \div d \in Nat /\ (n = 0 => divCeil(n, d) = 0)
  <2>1. divCeil(n, d) \in Nat /\ (n <= 0 * d <=> divCeil(n, d) <= 0)
    BY CeilIsLeast
  <2>2. 0 * d = 0
    BY DEF Pos
  <2> QED
    BY <2>1, <2>2, DivFacts
<1>3. CASE z = TRUE
  <2>1. t <= p
    BY <1>3 DEF Ahead
  <2>2. /\ p * t \in Pos /\ L * (p - t) * Q64 \in Nat /\ L * (p - t) \in Nat
        /\ fixedDelta(p, t, L, TRUE) = divCeil(L * (p - t) * Q64, p * t)
        /\ unfixedDelta(p, t, L, TRUE) = (L * (p - t)) \div Q64
    BY <2>1, DeltaIsQuotient
  <2>3. L = 0 => L * (p - t) * Q64 = 0
    <3>1. 0 * (p - t) = 0 /\ 0 * Q64 = 0
      BY <1>1 DEF Pos
    <3> QED
      BY <3>1
  <2> QED
    BY <1>1, <1>2, <1>3, <2>2, <2>3
<1>4. CASE z = FALSE
  <2>1. p <= t
    BY <1>4 DEF Ahead
  <2>2. /\ t * p \in Pos /\ L * (t - p) * Q64 \in Nat /\ L * (t - p) \in Nat
        /\ fixedDelta(p, t, L, FALSE) = divCeil(L * (t - p), Q64)
        /\ unfixedDelta(p, t, L, FALSE) = (L * (t - p) * Q64) \div (t * p)
    BY <2>1, DeltaIsQuotient
  <2>3. L = 0 => L * (t - p) = 0
    <3>1. 0 * (t - p) = 0
      BY DEF Pos
    <3> QED
      BY <3>1
  <2> QED
    BY <1>1, <1>2, <1>4, <2>2, <2>3
<1> QED
  BY <1>3, <1>4

\* What a step takes in and gives out is what the curve between its prices is worth,
\* rounded against the trader.
LEMMA DeltaIsTraded ==
    ASSUME NEW p \in Pos, NEW m \in Pos, NEW L \in Nat, NEW z \in BOOLEAN, Ahead(p, m, z)
    PROVE  Traded(L, Q64, p, m, fixedDelta(p, m, L, z), unfixedDelta(p, m, L, z), z)
<1> DEFINE in == fixedDelta(p, m, L, z)
           out == unfixedDelta(p, m, L, z)
<1>1. Q64 \in Pos /\ in \in Nat /\ out \in Nat
  BY DeltaIsNat, OrcaMathAssumption DEF Pos
<1>2. CASE z = TRUE
  <2> DEFINE A == L * (p - m) * Q64
             B == L * (p - m)
             d == p * m
  <2>1. m <= p
    BY <1>2 DEF Ahead
  <2>2. d \in Pos /\ A \in Nat /\ B \in Nat /\ in = divCeil(A, d) /\ out = B \div Q64
    BY <1>2, <2>1, DeltaIsQuotient
  <2> HIDE DEF A, B, d, in, out
  <2>3. A <= in * d
    BY <1>1, <2>2, CeilIsLeast
  <2>4. out * Q64 <= B
    BY <1>1, <2>2, FloorIsGreatest
  <2> QED
    BY <1>2, <2>3, <2>4 DEF Traded, A, B, d, in, out
<1>3. CASE z = FALSE
  <2> DEFINE A == L * (m - p) * Q64
             B == L * (m - p)
             d == m * p
  <2>1. p <= m
    BY <1>3 DEF Ahead
  <2>2. d \in Pos /\ A \in Nat /\ B \in Nat /\ in = divCeil(B, Q64) /\ out = A \div d
    BY <1>3, <2>1, DeltaIsQuotient
  <2>0. d = p * m
    BY DEF Pos
  <2> HIDE DEF A, B, d, in, out
  <2>3. B <= in * Q64
    BY <1>1, <2>2, CeilIsLeast
  <2>4. out * d <= A
    BY <1>1, <2>2, FloorIsGreatest
  <2>5. out * (p * m) <= A
    BY <2>0, <2>4
  <2> QED
    BY <1>3, <2>3, <2>5 DEF Traded, A, B, in, out
<1> QED
  BY <1>2, <1>3

\* The input without its fee covers the input: postFeeAmount rounds down.
LEMMA PostFeeFits ==
    ASSUME NEW remaining \in Nat, NEW f \in 0 .. feeRateMulValue - 1
    PROVE  /\ postFeeAmount(remaining, f) \in 0 .. remaining
           /\ postFeeAmount(remaining, f) * feeRateMulValue <= remaining * (feeRateMulValue - f)
<1> DEFINE D == feeRateMulValue
           g == D - f
           k == (remaining * g) \div D
<1>1. D \in Pos /\ g \in Nat /\ g <= D
  BY TicksAreInts DEF Pos
<1> HIDE DEF D, g
<1>2. remaining * g \in Nat /\ g * remaining <= D * remaining /\ remaining * g = g * remaining
      /\ D * remaining = remaining * D /\ remaining * D \in Nat
  BY <1>1, MulIsNat, MulMonotone DEF Pos
<1>3. k \in Nat /\ k * D <= remaining * g
  <2>1. k \in Nat
    BY <1>1, <1>2, DivFacts
  <2> QED
    BY <2>1, <1>1, <1>2, FloorIsGreatest
<1> HIDE DEF k
<1>4. k <= remaining
  <2>1. remaining < k => remaining * D < k * D
    BY <1>1, <1>3, MulStrict
  <2>2. k * D \in Nat
    BY <1>1, <1>3, MulIsNat DEF Pos
  <2> QED
    BY <2>1, <2>2, <1>2, <1>3
<1>5. postFeeAmount(remaining, f) = k
  BY DEF postFeeAmount, k, g, D
<1> QED
  BY <1>3, <1>4, <1>5 DEF g, D

\* Charging the rate on what a step used comes to no more than what the rate was kept
\* back from.
LEMMA FeeFitsRemaining ==
    ASSUME NEW remaining \in Nat, NEW f \in 0 .. feeRateMulValue - 1, NEW in \in Nat,
           in <= postFeeAmount(remaining, f)
    PROVE  /\ divCeil(in * f, feeRateMulValue - f) \in Nat
           /\ in + divCeil(in * f, feeRateMulValue - f) <= remaining
<1> DEFINE D == feeRateMulValue
           g == D - f
           c == postFeeAmount(remaining, f)
<1>1. D \in Pos /\ g \in Pos /\ f \in Nat /\ g + f = D
  BY TicksAreInts DEF Pos
<1>2. c \in Nat /\ c <= remaining /\ c * D <= remaining * g
  BY PostFeeFits
<1>3. in <= c
  OBVIOUS
<1> HIDE DEF D, g, c
<1>4. remaining * g \in Nat /\ in * f \in Nat /\ in * D \in Nat /\ c * D \in Nat /\ in * g \in Nat
  BY <1>1, <1>2, MulIsNat DEF Pos
<1>5. in * D <= c * D
  BY <1>1, <1>2, <1>3, MulMonotone DEF Pos
<1>6. in * D = in * g + in * f /\ (remaining - in) * g = remaining * g - in * g
  BY <1>1 DEF Pos
<1>7. in * f <= (remaining - in) * g /\ remaining - in \in Nat
  BY <1>2, <1>3, <1>4, <1>5, <1>6
<1>8. divCeil(in * f, g) \in Nat /\ divCeil(in * f, g) <= remaining - in
  BY <1>1, <1>4, <1>7, CeilIsLeast
<1> QED
  BY <1>8, <1>2, <1>3 DEF g, D

\* A step ends between its price and its target, takes at most what remains, and all of
\* it when it ends short of the target.
Arrives(r, p, t, L, remaining, z) ==
    /\ r.nextPrice \in Pos
    /\ Ahead(p, r.nextPrice, z) /\ Ahead(r.nextPrice, t, z)
    /\ r.amountIn \in Nat /\ r.amountOut \in Nat /\ r.feeAmount \in Nat
    /\ r.amountIn = fixedDelta(p, r.nextPrice, L, z)
    /\ r.amountOut = unfixedDelta(p, r.nextPrice, L, z)
    /\ r.ok <=> r.amountIn <= MaxU64 /\ r.amountOut <= MaxU64 /\ r.feeAmount <= MaxU64
    /\ r.amountIn + r.feeAmount <= remaining
    /\ r.nextPrice # t => r.amountIn + r.feeAmount = remaining

LEMMA StepArrives ==
    ASSUME NEW p \in Pos, NEW t \in Pos, NEW L \in Nat, NEW remaining \in 0 .. MaxU64,
           NEW f \in 0 .. feeRateMulValue - 1, NEW z \in BOOLEAN, Ahead(p, t, z)
    PROVE  Arrives(computeSwapStep(remaining, f, L, p, t, z), p, t, L, remaining, z)
<1> DEFINE a      == postFeeAmount(remaining, f)
           whole  == fixedDelta(p, t, L, z)
           paid   == whole <= MaxU64 /\ whole <= a
           m      == NextSqrtPrice(p, L, a, z)
           n      == IF paid THEN t ELSE m
           in     == fixedDelta(p, n, L, z)
           out    == unfixedDelta(p, n, L, z)
           fee    == divCeil(in * f, feeRateMulValue - f)
           r      == computeSwapStep(remaining, f, L, p, t, z)
<1>1. remaining \in Nat /\ remaining <= MaxU64 /\ MaxU64 \in Nat /\ a \in Nat /\ a <= remaining
  <2>1. remaining \in Nat /\ remaining <= MaxU64 /\ MaxU64 \in Nat
    BY TicksAreInts
  <2>2. a \in 0 .. remaining
    BY <2>1, PostFeeFits
  <2> QED
    BY <2>1, <2>2
<1>2. whole \in Nat /\ (L = 0 => whole = 0)
  BY DeltaIsNat
<1>3. r = [amountIn |-> in, amountOut |-> out, feeAmount |-> IF n = t THEN fee ELSE remaining - in,
           nextPrice |-> n,
           ok |-> in <= MaxU64 /\ out <= MaxU64
                  /\ (IF n = t THEN fee ELSE remaining - in) <= MaxU64]
  BY DEF computeSwapStep, stepFee
<1>4. ~paid => a < whole /\ L \in Pos
  <2> HIDE DEF a, whole
  <2>1. L # 0 => L \in Pos
    BY DEF Pos
  <2> QED
    BY <1>1, <1>2, <2>1
<1>5. n \in Pos /\ Ahead(p, n, z) /\ Ahead(n, t, z) /\ in \in Nat /\ in <= a
  <2>1. CASE paid
    <3>1. n = t /\ in = whole
      BY <2>1
    <3>2. Ahead(t, t, z)
      BY DEF Ahead, Pos
    <3> HIDE DEF n, in, whole, a
    <3> QED
      BY <2>1, <3>1, <3>2, <1>2
  <2>2. CASE ~paid
    <3>1. n = m /\ a < whole /\ L \in Pos
      BY <2>2, <1>4
    <3> HIDE DEF paid
    <3>2. CASE z = TRUE
      <4>1. t <= p /\ a < fixedDelta(p, t, L, TRUE)
        BY <3>1, <3>2, Zenon DEF Ahead
      <4>2. t < NextSqrtPrice(p, L, a, TRUE)
        BY <1>1, <3>1, <4>1, FallStopsShort
      <4>3. LET x == NextSqrtPrice(p, L, a, TRUE)
            IN  /\ x \in Pos /\ x <= p
                /\ fixedDelta(p, x, L, TRUE) \in Nat /\ fixedDelta(p, x, L, TRUE) <= a
        BY <1>1, <3>1, FallIsPaid
      <4>4. t < n /\ n \in Pos /\ n <= p /\ in \in Nat /\ in <= a
        BY <3>1, <3>2, <4>2, <4>3, Zenon
      <4> HIDE DEF n, in, a
      <4>5. t <= n
        BY <4>4 DEF Pos
      <4> QED
        BY <3>2, <4>4, <4>5, Zenon DEF Ahead
    <3>3. CASE z = FALSE
      <4>1. p <= t /\ a < fixedDelta(p, t, L, FALSE)
        BY <3>1, <3>3, Zenon DEF Ahead
      <4>2. NextSqrtPrice(p, L, a, FALSE) < t
        BY <1>1, <3>1, <4>1, RiseStopsShort
      <4>3. LET x == NextSqrtPrice(p, L, a, FALSE)
            IN  /\ x \in Pos /\ p <= x
                /\ fixedDelta(p, x, L, FALSE) \in Nat /\ fixedDelta(p, x, L, FALSE) <= a
        BY <1>1, <3>1, RiseIsPaid
      <4>4. n < t /\ n \in Pos /\ p <= n /\ in \in Nat /\ in <= a
        BY <3>1, <3>3, <4>2, <4>3, Zenon
      <4> HIDE DEF n, in, a
      <4>5. n <= t
        BY <4>4 DEF Pos
      <4> QED
        BY <3>3, <4>4, <4>5, Zenon DEF Ahead
    <3> QED
      BY <3>2, <3>3
  <2> QED
    BY <2>1, <2>2
<1>6. out \in Nat
  <2> HIDE DEF n
  <2> QED
    BY <1>5, DeltaIsNat
<1>7. fee \in Nat /\ in + fee <= remaining
  <2> HIDE DEF in
  <2> QED
    BY <1>1, <1>5, FeeFitsRemaining
<1>8. /\ r.nextPrice = n /\ r.amountIn = in /\ r.amountOut = out
      /\ r.feeAmount = IF n = t THEN fee ELSE remaining - in
      /\ r.ok <=> in <= MaxU64 /\ out <= MaxU64 /\ (IF n = t THEN fee ELSE remaining - in) <= MaxU64
  <2> HIDE DEF n, in, out, fee, r
  <2> QED
    BY <1>3
<1>9. in = fixedDelta(p, n, L, z) /\ out = unfixedDelta(p, n, L, z)
  OBVIOUS
<1> HIDE DEF n, in, out, fee, a
<1>10. r.feeAmount \in Nat /\ in + r.feeAmount <= remaining /\ (n # t => in + r.feeAmount = remaining)
  <2> HIDE DEF r
  <2> QED
    BY <1>1, <1>5, <1>7, <1>8
<1> HIDE DEF r
<1>11. Arrives(r, p, t, L, remaining, z)
  BY <1>5, <1>6, <1>8, <1>9, <1>10 DEF Arrives
<1> QED
  BY <1>11 DEF r

-----------------------------------------------------------------------------
\* Tick arrays

Multiple(t, d) == \E k \in Int : t = k * d

LEMMA RemainderOfMultiple ==
    ASSUME NEW t \in Int, NEW d \in Pos
    PROVE  t % d = 0 <=> Multiple(t, d)
<1> DEFINE j == t \div d
           r == t % d
<1>1. j \in Int /\ r \in 0 .. d - 1 /\ t = d * j + r /\ d * j = j * d
  BY DEF Pos
<1> HIDE DEF j, r
<1>2. r = 0 => Multiple(t, d)
  BY <1>1 DEF Multiple, Pos
<1>3. ASSUME Multiple(t, d) PROVE r = 0
  <2>1. PICK k \in Int : t = k * d
    BY <1>3 DEF Multiple
  <2>2. /\ k + 1 <= j => (k + 1) * d <= j * d
        /\ j + 1 <= k => (j + 1) * d <= k * d
    BY <1>1, MulMonotone DEF Pos
  <2>3. (k + 1) * d = k * d + d /\ (j + 1) * d = j * d + d /\ k * d \in Int /\ j * d \in Int
    BY <1>1 DEF Pos
  <2>4. k = j
    BY <1>1, <2>1, <2>2, <2>3 DEF Pos
  <2> QED
    BY <1>1, <2>1, <2>3, <2>4
<1> QED
  BY <1>2, <1>3 DEF r

LEMMA MultiplesApart ==
    ASSUME NEW d \in Pos, NEW t \in Int, NEW u \in Int, Multiple(t, d), Multiple(u, d), t < u
    PROVE  t + d <= u
<1>1. PICK k \in Int : t = k * d
  BY DEF Multiple
<1>2. PICK j \in Int : u = j * d
  BY DEF Multiple
<1>3. j <= k => j * d <= k * d
  BY MulMonotone DEF Pos
<1>4. k + 1 <= j => (k + 1) * d <= j * d
  BY MulMonotone DEF Pos
<1>5. (k + 1) * d = k * d + d
  BY DEF Pos
<1> QED
  BY <1>1, <1>2, <1>3, <1>4, <1>5 DEF Pos

LEMMA MultipleShifts ==
    ASSUME NEW d \in Pos, NEW t \in Int, Multiple(t, d), NEW i \in Int
    PROVE  i * d \in Int /\ t + i * d \in Int /\ Multiple(t + i * d, d) /\ Multiple(t + d, d) /\ Multiple(t - d, d)
<1>1. PICK k \in Int : t = k * d
  BY DEF Multiple
<1>2. (k + i) * d = k * d + i * d /\ (k + 1) * d = k * d + d /\ (k - 1) * d = k * d - d
      /\ i * d \in Int /\ k * d \in Int
  BY DEF Pos
<1>3. k + i \in Int /\ k + 1 \in Int /\ k - 1 \in Int
  OBVIOUS
<1> QED
  BY <1>1, <1>2, <1>3 DEF Multiple

LEMMA MultipleOfMultiple ==
    ASSUME NEW d \in Pos, NEW e \in Pos, NEW t \in Int, Multiple(t, d), Multiple(d, e)
    PROVE  Multiple(t, e)
<1>1. PICK k \in Int : t = k * d
  BY DEF Multiple
<1>2. PICK j \in Int : d = j * e
  BY DEF Multiple
<1>3. t = (k * j) * e /\ k * j \in Int
  BY <1>1, <1>2 DEF Pos
<1> QED
  BY <1>3 DEF Multiple

\* The greatest multiple up to a tick.
LEMMA FloorIsMultiple ==
    ASSUME NEW t \in Int, NEW d \in Pos
    PROVE  LET a == (t \div d) * d
           IN  a \in Int /\ Multiple(a, d) /\ a <= t /\ t < a + d
<1> DEFINE j == t \div d
           r == t % d
<1>1. j \in Int /\ r \in 0 .. d - 1 /\ t = d * j + r /\ d * j = j * d /\ j * d \in Int
  BY DEF Pos
<1> HIDE DEF r
<1> SUFFICES j * d \in Int /\ Multiple(j * d, d) /\ j * d <= t /\ t < j * d + d
  OBVIOUS
<1> HIDE DEF j
<1> QED
  BY <1>1 DEF Multiple, Pos

LEMMA SpanFacts ==
    /\ span \in Pos /\ TickSpacing \in Pos /\ TickSpacing <= span /\ Multiple(span, TickSpacing)
    /\ \A t \in Initialized : t \in TickIndexes /\ t \in Int /\ Multiple(t, TickSpacing)
<1>1. TickSpacing \in Pos /\ TicksPerArray \in Pos
  BY TickArraysAssumption DEF Pos
<1>2. span = TicksPerArray * TickSpacing /\ span \in Pos
  BY <1>1 DEF span, Pos
<1>3. 1 * TickSpacing <= TicksPerArray * TickSpacing
  BY <1>1, MulMonotone DEF Pos
<1>4. ASSUME NEW t \in Initialized
      PROVE  t \in TickIndexes /\ t \in Int /\ Multiple(t, TickSpacing)
  <2>1. t \in TickIndexes /\ t % TickSpacing = 0
    BY TickArraysAssumption
  <2>2. t \in Int
    BY <2>1, TicksAreInts
  <2> QED
    BY <1>1, <2>1, <2>2, RemainderOfMultiple
<1> QED
  BY <1>1, <1>2, <1>3, <1>4 DEF Multiple, Pos

LEMMA ArrayOfTick ==
    ASSUME NEW t \in Int
    PROVE  LET a == TickArrayStartIndex(t)
           IN  a \in Int /\ Multiple(a, span) /\ a <= t /\ t < a + span
BY SpanFacts, FloorIsMultiple DEF TickArrayStartIndex

\* The search up starts at the next multiple of the spacing.
LEMMA FirstTickFacts ==
    ASSUME NEW t \in Int
    PROVE  /\ firstTick(t, TRUE) = t
           /\ LET f == firstTick(t, FALSE)
              IN  /\ f \in Int /\ Multiple(f, TickSpacing) /\ t < f /\ f <= t + TickSpacing
                  /\ \A u \in Int : Multiple(u, TickSpacing) => /\ t < u <=> f <= u
                                                                /\ u <= t + TickSpacing <=> u <= f
<1>1. firstTick(t, TRUE) = t
  BY DEF firstTick
<1> DEFINE c == (t \div TickSpacing) * TickSpacing
           f == c + TickSpacing
<1>2. firstTick(t, FALSE) = f
  BY DEF firstTick, floorToSpacing
<1>3. c \in Int /\ Multiple(c, TickSpacing) /\ c <= t /\ t < c + TickSpacing /\ TickSpacing \in Pos
  BY SpanFacts, FloorIsMultiple
<1> HIDE DEF c
<1>4. f \in Int /\ Multiple(f, TickSpacing) /\ Multiple(f + TickSpacing, TickSpacing)
  <2>1. f \in Int /\ Multiple(f, TickSpacing)
    BY <1>3, MultipleShifts DEF Pos
  <2> HIDE DEF f
  <2> QED
    BY <1>3, <2>1, MultipleShifts
<1>5. ASSUME NEW u \in Int, Multiple(u, TickSpacing)
      PROVE  /\ t < u <=> f <= u
             /\ u <= t + TickSpacing <=> u <= f
  <2>1. c < u => c + TickSpacing <= u
    BY <1>3, <1>5, MultiplesApart
  <2>2. f < u => f + TickSpacing <= u
    <3> HIDE DEF f
    <3> QED
      BY <1>3, <1>4, <1>5, MultiplesApart
  <2> QED
    BY <1>3, <2>1, <2>2 DEF Pos
<1> QED
  BY <1>1, <1>2, <1>3, <1>4, <1>5 DEF Pos

\* The arrays a search looks at lie side by side.
LEMMA ArrayAtFacts ==
    ASSUME NEW t \in Int, NEW z \in BOOLEAN, NEW n \in Nat
    PROVE  /\ arrayAt(t, z, n) \in Int /\ Multiple(arrayAt(t, z, n), span)
           /\ firstTick(t, z) \in Int
           /\ arrayAt(t, z, 0) = TickArrayStartIndex(firstTick(t, z))
           /\ arrayAt(t, z, 0) <= firstTick(t, z) /\ firstTick(t, z) < arrayAt(t, z, 0) + span
           /\ arrayAt(t, z, n + 1) = IF z THEN arrayAt(t, z, n) - span ELSE arrayAt(t, z, n) + span
           /\ \A k \in Nat : k < n => IF z THEN arrayAt(t, z, n) + span <= arrayAt(t, z, k)
                                          ELSE arrayAt(t, z, k) + span <= arrayAt(t, z, n)
<1> DEFINE f == firstTick(t, z)
           a == TickArrayStartIndex(f)
<1>1. f \in Int
  BY FirstTickFacts
<1>2. a \in Int /\ Multiple(a, span) /\ a <= f /\ f < a + span
  BY <1>1, ArrayOfTick
<1>3. \A k \in Nat : arrayAt(t, z, k) = a + (IF z THEN -k ELSE k) * span
  BY DEF arrayAt
<1>4. span \in Pos
  BY SpanFacts
<1> HIDE DEF f, a
<1>5. \A k \in Int : k * span \in Int /\ (k + 1) * span = k * span + span /\ (-k) * span = -(k * span)
      /\ (k - 1) * span = k * span - span
  BY <1>4 DEF Pos
<1>6. arrayAt(t, z, n) \in Int /\ Multiple(arrayAt(t, z, n), span)
  <2>1. (IF z THEN -n ELSE n) \in Int
    OBVIOUS
  <2> QED
    BY <2>1, <1>2, <1>3, <1>4, MultipleShifts
<1>7. arrayAt(t, z, n + 1) = IF z THEN arrayAt(t, z, n) - span ELSE arrayAt(t, z, n) + span
  <2> DEFINE x == arrayAt(t, z, n)
             y == arrayAt(t, z, n + 1)
  <2>1. n + 1 \in Nat
    OBVIOUS
  <2>2. x = a + (IF z THEN -n ELSE n) * span /\ y = a + (IF z THEN -(n + 1) ELSE n + 1) * span
    BY <1>3, <2>1
  <2>3. n * span \in Int /\ (n + 1) * span = n * span + span /\ (-n) * span = -(n * span)
        /\ (-(n + 1)) * span = -((n + 1) * span)
    BY <1>5, <2>1
  <2> HIDE DEF x, y
  <2>4. y = IF z THEN x - span ELSE x + span
    BY <2>2, <2>3, <1>2, <1>4 DEF Pos
  <2> QED
    BY <2>4 DEF x, y
<1>8. ASSUME NEW k \in Nat, k < n
      PROVE  IF z THEN arrayAt(t, z, n) + span <= arrayAt(t, z, k)
                  ELSE arrayAt(t, z, k) + span <= arrayAt(t, z, n)
  <2>1. (k + 1) * span <= n * span
    BY <1>4, <1>8, MulMonotone DEF Pos
  <2>2. k * span \in Int /\ n * span \in Int /\ (k + 1) * span = k * span + span
        /\ (-k) * span = -(k * span) /\ (-n) * span = -(n * span)
    BY <1>5
  <2> QED
    BY <1>2, <1>3, <1>4, <2>1, <2>2 DEF Pos
<1>9. arrayAt(t, z, 0) = a
  <2>1. (IF z THEN -0 ELSE 0) * span = 0
    BY <1>4 DEF Pos
  <2> QED
    BY <1>3, <2>1, <1>2
<1> QED
  BY <1>1, <1>2, <1>6, <1>7, <1>8, <1>9 DEF f, a

\* An array from the first on is one of those the search looks at.
LEMMA ArrayHasIndex ==
    ASSUME NEW t \in Int, NEW z \in BOOLEAN, NEW a \in Int, Multiple(a, span),
           IF z THEN a <= arrayAt(t, z, 0) ELSE arrayAt(t, z, 0) <= a
    PROVE  \E k \in Nat : a = arrayAt(t, z, k)
<1> DEFINE c == arrayAt(t, z, 0)
           g == TickArrayStartIndex(firstTick(t, z))
<1>1. span \in Pos /\ c \in Int /\ Multiple(c, span) /\ c = g
  BY SpanFacts, ArrayAtFacts
<1>2. \A k \in Nat : arrayAt(t, z, k) = g + (IF z THEN -k ELSE k) * span
  BY DEF arrayAt
<1> HIDE DEF c, g
<1>3. PICK i \in Int : c = i * span
  BY <1>1 DEF Multiple
<1>4. PICK j \in Int : a = j * span
  BY DEF Multiple
<1>5. /\ i < j => i * span < j * span
      /\ j < i => j * span < i * span
  BY <1>1, MulStrict
<1>6. IF z THEN a <= c ELSE c <= a
  BY DEF c
<1>7. i * span \in Int /\ j * span \in Int
  BY <1>1 DEF Pos
<1>8. CASE z
  <2>1. i - j \in Nat
    BY <1>3, <1>4, <1>5, <1>6, <1>7, <1>8
  <2>2. (-(i - j)) * span = j * span - i * span
    BY <1>1 DEF Pos
  <2>3. arrayAt(t, z, i - j) = g + (-(i - j)) * span
    BY <1>2, <1>8, <2>1
  <2>4. a = arrayAt(t, z, i - j)
    BY <2>2, <2>3, <1>1, <1>3, <1>4, <1>7
  <2> QED
    BY <2>1, <2>4
<1>9. CASE ~z
  <2>1. j - i \in Nat
    BY <1>3, <1>4, <1>5, <1>6, <1>7, <1>9
  <2>2. (j - i) * span = j * span - i * span
    BY <1>1 DEF Pos
  <2>3. arrayAt(t, z, j - i) = g + (j - i) * span
    BY <1>2, <1>9, <2>1
  <2>4. a = arrayAt(t, z, j - i)
    BY <2>2, <2>3, <1>1, <1>3, <1>4, <1>7
  <2> QED
    BY <2>1, <2>4
<1> QED
  BY <1>8, <1>9

\* Min and Max of a set of integers with a bound.
LEMMA LeastInteger ==
    ASSUME NEW S \in SUBSET Int, S # {}, NEW lo \in Int, \A x \in S : lo <= x
    PROVE  Min(S) \in S /\ \A x \in S : Min(S) <= x
<1> DEFINE T == {n \in Nat : lo + n \in S}
<1>1. T \in SUBSET Nat /\ T # {}
  <2>1. PICK x \in S : TRUE
    OBVIOUS
  <2>2. x - lo \in Nat /\ lo + (x - lo) = x
    BY <2>1
  <2> QED
    BY <2>1, <2>2
<1>2. PICK n \in T : \A m \in T : n <= m
  <2> HIDE DEF T
  <2> QED
    BY <1>1, LeastNatural
<1>3. ASSUME NEW x \in S PROVE lo + n <= x
  <2>1. x - lo \in Nat /\ lo + (x - lo) = x
    OBVIOUS
  <2>2. x - lo \in T
    BY <2>1
  <2>3. n <= x - lo /\ n \in Nat
    BY <1>2, <2>2
  <2> QED
    BY <2>3
<1>4. \E x \in S : \A y \in S : x <= y
  BY <1>2, <1>3
<1> QED
  BY <1>4 DEF Min

LEMMA GreatestInteger ==
    ASSUME NEW S \in SUBSET Int, S # {}, NEW hi \in Int, \A x \in S : x <= hi
    PROVE  Max(S) \in S /\ \A x \in S : x <= Max(S)
<1> DEFINE T == {n \in Nat : hi - n \in S}
<1>1. T \in SUBSET Nat /\ T # {}
  <2>1. PICK x \in S : TRUE
    OBVIOUS
  <2>2. hi - x \in Nat /\ hi - (hi - x) = x
    BY <2>1
  <2> QED
    BY <2>1, <2>2
<1>2. PICK n \in T : \A m \in T : n <= m
  <2> HIDE DEF T
  <2> QED
    BY <1>1, LeastNatural
<1>3. ASSUME NEW x \in S PROVE x <= hi - n
  <2>1. hi - x \in Nat /\ hi - (hi - x) = x
    OBVIOUS
  <2>2. hi - x \in T
    BY <2>1
  <2>3. n <= hi - x /\ n \in Nat
    BY <1>2, <2>2
  <2> QED
    BY <2>3
<1>4. \E x \in S : \A y \in S : x >= y
  <2>1. hi - n \in S /\ \A y \in S : hi - n >= y
    BY <1>2, <1>3
  <2> QED
    BY <2>1
<1>5. Max(S) \in S /\ \A y \in S : Max(S) >= y
  BY <1>4 DEF Max
<1> QED
  BY <1>5

\* The starts an array may have: the multiples that overlap the ticks, and the one behind
\* the first tick even where that tick starts an array.
LEMMA ValidStart ==
    ASSUME NEW a \in Int
    PROVE  validStartTick(a) <=> Multiple(a, span) /\ MinTickIndex - span <= a /\ a <= MaxTickIndex
<1> DEFINE k == (-MinTickIndex) \div span
           r == (-MinTickIndex) % span
           e == MinTickIndex - (goRem(MinTickIndex, span) + span)
<1>1. span \in Pos /\ MinTickIndex \in Int /\ MaxTickIndex \in Int /\ MinTickIndex < 0 /\ 0 < MaxTickIndex
  BY SpanFacts, TicksAreInts
<1>2. k \in Int /\ r \in 0 .. span - 1 /\ -MinTickIndex = span * k + r
  BY <1>1 DEF Pos
<1>3. e = MinTickIndex - (MinTickIndex - span * (-k) + span)
  BY <1>1 DEF goRem, goQuo
<1> HIDE DEF k, r, e
<1>4. span * (-k) = -(span * k) /\ span * k \in Int /\ (-(k + 1)) * span = -(span * k) - span
      /\ -(k + 1) \in Int
  BY <1>1, <1>2 DEF Pos
<1>5. e = (-(k + 1)) * span /\ e \in Int /\ MinTickIndex - span <= e /\ e < MinTickIndex
  BY <1>1, <1>2, <1>3, <1>4 DEF Pos
<1>6. Multiple(e, span)
  BY <1>4, <1>5 DEF Multiple
<1>7. Multiple(a, span) => (a < e => a + span <= e) /\ (e < a => e + span <= a)
  BY <1>1, <1>5, <1>6, MultiplesApart
<1>8. validStartTick(a) <=> IF a < MinTickIndex \/ a > MaxTickIndex
                            THEN a <= MinTickIndex /\ a = e ELSE Multiple(a, span)
  BY <1>1, RemainderOfMultiple DEF validStartTick, e
<1> QED
  BY <1>1, <1>5, <1>6, <1>7, <1>8 DEF Pos

\* The second and third array of a walk.
LEMMA ThreeArrays ==
    ASSUME NEW t \in Int, NEW z \in BOOLEAN
    PROVE  /\ arrayAt(t, z, 0) \in Int /\ arrayAt(t, z, 1) \in Int /\ arrayAt(t, z, 2) \in Int
           /\ arrayAt(t, z, 1) = IF z THEN arrayAt(t, z, 0) - span ELSE arrayAt(t, z, 0) + span
           /\ arrayAt(t, z, 2) = IF z THEN arrayAt(t, z, 0) - 2 * span ELSE arrayAt(t, z, 0) + 2 * span
           /\ arrayAt(t, z, 3) = IF z THEN arrayAt(t, z, 0) - 3 * span ELSE arrayAt(t, z, 0) + 3 * span
<1> DEFINE a == arrayAt(t, z, 0)
           c == arrayAt(t, z, 1)
           d == arrayAt(t, z, 2)
           e == arrayAt(t, z, 3)
<1>1. span \in Pos
  BY SpanFacts
<1>2. \A n \in Nat : /\ arrayAt(t, z, n) \in Int
                   /\ arrayAt(t, z, n + 1) = IF z THEN arrayAt(t, z, n) - span
                                                 ELSE arrayAt(t, z, n) + span
  BY ArrayAtFacts
<1>3. a \in Int /\ arrayAt(t, z, 0 + 1) = IF z THEN a - span ELSE a + span
  BY <1>2, 0 \in Nat
<1>4. c \in Int /\ arrayAt(t, z, 1 + 1) = IF z THEN c - span ELSE c + span
  BY <1>2, 1 \in Nat
<1>5. d \in Int /\ arrayAt(t, z, 2 + 1) = IF z THEN d - span ELSE d + span
  BY <1>2, 2 \in Nat
<1>6. c = arrayAt(t, z, 0 + 1) /\ d = arrayAt(t, z, 1 + 1) /\ e = arrayAt(t, z, 2 + 1)
  OBVIOUS
<1> HIDE DEF a, c, d, e
<1>7. /\ c \in Int /\ d \in Int
      /\ d = IF z THEN a - 2 * span ELSE a + 2 * span
      /\ e = IF z THEN a - 3 * span ELSE a + 3 * span
  BY <1>1, <1>3, <1>4, <1>5, <1>6 DEF Pos
<1> QED
  BY <1>3, <1>7 DEF a, c, d, e

\* The arrays of a swap are the valid ones among the first three its walk looks at.
LEMMA StartsAreArrays ==
    ASSUME NEW t \in Int, NEW z \in BOOLEAN, NEW a
    PROVE  a \in SwapTickArrayStarts(t, z) <=>
               /\ a \in {arrayAt(t, z, 0), arrayAt(t, z, 1), arrayAt(t, z, 2)}
               /\ validStartTick(a)
<1> DEFINE base  == TickArrayStartIndex(t)
           shift == IF t + TickSpacing >= base + span THEN 1 ELSE 0
           first == arrayAt(t, z, 0)
           x(i)  == base + (IF z THEN -i ELSE i + shift) * span
<1>1. span \in Pos /\ TickSpacing \in Pos /\ TickSpacing <= span
  BY SpanFacts
<1>2. base \in Int /\ Multiple(base, span) /\ base <= t /\ t < base + span
  BY ArrayOfTick
<1>3. z => first = base
  BY ArrayAtFacts, FirstTickFacts
<1>4. ~z => first = base + shift * span
  <2> SUFFICES ASSUME ~z PROVE first = base + shift * span
    OBVIOUS
  <2> DEFINE f == firstTick(t, FALSE)
             g == base + shift * span
  <2>1. f \in Int /\ t < f /\ f <= t + TickSpacing
    BY FirstTickFacts
  <2>2. \A u \in Int : Multiple(u, TickSpacing) => (u <= t + TickSpacing <=> u <= f)
    BY FirstTickFacts
  <2>3. Multiple(base + span, span) /\ base + span \in Int
    BY <1>1, <1>2, MultipleShifts DEF Pos
  <2>4. Multiple(base + span, TickSpacing)
    <3> DEFINE y == base + span
    <3>1. y \in Int /\ Multiple(y, span)
      BY <2>3
    <3> HIDE DEF y
    <3>2. Multiple(y, TickSpacing)
      BY <3>1, <1>1, SpanFacts, MultipleOfMultiple
    <3> QED
      BY <3>2 DEF y
  <2>5. base + span <= t + TickSpacing <=> base + span <= f
    BY <2>2, <2>3, <2>4
  <2>6. shift = (IF base + span <= f THEN 1 ELSE 0)
    BY <2>5, <1>1, <1>2 DEF Pos
  <2> HIDE DEF shift, base, f
  <2>7. g = IF base + span <= f THEN base + span ELSE base
    <3>1. 1 * span = span /\ 0 * span = 0
      BY <1>1 DEF Pos
    <3> QED
      BY <2>6, <3>1, <1>2
  <2>8. g \in Int /\ Multiple(g, span) /\ g <= f /\ f < g + span
    BY <2>1, <2>3, <2>7, <1>1, <1>2 DEF Pos
  <2>9. first \in Int /\ Multiple(first, span) /\ first <= f /\ f < first + span
    BY ArrayAtFacts, 0 \in Nat DEF f
  <2> HIDE DEF first, g
  <2>10. (g < first => g + span <= first) /\ (first < g => first + span <= g)
    BY <1>1, <2>8, <2>9, MultiplesApart
  <2>11. first = g
    BY <2>1, <2>8, <2>9, <2>10, <1>1 DEF Pos
  <2> QED
    BY <2>11 DEF g
<1>5. a \in SwapTickArrayStarts(t, z) <=> (\E i \in 0 .. 2 : a = x(i)) /\ validStartTick(a)
  BY DEF SwapTickArrayStarts, SwapTickArrays
<1> DEFINE second == arrayAt(t, z, 1)
           third  == arrayAt(t, z, 2)
<1>6. /\ first \in Int
      /\ second = IF z THEN first - span ELSE first + span
      /\ third = IF z THEN first - 2 * span ELSE first + 2 * span
  BY ThreeArrays
<1>7. x(0) = first /\ x(1) = second /\ x(2) = third
  <2>1. shift \in {0, 1}
    OBVIOUS
  <2> HIDE DEF base, shift, first, second, third
  <2>2. (-0) * span = 0 /\ (-1) * span = -span /\ (-2) * span = -(2 * span) /\ (0 + shift) * span = shift * span
        /\ (1 + shift) * span = shift * span + span /\ (2 + shift) * span = shift * span + 2 * span
        /\ shift * span \in Int
    BY <1>1, <2>1 DEF Pos
  <2> QED
    BY <2>2, <1>1, <1>2, <1>3, <1>4, <1>6 DEF Pos
<1> HIDE DEF base, shift, first, second, third
<1>8. (\E i \in 0 .. 2 : a = x(i)) <=> a = x(0) \/ a = x(1) \/ a = x(2)
  <2>1. \A i : i \in 0 .. 2 <=> i = 0 \/ i = 1 \/ i = 2
    OBVIOUS
  <2> HIDE DEF x
  <2> QED
    BY <2>1, Zenon
<1> HIDE DEF x
<1>9. (\E i \in 0 .. 2 : a = x(i)) <=> a \in {first, second, third}
  BY <1>7, <1>8
<1> QED
  BY <1>5, <1>9 DEF first, second, third

\* They are the multiples of the span in a window from the first.
LEMMA StartsAre ==
    ASSUME NEW t \in Int, NEW z \in BOOLEAN, NEW a
    PROVE  LET first == arrayAt(t, z, 0)
           IN  a \in SwapTickArrayStarts(t, z) <=>
                   /\ a \in Int /\ Multiple(a, span)
                   /\ MinTickIndex - span <= a /\ a <= MaxTickIndex
                   /\ IF z THEN first - 2 * span <= a /\ a <= first
                           ELSE first <= a /\ a <= first + 2 * span
<1> DEFINE first  == arrayAt(t, z, 0)
           second == arrayAt(t, z, 1)
           third  == arrayAt(t, z, 2)
           inside == IF z THEN first - 2 * span <= a /\ a <= first
                          ELSE first <= a /\ a <= first + 2 * span
<1>1. span \in Pos
  BY SpanFacts
<1>2. /\ first \in Int /\ second \in Int /\ third \in Int
      /\ second = IF z THEN first - span ELSE first + span
      /\ third = IF z THEN first - 2 * span ELSE first + 2 * span
  BY ThreeArrays
<1>3. Multiple(first, span) /\ Multiple(second, span) /\ Multiple(third, span)
  BY ArrayAtFacts, 0 \in Nat, 1 \in Nat, 2 \in Nat
<1>4. a \in SwapTickArrayStarts(t, z) <=> a \in {first, second, third} /\ validStartTick(a)
  BY StartsAreArrays
<1> HIDE DEF first, second, third
<1>5. a \in {first, second, third} => a \in Int /\ Multiple(a, span) /\ inside
  BY <1>1, <1>2, <1>3 DEF Pos
<1>6. ASSUME a \in Int, Multiple(a, span), inside
      PROVE  a \in {first, second, third}
  <2>1. /\ a < first => a + span <= first
        /\ first < a => first + span <= a
    BY <1>1, <1>2, <1>3, <1>6, MultiplesApart
  <2>2. /\ a < second => a + span <= second
        /\ second < a => second + span <= a
    BY <1>1, <1>2, <1>3, <1>6, MultiplesApart
  <2>3. /\ a < third => a + span <= third
        /\ third < a => third + span <= a
    BY <1>1, <1>2, <1>3, <1>6, MultiplesApart
  <2> QED
    BY <1>1, <1>2, <1>6, <2>1, <2>2, <2>3 DEF Pos
<1>7. a \in Int => (validStartTick(a) <=> Multiple(a, span) /\ MinTickIndex - span <= a /\ a <= MaxTickIndex)
  BY ValidStart
<1> HIDE DEF inside
<1>8. a \in SwapTickArrayStarts(t, z) <=>
          a \in Int /\ Multiple(a, span) /\ MinTickIndex - span <= a /\ a <= MaxTickIndex /\ inside
  BY <1>4, <1>5, <1>6, <1>7
<1> QED
  BY <1>8 DEF inside, first

\* What a search sees in an array: the initialized ticks of it that lie ahead.
LEMMA HitsAre ==
    ASSUME NEW t \in Int, NEW z \in BOOLEAN, NEW n \in Nat, NEW u
    PROVE  u \in hits(t, z, n) <=>
               /\ u \in Initialized /\ arrayAt(t, z, n) <= u /\ u < arrayAt(t, z, n) + span
               /\ IF z THEN u <= t ELSE t < u
<1> DEFINE a == arrayAt(t, z, n)
           f == firstTick(t, z)
           from == searchFrom(t, z, n)
<1>1. u \in hits(t, z, n) <=> u \in Initialized /\ a <= u /\ u < a + span /\ (IF z THEN u <= from ELSE u >= from)
  BY DEF hits
<1> SUFFICES ASSUME u \in Initialized, a <= u, u < a + span
             PROVE  (IF z THEN u <= from ELSE u >= from) <=> (IF z THEN u <= t ELSE t < u)
  BY <1>1
<1>2. u \in Int /\ Multiple(u, TickSpacing) /\ span \in Pos /\ TickSpacing \in Pos
  BY SpanFacts
<1>3. a \in Int /\ Multiple(a, span) /\ f \in Int /\ arrayAt(t, z, 0) \in Int
      /\ arrayAt(t, z, 0) <= f /\ f < arrayAt(t, z, 0) + span
      /\ (0 < n => IF z THEN a + span <= arrayAt(t, z, 0) ELSE arrayAt(t, z, 0) + span <= a)
  BY ArrayAtFacts, 0 \in Nat
<1>4. (z => f = t) /\ (~z => t < f /\ (t < u <=> f <= u))
  BY <1>2, FirstTickFacts
<1>5. CASE n = 0
  <2>1. from = f
    BY <1>5 DEF searchFrom
  <2> HIDE DEF f, from, a
  <2> QED
    BY <2>1, <1>2, <1>3, <1>4
<1>6. CASE n # 0
  <2>1. from = IF z THEN a + span - TickSpacing ELSE a
    BY <1>6 DEF searchFrom
  <2>2. a + span \in Int /\ Multiple(a + span, span)
    BY <1>2, <1>3, MultipleShifts DEF Pos
  <2> DEFINE end == a + span
  <2>3. end \in Int /\ Multiple(end, span)
    BY <2>2
  <2> HIDE DEF end
  <2>4. Multiple(end, TickSpacing)
    BY <1>2, <2>3, SpanFacts, MultipleOfMultiple
  <2>5. u < end => u + TickSpacing <= end
    BY <1>2, <2>3, <2>4, MultiplesApart
  <2> HIDE DEF f, from, a
  <2> QED
    BY <2>1, <2>3, <2>5, <1>2, <1>3, <1>4, <1>6 DEF end, Pos
<1> QED
  BY <1>5, <1>6

\* A tick ahead is in an array the search looks at, if it has not found anything before.
LEMMA ArrayAhead ==
    ASSUME NEW t \in Int, NEW z \in BOOLEAN, NEW v \in Int,
           IF z THEN v <= t ELSE firstTick(t, FALSE) <= v
    PROVE  \E k \in Nat : arrayAt(t, z, k) <= v /\ v < arrayAt(t, z, k) + span
<1> DEFINE a == TickArrayStartIndex(v)
           c == arrayAt(t, z, 0)
           f == firstTick(t, z)
<1>1. a \in Int /\ Multiple(a, span) /\ a <= v /\ v < a + span
  BY ArrayOfTick
<1>2. c \in Int /\ Multiple(c, span) /\ f \in Int /\ c <= f /\ f < c + span
  BY ArrayAtFacts, 0 \in Nat
<1>3. IF z THEN v <= f ELSE f <= v
  BY FirstTickFacts
<1> HIDE DEF a, c, f
<1>4. (a < c => a + span <= c) /\ (c < a => c + span <= a)
  BY <1>1, <1>2, SpanFacts, MultiplesApart
<1>5. IF z THEN a <= c ELSE c <= a
  BY <1>1, <1>2, <1>3, <1>4, SpanFacts DEF Pos
<1>6. \E k \in Nat : a = arrayAt(t, z, k)
  BY <1>1, <1>5, ArrayHasIndex DEF c
<1> QED
  BY <1>1, <1>6

\* A walk that is ahead of the pool's tick starts its searches ahead of the first array.
LEMMA FirstArrayAhead ==
    ASSUME NEW T \in Int, NEW t \in Int, NEW z \in BOOLEAN, Ahead(T, t, z)
    PROVE  IF z THEN arrayAt(t, z, 0) <= arrayAt(T, z, 0) ELSE arrayAt(T, z, 0) <= arrayAt(t, z, 0)
<1> DEFINE a == arrayAt(t, z, 0)
           c == arrayAt(T, z, 0)
           f == firstTick(t, z)
           g == firstTick(T, z)
<1>1. a \in Int /\ Multiple(a, span) /\ a <= f /\ f < a + span /\ f \in Int
  BY ArrayAtFacts, 0 \in Nat
<1>2. c \in Int /\ Multiple(c, span) /\ c <= g /\ g < c + span /\ g \in Int
  BY ArrayAtFacts, 0 \in Nat
<1>3. IF z THEN f <= g ELSE g <= f
  <2>1. CASE z
    <3>1. f = t /\ g = T
      BY <2>1, FirstTickFacts
    <3> QED
      BY <2>1, <3>1 DEF Ahead
  <2>2. CASE ~z
    <3>1. t < f /\ Multiple(f, TickSpacing) /\ T <= t
      BY <2>2, FirstTickFacts DEF Ahead
    <3>2. T < f => g <= f
      BY <2>2, <1>1, <3>1, FirstTickFacts
    <3> HIDE DEF f, g
    <3> QED
      BY <2>2, <3>1, <3>2, <1>1
  <2> QED
    BY <2>1, <2>2
<1> HIDE DEF a, c, f, g
<1>4. (a < c => a + span <= c) /\ (c < a => c + span <= a)
  BY <1>1, <1>2, SpanFacts, MultiplesApart
<1>5. IF z THEN a <= c ELSE c <= a
  BY <1>1, <1>2, <1>3, <1>4, SpanFacts DEF Pos
<1> QED
  BY <1>5 DEF a, c

\* A search passes arrays of the swap that have nothing for it, and stops at the first
\* that is not one of them or has something.
LEMMA SearchStops ==
    ASSUME NEW T \in Int, NEW t \in Int, NEW z \in BOOLEAN, Ahead(T, t, z)
    PROVE  LET starts == SwapTickArrayStarts(T, z)
               n      == arraysPassed(starts, t, z)
           IN  /\ n \in 0 .. 3
               /\ \/ arrayAt(t, z, n) \notin starts
                  \/ hits(t, z, n) # {}
                  \/ edges(starts, z, arrayAt(t, z, n)) # {}
               /\ \A m \in 0 .. 3 : m < n => /\ arrayAt(t, z, m) \in starts
                                             /\ hits(t, z, m) = {}
                                             /\ edges(starts, z, arrayAt(t, z, m)) = {}
<1> DEFINE starts == SwapTickArrayStarts(T, z)
           stops(m) == \/ arrayAt(t, z, m) \notin starts
                       \/ hits(t, z, m) # {}
                       \/ edges(starts, z, arrayAt(t, z, m)) # {}
           S == {m \in 0 .. 3 : stops(m)}
<1>1. arraysPassed(starts, t, z) = Min(S)
  BY DEF arraysPassed, SwapTickArrays, reachable
<1>2. stops(3)
  <2> DEFINE a == arrayAt(t, z, 0)
             c == arrayAt(T, z, 0)
             e == arrayAt(t, z, 3)
  <2>1. a \in Int /\ c \in Int /\ e = (IF z THEN a - 3 * span ELSE a + 3 * span) /\ span \in Pos
    BY ThreeArrays, SpanFacts
  <2>2. IF z THEN a <= c ELSE c <= a
    BY FirstArrayAhead
  <2>3. e \in starts => IF z THEN c - 2 * span <= e ELSE e <= c + 2 * span
    BY StartsAre
  <2> HIDE DEF a, c, e, starts
  <2>4. e \notin starts
    BY <2>1, <2>2, <2>3 DEF Pos
  <2> QED
    BY <2>4 DEF e
<1>3. S \in SUBSET Int /\ 3 \in S /\ \A m \in S : 0 <= m
  <2> HIDE DEF stops
  <2> QED
    BY <1>2
<1> HIDE DEF S
<1>4. Min(S) \in S /\ \A m \in S : Min(S) <= m
  BY <1>3, LeastInteger
<1>5. Min(S) \in 0 .. 3 /\ stops(Min(S))
  BY <1>4 DEF S
<1>6. ASSUME NEW m \in 0 .. 3, m < Min(S) PROVE ~stops(m)
  <2>1. m \notin S
    BY <1>4, <1>5, <1>6
  <2> HIDE DEF stops
  <2> QED
    BY <2>1 DEF S
<1>7. arraysPassed(starts, t, z) \in 0 .. 3 /\ stops(arraysPassed(starts, t, z))
      /\ \A m \in 0 .. 3 : m < arraysPassed(starts, t, z) => ~stops(m)
  <2> HIDE DEF stops, starts
  <2> QED
    BY <1>1, <1>5, <1>6
<1> QED
  BY <1>7

\* The last array of a swap is the farthest.
LEMMA LastArrayFacts ==
    ASSUME NEW t \in Int, NEW z \in BOOLEAN, SwapTickArrayStarts(t, z) # {}
    PROVE  LET starts == SwapTickArrayStarts(t, z)
               last   == lastArray(starts, z)
           IN  last \in starts /\ \A a \in starts : IF z THEN last <= a ELSE a <= last
<1> DEFINE starts == SwapTickArrayStarts(t, z)
           first  == arrayAt(t, z, 0)
<1>1. first \in Int /\ span \in Pos
  BY ThreeArrays, SpanFacts
<1>2. \A a \in starts : a \in Int /\ IF z THEN first - 2 * span <= a ELSE a <= first + 2 * span
  BY StartsAre
<1> HIDE DEF first, starts
<1>3. starts \in SUBSET Int /\ starts # {}
  BY <1>2 DEF starts
<1>4. CASE z
  <2>1. first - 2 * span \in Int /\ \A a \in starts : first - 2 * span <= a
    BY <1>1, <1>2, <1>4 DEF Pos
  <2>2. Min(starts) \in starts /\ \A a \in starts : Min(starts) <= a
    BY <1>3, <2>1, LeastInteger
  <2> QED
    BY <2>2, <1>4 DEF lastArray, starts
<1>5. CASE ~z
  <2>1. first + 2 * span \in Int /\ \A a \in starts : a <= first + 2 * span
    BY <1>1, <1>2, <1>5 DEF Pos
  <2>2. Max(starts) \in starts /\ \A a \in starts : a <= Max(starts)
    BY <1>3, <2>1, GreatestInteger
  <2> QED
    BY <2>2, <1>5 DEF lastArray, starts
<1> QED
  BY <1>4, <1>5

\* Arrays passed without a hit hold nothing initialized between the walk and a tick u of
\* the array the search is in, u included when that array has no hit either.
LEMMA NothingPassed ==
    ASSUME NEW t \in Int, NEW z \in BOOLEAN, NEW n \in Nat, NEW u \in Int, NEW v \in Initialized,
           \A m \in Nat : m < n => hits(t, z, m) = {},
           IF z THEN arrayAt(t, z, n) <= u /\ u <= v /\ v <= t
                ELSE t < v /\ v <= u /\ u < arrayAt(t, z, n) + span
    PROVE  v \in hits(t, z, n)
<1>1. v \in Int /\ Multiple(v, TickSpacing)
  BY SpanFacts
<1>2. ~z => firstTick(t, FALSE) <= v
  BY <1>1, FirstTickFacts
<1>3. PICK k \in Nat : arrayAt(t, z, k) <= v /\ v < arrayAt(t, z, k) + span
  BY <1>1, <1>2, ArrayAhead
<1>4. v \in hits(t, z, k)
  BY <1>3, HitsAre
<1>5. ~(k < n)
  BY <1>4
<1>6. ~(n < k)
  <2> DEFINE a == arrayAt(t, z, n)
             c == arrayAt(t, z, k)
  <2>1. n < k => IF z THEN c + span <= a ELSE a + span <= c
    BY ArrayAtFacts
  <2>2. a \in Int /\ c \in Int /\ span \in Pos
    BY ArrayAtFacts, SpanFacts
  <2>3. c <= v /\ v < c + span /\ IF z THEN a <= u /\ u <= v ELSE v <= u /\ u < a + span
    BY <1>3
  <2> HIDE DEF a, c
  <2> QED
    BY <1>1, <2>1, <2>2, <2>3 DEF Pos
<1>7. k = n
  BY <1>5, <1>6
<1> QED
  BY <1>4, <1>7

\* The arrays up to a tick u of the array a search stops in are behind it or are read.
LEMMA ReadUpTo ==
    ASSUME NEW T \in Int, NEW t \in Int, NEW z \in BOOLEAN, NEW n \in 0 .. 3, NEW u \in Int,
           n = arraysPassed(SwapTickArrayStarts(T, z), t, z),
           IF z THEN arrayAt(t, z, n) <= u ELSE u < arrayAt(t, z, n) + span,
           NEW a \in SwapTickArrayStarts(T, z),
           IF z THEN u < a + span ELSE a <= u,
           ~(IF z THEN t < a ELSE a + span <= t + TickSpacing)
    PROVE  a \in arraysRead(SwapTickArrayStarts(T, z), t, z)
<1> DEFINE starts == SwapTickArrayStarts(T, z)
           c == arrayAt(t, z, 0)
           f == firstTick(t, z)
<1>1. a \in Int /\ Multiple(a, span) /\ span \in Pos /\ TickSpacing \in Pos
  BY StartsAre, SpanFacts
<1>2. c \in Int /\ Multiple(c, span) /\ c <= f /\ f < c + span /\ f \in Int
  BY ArrayAtFacts, 0 \in Nat
<1>3. a + span \in Int /\ Multiple(a + span, TickSpacing)
  <2> DEFINE y == a + span
  <2>1. y \in Int /\ Multiple(y, span)
    BY <1>1, MultipleShifts DEF Pos
  <2> HIDE DEF y
  <2>2. Multiple(y, TickSpacing)
    BY <2>1, <1>1, SpanFacts, MultipleOfMultiple
  <2> QED
    BY <2>1, <2>2 DEF y
<1>4. ~z => (a + span <= t + TickSpacing <=> a + span <= f)
  BY <1>3, FirstTickFacts
<1>5. z => f = t
  BY FirstTickFacts
<1> HIDE DEF c, f
<1>6. (a < c => a + span <= c) /\ (c < a => c + span <= a)
  BY <1>1, <1>2, MultiplesApart
<1>7. IF z THEN a <= c ELSE c <= a
  BY <1>1, <1>2, <1>3, <1>4, <1>5, <1>6 DEF Pos
<1>8. PICK k \in Nat : a = arrayAt(t, z, k)
  BY <1>1, <1>7, ArrayHasIndex DEF c
<1>9. ~(n < k)
  <2> DEFINE d == arrayAt(t, z, n)
  <2> n \in Nat
    OBVIOUS
  <2>1. n < k => IF z THEN a + span <= d ELSE d + span <= a
    BY <1>8, ArrayAtFacts
  <2>2. d \in Int
    BY ArrayAtFacts
  <2>3. IF z THEN d <= u ELSE u < d + span
    OBVIOUS
  <2> HIDE DEF d
  <2> QED
    BY <1>1, <2>1, <2>2, <2>3 DEF Pos
<1>10. k \in 0 .. n
  BY <1>9
<1> QED
  BY <1>8, <1>10 DEF arraysRead, reachable

\* The boundary a search finds is the nearest initialized tick ahead, or an end where
\* there is none, and every array up to it has been read.
LEMMA SearchFinds ==
    ASSUME NEW T \in Int, NEW t \in Int, NEW z \in BOOLEAN, Ahead(T, t, z),
           IF z THEN MinTickIndex <= t /\ t <= MaxTickIndex ELSE MinTickIndex - 1 <= t /\ t < MaxTickIndex,
           NEW x \in nextBoundaries(SwapTickArrayStarts(T, z), t, z)
    PROVE  LET starts == SwapTickArrayStarts(T, z)
               u      == x.tickIndex
           IN  /\ x \in [tickIndex : TickIndexes, initialized : BOOLEAN]
               /\ IF z THEN u <= t ELSE t < u
               /\ \A v \in Initialized : ~(IF z THEN u < v /\ v <= t ELSE t < v /\ v < u)
               /\ x.initialized <=> u \in Initialized
               /\ \/ u % TickSpacing = 0
                  \/ u = IF z THEN MinTickIndex ELSE MaxTickIndex
                  \/ ~z /\ u = lastArray(starts, z) + span - 1
               /\ \A a \in starts :
                      (IF z THEN u < a + span ELSE a <= u) =>
                          \/ IF z THEN t < a ELSE a + span <= t + TickSpacing
                          \/ a \in arraysRead(starts, t, z)
<1> DEFINE starts == SwapTickArrayStarts(T, z)
           n      == arraysPassed(starts, t, z)
           c      == arrayAt(t, z, n)
           H      == hits(t, z, n)
           E      == edges(starts, z, c)
<1>1. n \in 0 .. 3 /\ \A m \in 0 .. 3 : m < n => hits(t, z, m) = {}
  BY SearchStops
<1>2. c \in starts /\ x \in IF H # {} THEN {[tickIndex |-> IF z THEN Max(H) ELSE Min(H), initialized |-> TRUE]}
                            ELSE {[tickIndex |-> e, initialized |-> FALSE] : e \in E}
  BY DEF nextBoundaries, reachable
<1> HIDE DEF n
<1>3. n \in Nat /\ \A m \in Nat : m < n => hits(t, z, m) = {}
  BY <1>1
<1>4. /\ c \in Int /\ Multiple(c, span) /\ MinTickIndex - span <= c /\ c <= MaxTickIndex
      /\ span \in Pos /\ TickSpacing \in Pos
  BY <1>2, StartsAre, SpanFacts
<1>5. MinTickIndex \in Int /\ MaxTickIndex \in Int /\ MinTickIndex < 0 /\ 0 < MaxTickIndex
      /\ TickIndexes = MinTickIndex .. MaxTickIndex
  BY TicksAreInts
<1>6. IF z THEN c <= t ELSE t < c + span - 1
  <2> DEFINE a == arrayAt(t, z, 0)
             f == firstTick(t, z)
  <2>1. a \in Int /\ f \in Int /\ a <= f /\ f < a + span
        /\ (0 < n => IF z THEN c + span <= a ELSE a + span <= c)
    BY <1>3, ArrayAtFacts, 0 \in Nat
  <2>2. n = 0 => c = a
    OBVIOUS
  <2>3. IF z THEN f = t ELSE t < f
    BY FirstTickFacts
  <2> HIDE DEF a, f, c
  <2> QED
    BY <1>3, <1>4, <2>1, <2>2, <2>3 DEF Pos
<1> DEFINE answers(u, i) ==
        /\ x = [tickIndex |-> u, initialized |-> i] /\ i \in BOOLEAN
        /\ u \in TickIndexes
        /\ IF z THEN c <= u /\ u <= t ELSE t < u /\ u < c + span
        /\ IF i THEN u \in H /\ \A v \in H : IF z THEN v <= u ELSE u <= v
                ELSE /\ H = {}
                     /\ \/ u % TickSpacing = 0
                        \/ u = IF z THEN MinTickIndex ELSE MaxTickIndex
                        \/ ~z /\ u = lastArray(starts, z) + span - 1
<1>7. ASSUME H # {} PROVE \E u \in Int : answers(u, TRUE)
  <2>1. \A v \in H : /\ v \in TickIndexes /\ v \in Int
                     /\ IF z THEN c <= v /\ v <= t ELSE t < v /\ v < c + span
    BY <1>3, HitsAre, SpanFacts
  <2> HIDE DEF H, c
  <2>2. H \in SUBSET Int
    BY <2>1
  <2>3. CASE z
    <3>1. Max(H) \in H /\ \A v \in H : v <= Max(H)
      BY <1>7, <2>1, <2>2, <2>3, GreatestInteger
    <3>2. x = [tickIndex |-> Max(H), initialized |-> TRUE]
      BY <1>2, <1>7, <2>3
    <3>3. answers(Max(H), TRUE)
      BY <2>1, <2>3, <3>1, <3>2
    <3> QED
      BY <2>1, <3>1, <3>3
  <2>4. CASE ~z
    <3>1. Min(H) \in H /\ \A v \in H : Min(H) <= v
      <4>1. \A v \in H : t <= v
        BY <2>1, <2>4
      <4> QED
        BY <1>7, <2>2, <4>1, LeastInteger
    <3>2. x = [tickIndex |-> Min(H), initialized |-> TRUE]
      BY <1>2, <1>7, <2>4
    <3>3. answers(Min(H), TRUE)
      BY <2>1, <2>4, <3>1, <3>2
    <3> QED
      BY <2>1, <3>1, <3>3
  <2> QED
    BY <2>3, <2>4
<1>8. ASSUME H = {} PROVE \E u \in Int : answers(u, FALSE)
  <2>1. PICK e \in E : x = [tickIndex |-> e, initialized |-> FALSE]
    BY <1>2, <1>8
  <2> HIDE DEF H, c, starts
  <2>2. CASE z /\ c <= MinTickIndex
    <3>1. e = MinTickIndex
      BY <2>1, <2>2 DEF edges
    <3>2. e \in TickIndexes /\ e \in Int /\ c <= e /\ e <= t
      BY <1>5, <2>2, <3>1
    <3>3. answers(e, FALSE)
      BY <1>8, <2>1, <2>2, <3>1, <3>2
    <3> QED
      BY <3>2, <3>3
  <2>3. CASE ~z /\ c + span > MaxTickIndex
    <3>1. e = MaxTickIndex
      BY <2>1, <2>3 DEF edges
    <3>2. answers(e, FALSE)
      BY <1>4, <1>5, <1>8, <2>1, <2>3, <3>1 DEF Pos
    <3> QED
      BY <1>5, <3>1, <3>2
  <2>4. CASE z /\ ~(c <= MinTickIndex)
    <3>1. c = lastArray(starts, z) /\ e = c
      BY <2>1, <2>4 DEF edges
    <3>2. Multiple(c, TickSpacing)
      BY <1>4, SpanFacts, MultipleOfMultiple
    <3>3. c % TickSpacing = 0
      BY <1>4, <3>2, RemainderOfMultiple
    <3>4. e \in TickIndexes /\ e \in Int /\ c <= e /\ e <= t
      <4>1. c <= t
        BY <1>6, <2>4
      <4>2. c \in Int /\ MinTickIndex <= c /\ c <= MaxTickIndex
        BY <1>4, <1>5, <2>4
      <4> QED
        BY <1>5, <3>1, <4>1, <4>2
    <3>5. e % TickSpacing = 0
      BY <3>1, <3>3
    <3>6. answers(e, FALSE)
      BY <1>8, <2>1, <2>4, <3>4, <3>5
    <3> QED
      BY <3>4, <3>6
  <2>5. CASE ~z /\ ~(c + span > MaxTickIndex)
    <3>1. c = lastArray(starts, z) /\ e = c + span - 1
      BY <2>1, <2>5 DEF edges
    <3>2. e \in Int /\ MinTickIndex <= e /\ e <= MaxTickIndex /\ t < e /\ e < c + span
      BY <1>4, <1>5, <1>6, <2>5, <3>1 DEF Pos
    <3>3. answers(e, FALSE)
      BY <1>5, <1>8, <2>1, <2>5, <3>1, <3>2
    <3> QED
      BY <3>2, <3>3
  <2> QED
    BY <2>2, <2>3, <2>4, <2>5
<1>9. PICK u \in Int, i \in BOOLEAN : answers(u, i)
  BY <1>7, <1>8
<1>10. \A v \in Initialized : v \in Int /\ Multiple(v, TickSpacing)
  BY SpanFacts
<1>11. \A v \in Initialized :
          (IF z THEN u <= v /\ v <= t ELSE t < v /\ v <= u) => v \in H
  BY <1>3, <1>9, NothingPassed
<1>12. \A v \in H : v \in Initialized
  BY DEF hits
<1>13. \A a \in starts :
          (IF z THEN u < a + span ELSE a <= u) =>
              \/ IF z THEN t < a ELSE a + span <= t + TickSpacing
              \/ a \in arraysRead(starts, t, z)
  <2>1. n = arraysPassed(starts, t, z)
    BY DEF n
  <2>2. IF z THEN c <= u ELSE u < c + span
    BY <1>9
  <2> QED
    BY <1>1, <2>1, <2>2, ReadUpTo
<1> HIDE DEF H, c, starts, E
<1>14. i <=> u \in Initialized
  <2>1. i => u \in Initialized
    BY <1>9, <1>12
  <2>2. u \in Initialized => u \in H
    BY <1>9, <1>11
  <2> QED
    BY <1>9, <2>1, <2>2
<1>15. \A v \in Initialized : ~(IF z THEN u < v /\ v <= t ELSE t < v /\ v < u)
  <2> SUFFICES ASSUME NEW v \in Initialized, IF z THEN u < v /\ v <= t ELSE t < v /\ v < u PROVE FALSE
    OBVIOUS
  <2>1. v \in H
    BY <1>10, <1>11
  <2>2. i /\ \A y \in H : IF z THEN y <= u ELSE u <= y
    BY <1>9, <2>1
  <2> QED
    BY <1>10, <2>1, <2>2
<1>16. i => u % TickSpacing = 0
  BY <1>4, <1>10, <1>14, RemainderOfMultiple
<1>17. x.tickIndex = u /\ x.initialized = i
  BY <1>9
<1>18. /\ x \in [tickIndex : TickIndexes, initialized : BOOLEAN]
       /\ IF z THEN u <= t ELSE t < u
       /\ \/ u % TickSpacing = 0
          \/ u = IF z THEN MinTickIndex ELSE MaxTickIndex
          \/ ~z /\ u = lastArray(starts, z) + span - 1
  BY <1>9, <1>16
<1> HIDE DEF answers
<1> QED
  BY <1>13, <1>14, <1>15, <1>17, <1>18 DEF starts

LEMMA ThreeDiffer ==
    ASSUME NEW t \in Int, NEW z \in BOOLEAN
    PROVE  LET X == {arrayAt(t, z, 0), arrayAt(t, z, 1), arrayAt(t, z, 2)}
           IN  IsFiniteSet(X) /\ Cardinality(X) = 3
<1> DEFINE a == arrayAt(t, z, 0)
           c == arrayAt(t, z, 1)
           d == arrayAt(t, z, 2)
<1>1. a # c /\ a # d /\ c # d
  <2>1. /\ a \in Int /\ c \in Int /\ d \in Int /\ span \in Pos
        /\ c = IF z THEN a - span ELSE a + span
        /\ d = IF z THEN a - 2 * span ELSE a + 2 * span
    BY ThreeArrays, SpanFacts
  <2> HIDE DEF a, c, d
  <2> QED
    BY <2>1 DEF Pos
<1> HIDE DEF a, c, d
<1>2. IsFiniteSet({a}) /\ Cardinality({a}) = 1
  BY FS_Singleton
<1>3. IsFiniteSet({a, c}) /\ Cardinality({a, c}) = 2
  <2>1. {a} \cup {c} = {a, c} /\ c \notin {a}
    BY <1>1
  <2>2. IsFiniteSet({a} \cup {c}) /\ Cardinality({a} \cup {c}) = IF c \in {a} THEN Cardinality({a}) ELSE Cardinality({a}) + 1
    BY <1>2, FS_AddElement
  <2>3. Cardinality({a} \cup {c}) = Cardinality({a}) + 1
    BY <2>1, <2>2
  <2> QED
    BY <1>2, <2>1, <2>2, <2>3
<1>4. IsFiniteSet({a, c, d}) /\ Cardinality({a, c, d}) = 3
  <2>1. {a, c} \cup {d} = {a, c, d} /\ d \notin {a, c}
    BY <1>1
  <2>2. IsFiniteSet({a, c} \cup {d})
        /\ Cardinality({a, c} \cup {d}) = IF d \in {a, c} THEN Cardinality({a, c}) ELSE Cardinality({a, c}) + 1
    BY <1>3, FS_AddElement
  <2>3. Cardinality({a, c} \cup {d}) = Cardinality({a, c}) + 1
    BY <2>1, <2>2
  <2> QED
    BY <1>3, <2>1, <2>2, <2>3
<1> QED
  BY <1>4 DEF a, c, d

\* A swap has three arrays at most.
LEMMA StartsAreFew ==
    ASSUME NEW t \in Int, NEW z \in BOOLEAN, NEW R \in SUBSET SwapTickArrayStarts(t, z)
    PROVE  Cardinality(R) <= 3
<1> DEFINE X == {arrayAt(t, z, 0), arrayAt(t, z, 1), arrayAt(t, z, 2)}
<1>1. IsFiniteSet(X) /\ Cardinality(X) = 3
  BY ThreeDiffer
<1>2. R \in SUBSET X
  <2>1. \A a \in R : a \in X
    BY StartsAreArrays
  <2> HIDE DEF X
  <2> QED
    BY <2>1
<1> HIDE DEF X
<1>3. Cardinality(R) <= Cardinality(X)
  BY <1>1, <1>2, FS_Subset
<1> QED
  BY <1>1, <1>3

\* A search that finds no boundary starts past the swap's arrays, and they are three.
LEMMA SearchEnds ==
    ASSUME NEW T \in MinTickIndex - 1 .. MaxTickIndex, NEW t \in MinTickIndex - 1 .. MaxTickIndex,
           NEW z \in BOOLEAN, Ahead(T, t, z),
           IF z THEN MinTickIndex <= t ELSE t < MaxTickIndex,
           nextBoundaries(SwapTickArrayStarts(T, z), t, z) = {},
           NEW R \in SUBSET SwapTickArrayStarts(T, z),
           \A a \in SwapTickArrayStarts(T, z) :
               (IF z THEN t < a ELSE a + span <= t + TickSpacing) => a \in R
    PROVE  Cardinality(R) = 3
<1> DEFINE starts == SwapTickArrayStarts(T, z)
           n      == arraysPassed(starts, t, z)
           c      == arrayAt(t, z, n)
           first  == arrayAt(T, z, 0)
           a      == arrayAt(t, z, 0)
           f      == firstTick(t, z)
           g      == firstTick(T, z)
<1>1. T \in Int /\ t \in Int /\ span \in Pos /\ TickSpacing \in Pos /\ MinTickIndex \in Int /\ MaxTickIndex \in Int
      /\ MinTickIndex < 0 /\ 0 < MaxTickIndex
  BY TicksAreInts, SpanFacts
<1>2. c \notin starts
  <2> SUFFICES ASSUME c \in starts PROVE FALSE
    OBVIOUS
  <2>1. hits(t, z, n) # {} \/ edges(starts, z, c) # {}
    BY <1>1, SearchStops
  <2>2. CASE hits(t, z, n) # {}
    <3>1. nextBoundaries(starts, t, z) # {}
      BY <2>2 DEF nextBoundaries, reachable
    <3> QED
      BY <3>1
  <2>3. CASE hits(t, z, n) = {}
    <3>1. PICK e \in edges(starts, z, c) : TRUE
      BY <2>1, <2>3
    <3>2. [tickIndex |-> e, initialized |-> FALSE] \in nextBoundaries(starts, t, z)
      BY <2>3, <3>1 DEF nextBoundaries, reachable
    <3> QED
      BY <3>2
  <2> QED
    BY <2>2, <2>3
<1>3. n \in 0 .. 3 /\ \A m \in 0 .. 3 : m < n => /\ arrayAt(t, z, m) \in starts
                                                /\ edges(starts, z, arrayAt(t, z, m)) = {}
  BY <1>1, SearchStops
<1> HIDE DEF n
<1>4. n = 0
  <2> SUFFICES ASSUME n # 0 PROVE FALSE
    OBVIOUS
  <2> DEFINE m == n - 1
             d == arrayAt(t, z, m)
             last == lastArray(starts, z)
  <2>1. m \in 0 .. 3 /\ m < n /\ m \in Nat /\ n = m + 1
    BY <1>3
  <2>2. d \in starts /\ edges(starts, z, d) = {}
    BY <1>3, <2>1
  <2>3. last \in starts /\ IF z THEN last <= d ELSE d <= last
    BY <1>1, <2>2, LastArrayFacts
  <2>4. d # last /\ IF z THEN ~(d <= MinTickIndex) ELSE ~(d + span > MaxTickIndex)
    <3> HIDE DEF d, last
    <3> QED
      BY <2>2 DEF edges, last
  <2> HIDE DEF m
  <2>5. c = IF z THEN d - span ELSE d + span
    <3>1. arrayAt(t, z, m + 1) = IF z THEN d - span ELSE d + span
      BY <1>1, <2>1, ArrayAtFacts
    <3> QED
      BY <2>1, <3>1
  <2>6. /\ d \in Int /\ Multiple(d, span) /\ MinTickIndex - span <= d /\ d <= MaxTickIndex
        /\ IF z THEN first - 2 * span <= d /\ d <= first ELSE first <= d /\ d <= first + 2 * span
    BY <1>1, <2>2, StartsAre
  <2>7. /\ last \in Int /\ Multiple(last, span) /\ MinTickIndex - span <= last /\ last <= MaxTickIndex
        /\ IF z THEN first - 2 * span <= last /\ last <= first ELSE first <= last /\ last <= first + 2 * span
    BY <1>1, <2>3, StartsAre
  <2> HIDE DEF d, last, first, c
  <2>8. (last < d => last + span <= d) /\ (d < last => d + span <= last)
    BY <1>1, <2>6, <2>7, MultiplesApart
  <2>9. c \in Int /\ Multiple(c, span)
    <3>1. d - span \in Int /\ d + span \in Int /\ Multiple(d - span, span) /\ Multiple(d + span, span)
      BY <1>1, <2>6, MultipleShifts DEF Pos
    <3> QED
      BY <2>5, <3>1
  <2>10. first \in Int
    BY <1>1, ThreeArrays DEF first
  <2>11. /\ MinTickIndex - span <= c /\ c <= MaxTickIndex
         /\ IF z THEN first - 2 * span <= c /\ c <= first ELSE first <= c /\ c <= first + 2 * span
    BY <1>1, <2>3, <2>4, <2>5, <2>6, <2>7, <2>8, <2>10 DEF Pos
  <2>12. c \in starts
    BY <1>1, <2>9, <2>11, StartsAre DEF first
  <2> QED
    BY <1>2, <2>12
<1>5. a \notin starts
  BY <1>2, <1>4
<1>6. /\ a \in Int /\ Multiple(a, span) /\ a <= f /\ f < a + span /\ f \in Int
      /\ first \in Int /\ Multiple(first, span) /\ first <= g /\ g < first + span /\ g \in Int
  BY <1>1, ArrayAtFacts, 0 \in Nat
<1>7. IF z THEN f = t /\ g = T ELSE t < f /\ f <= t + TickSpacing /\ T < g
  BY <1>1, FirstTickFacts
<1>8. IF z THEN a <= first ELSE first <= a
  BY <1>1, FirstArrayAhead
<1>9. ~z => a <= MaxTickIndex
  <2> SUFFICES ASSUME ~z PROVE a <= MaxTickIndex
    OBVIOUS
  <2> DEFINE top == floorToSpacing(MaxTickIndex)
             h   == TickArrayStartIndex(top + TickSpacing)
  <2>1. /\ top \in Int /\ Multiple(top, TickSpacing) /\ top <= MaxTickIndex
        /\ MaxTickIndex < top + TickSpacing
    BY <1>1, FloorIsMultiple DEF floorToSpacing
  <2>2. top + TickSpacing \in Int /\ Multiple(top + TickSpacing, TickSpacing)
    BY <1>1, <2>1, MultipleShifts DEF Pos
  <2> HIDE DEF top
  <2>3. t < top + TickSpacing
    BY <1>1, <2>1 DEF Pos
  <2>4. f <= top + TickSpacing
    BY <1>1, <2>2, <2>3, FirstTickFacts
  <2>5. h \in Int /\ Multiple(h, span) /\ top + TickSpacing < h + span
    BY <2>2, ArrayOfTick
  <2>6. h <= MaxTickIndex
    BY LastArrayAssumption DEF top
  <2> HIDE DEF h, a, f
  <2>7. h < a => h + span <= a
    BY <1>1, <1>6, <2>5, MultiplesApart
  <2> QED
    BY <1>1, <1>6, <2>1, <2>4, <2>5, <2>6, <2>7 DEF Pos
<1>10. MinTickIndex - span <= a /\ a <= MaxTickIndex
  <2> HIDE DEF a, f, g, first
  <2> QED
    BY <1>1, <1>6, <1>7, <1>9 DEF Pos
<1>11. IF z THEN a < first - 2 * span ELSE first + 2 * span < a
  <2>1. ~(IF z THEN first - 2 * span <= a /\ a <= first ELSE first <= a /\ a <= first + 2 * span)
    BY <1>1, <1>5, <1>6, <1>10, StartsAre
  <2> HIDE DEF a, first
  <2> QED
    BY <1>1, <1>6, <1>8, <2>1 DEF Pos
<1> DEFINE X == {first, arrayAt(T, z, 1), arrayAt(T, z, 2)}
<1>12. ASSUME NEW x \in X PROVE x \in R
  <2>1. /\ arrayAt(T, z, 1) \in Int /\ arrayAt(T, z, 2) \in Int
        /\ arrayAt(T, z, 1) = IF z THEN first - span ELSE first + span
        /\ arrayAt(T, z, 2) = IF z THEN first - 2 * span ELSE first + 2 * span
    BY <1>1, ThreeArrays
  <2>2. Multiple(x, span)
    BY <1>1, ArrayAtFacts, 0 \in Nat, 1 \in Nat, 2 \in Nat
  <2> HIDE DEF a, f, g, first
  <2>3. x \in Int /\ IF z THEN first - 2 * span <= x /\ x <= first ELSE first <= x /\ x <= first + 2 * span
    BY <1>1, <1>6, <2>1 DEF Pos
  <2> HIDE DEF X
  <2>4. (a < x => a + span <= x) /\ (x < a => x + span <= a)
    BY <1>1, <1>6, <2>2, <2>3, MultiplesApart
  <2>5. /\ MinTickIndex - span <= x /\ x <= MaxTickIndex
        /\ IF z THEN t < x ELSE x + span <= t + TickSpacing
    BY <1>1, <1>6, <1>7, <1>9, <1>10, <1>11, <2>3, <2>4 DEF Pos
  <2>6. x \in starts
    BY <1>1, <2>2, <2>3, <2>5, StartsAre DEF first
  <2> QED
    BY <2>5, <2>6
<1>13. R \subseteq X
  <2>1. \A x \in R : x \in X
    BY <1>1, StartsAreArrays
  <2> HIDE DEF X
  <2> QED
    BY <2>1
<1>14. IsFiniteSet(X) /\ Cardinality(X) = 3
  BY <1>1, ThreeDiffer
<1> HIDE DEF X
<1>15. R = X
  BY <1>12, <1>13
<1> QED
  BY <1>14, <1>15

\* A walk up that came to the last tick of its last array finds no further boundary.
LEMMA NothingPastLastEdge ==
    ASSUME NEW T \in Int, NEW t \in Int, NEW z \in BOOLEAN, ~z, Ahead(T, t, z),
           t = lastArray(SwapTickArrayStarts(T, z), z) + span - 1
    PROVE  nextBoundaries(SwapTickArrayStarts(T, z), t, z) = {}
<1> DEFINE starts == SwapTickArrayStarts(T, z)
           n      == arraysPassed(starts, t, z)
           c      == arrayAt(t, z, n)
           a      == arrayAt(t, z, 0)
           f      == firstTick(t, z)
           last   == lastArray(starts, z)
<1>1. n \in 0 .. 3 /\ \A m \in 0 .. 3 : m < n => arrayAt(t, z, m) \in starts
  BY SearchStops
<1>2. a \notin starts
  <2> SUFFICES ASSUME a \in starts PROVE FALSE
    OBVIOUS
  <2>1. last \in starts /\ a <= last
    BY LastArrayFacts
  <2>2. last \in Int
    BY <2>1, StartsAre
  <2>3. a \in Int /\ f \in Int /\ f < a + span /\ t < f /\ span \in Pos
    BY ArrayAtFacts, 0 \in Nat, FirstTickFacts, SpanFacts
  <2>4. t = last + span - 1
    OBVIOUS
  <2> HIDE DEF a, f, last
  <2> QED
    BY <2>1, <2>2, <2>3, <2>4 DEF Pos
<1> HIDE DEF n
<1>3. n = 0
  <2>1. 0 < n => a \in starts
    BY <1>1
  <2> QED
    BY <1>1, <1>2, <2>1
<1>4. c \notin starts
  BY <1>2, <1>3
<1> QED
  BY <1>4 DEF nextBoundaries, reachable, n

-----------------------------------------------------------------------------
\* The invariant

Vars   == [lastReference : Int, lastMajor : Int, volatilityReference : Nat, groupReference : Int,
           accumulator : Nat]
Errors == {"none", "ErrOverdrawn", "ErrAmountOverflow", "ErrNegativeLiquidity"}
States == [amountRemaining : 0 .. MaxU64, amountOut : 0 .. MaxU64, sqrtPrice : Nat, liquidity : Nat,
           tick : Int, group : Int, vars : Vars, err : Errors]

Types ==
    /\ cfg \in Configs
    /\ pool \in [sqrtPrice : MinSqrtPrice .. MaxSqrtPrice, tick : MinTickIndex - 1 .. MaxTickIndex,
                 liquidity : Nat, vars : Vars]
    /\ now \in Nat
    /\ pc \in {"idle", "walk", "step", "done", "failed", "refused"}
    /\ q \in [aToB : BOOLEAN, amountIn : 0 .. MaxU64, timestamp : Int]
    /\ s \in States
    /\ w \in [starts : SUBSET Int, held : Int, err : BOOLEAN, read : SUBSET Int]
    /\ b \in [tickIndex : Int, initialized : BOOLEAN]

\* Oracle variables an adaptive fee can be computed from: nothing above its cap, and the
\* reference is the group of some tick.
OracleInv(v) ==
    /\ v.volatilityReference <= cfg.maxAccumulator /\ v.accumulator <= cfg.maxAccumulator
    /\ v.groupReference * cfg.tickGroupSize <= MaxTickIndex
    /\ MinTickIndex <= v.groupReference * cfg.tickGroupSize + cfg.tickGroupSize

\* A pool a walk may start from: its tick is where its price is, and its liquidity is
\* that of its tick.
PoolInv ==
    /\ Holds(pool.tick, pool.sqrtPrice)
    /\ pool.liquidity = LiquidityAt(pool.tick)
    /\ OracleInv(pool.vars)

\* The walk is where its price is, on the swap's side of the pool, with that place's
\* liquidity, and has read the arrays behind it.
WalkInv ==
    /\ s.err = "none"
    /\ s.sqrtPrice \in MinSqrtPrice .. MaxSqrtPrice /\ s.tick \in MinTickIndex - 1 .. MaxTickIndex
    /\ Holds(s.tick, s.sqrtPrice)
    /\ IF q.aToB THEN s.tick <= pool.tick ELSE pool.tick <= s.tick
    /\ s.liquidity = LiquidityAt(s.tick)
    /\ w.starts = SwapTickArrayStarts(pool.tick, q.aToB)
    /\ w.read \subseteq w.starts

\* Every array the search from the walk's tick does not look at any more has been read.
ReadBehind ==
    \A start \in w.starts :
        (IF q.aToB THEN s.tick < start ELSE start + span <= s.tick + TickSpacing) => start \in w.read

\* From u, which lies ahead of the walk, t is on its way back to the walk's tick.
OnTheWay(t, u) == IF q.aToB THEN u < t /\ t <= s.tick ELSE s.tick < t /\ t < u

\* Where the search up gives out: the last tick of the last array.
lastEdge == lastArray(w.starts, q.aToB) + span - 1

\* The boundary of a step is the nearest there is: an initialized tick, the end of the
\* range, or the edge of the last array, every array up to it read.
BoundaryInv ==
    /\ b.tickIndex \in TickIndexes
    /\ IF q.aToB THEN b.tickIndex <= s.tick ELSE s.tick < b.tickIndex
    /\ \A t \in Initialized : ~OnTheWay(t, b.tickIndex)
    /\ b.initialized <=> b.tickIndex \in Initialized
    /\ \/ b.tickIndex % TickSpacing = 0
       \/ b.tickIndex = IF q.aToB THEN MinTickIndex ELSE MaxTickIndex
       \/ ~q.aToB /\ b.tickIndex = lastEdge
    /\ \A start \in w.starts :
           (IF q.aToB THEN b.tickIndex < start + span ELSE start <= b.tickIndex) => start \in w.read

lowOf(group)  == group * cfg.tickGroupSize
highOf(group) == group * cfg.tickGroupSize + cfg.tickGroupSize

\* A walk up has come to the end of its arrays.
AtLastEdge == ~q.aToB /\ s.tick = lastEdge

\* A group's edge in the swap's direction is at or before the boundary u, unless that is
\* the end of the arrays and inside the group.
EdgeAhead(group, u) ==
    IF q.aToB THEN lowOf(group) <= MaxTickIndex /\ u <= clampTick(lowOf(group))
    ELSE /\ MinTickIndex <= highOf(group)
         /\ \/ clampTick(highOf(group)) <= u
            \/ /\ u = lastEdge
               /\ lowOf(group) <= u /\ u < highOf(group)

\* The group of a walk that goes on is the one its tick is in; within a step, one that
\* holds its price.
GroupInv ==
    /\ pc = "walk" /\ ~WalkOver => \/ lowOf(s.group) <= s.tick /\ s.tick < highOf(s.group)
                                   \/ AtLastEdge
    /\ pc = "step" => EdgeAhead(s.group, b.tickIndex) /\ GroupHoldsPrice

\* A walk that ran out of boundaries has read every array the swap takes.
EndInv == ~WalkOver /\ ~w.err => Cardinality(w.read) = SwapTickArrays

SwapInv ==
    /\ Types /\ PoolInv /\ OracleInv(s.vars) /\ NeverOverdrawn
    /\ Quoting => WalkInv
    /\ pc \in {"walk", "step"} => ReadBehind
    /\ pc = "step" => BoundaryInv /\ s.amountRemaining > 0
    /\ cfg.adaptive => GroupInv
    /\ pc = "done" => EndInv

-----------------------------------------------------------------------------
\* The fee's parts

LEMMA ConfigFacts ==
    ASSUME cfg \in Configs
    PROVE  /\ cfg.tickGroupSize \in Pos /\ Multiple(TickSpacing, cfg.tickGroupSize)
           /\ cfg.feeRate \in 0 .. feeRateMulValue - 1 /\ feeRateHardLimit \in 0 .. feeRateMulValue - 1
           /\ cfg.maxAccumulator \in Nat /\ cfg.controlFactor \in Nat /\ cfg.adaptive \in BOOLEAN
           /\ cfg.reductionFactor \in Nat /\ cfg.reductionFactor <= reductionFactorDenominator
           /\ reductionFactorDenominator \in Pos /\ volatilityAccumulatorScaleFactor \in Pos
           /\ adaptiveFeeControlFactorDenominator \in Pos
           /\ cfg.liquidityNet \in [Initialized -> Int]
<1>1. cfg \in ConfigTypes /\ TickSpacing % cfg.tickGroupSize = 0
      /\ reductionFactorDenominator \in Nat \ {0} /\ volatilityAccumulatorScaleFactor \in Nat \ {0}
      /\ adaptiveFeeControlFactorDenominator \in Nat \ {0} /\ feeRateHardLimit \in 0 .. feeRateMulValue - 1
  BY PoolAssumption
<1>2. cfg.tickGroupSize \in Pos /\ TickSpacing \in Int
  BY <1>1, SpanFacts DEF ConfigTypes, Pos
<1>3. Multiple(TickSpacing, cfg.tickGroupSize)
  BY <1>1, <1>2, RemainderOfMultiple
<1> QED
  BY <1>1, <1>2, <1>3 DEF ConfigTypes, Pos

\* The pool's liquidity is never negative, at the tick behind the range neither.
LEMMA LiquidityIsNat ==
    ASSUME cfg \in Configs, NEW t \in MinTickIndex - 1 .. MaxTickIndex
    PROVE  LiquidityAt(t) \in Nat
<1>1. cfg.liquidityNet \in [Initialized -> Int] /\ \A u \in TickIndexes : LiquidityOf(cfg.liquidityNet, u) >= 0
  BY ConfigFacts, PoolAssumption
<1>2. LiquidityOf(cfg.liquidityNet, MinTickIndex - 1) = 0 /\ LiquidityOf(cfg.liquidityNet, t) \in Int
  BY <1>1, LiquidityAdds
<1>3. t = MinTickIndex - 1 \/ t \in TickIndexes
  BY TicksAreInts
<1> QED
  BY <1>1, <1>2, <1>3 DEF LiquidityAt

\* No fee takes all of an input.
LEMMA RateInRange ==
    ASSUME cfg \in Configs, NEW a \in Nat
    PROVE  /\ computeAdaptiveFeeRate(a) \in Nat
           /\ totalFeeRateAt(a) \in 0 .. feeRateMulValue - 1
           /\ cfg.controlFactor = 0 => computeAdaptiveFeeRate(a) = 0
<1> DEFINE crossed == a * cfg.tickGroupSize
           n == cfg.controlFactor * crossed * crossed
           d == adaptiveFeeControlFactorDenominator * volatilityAccumulatorScaleFactor
                    * volatilityAccumulatorScaleFactor
<1>1. n \in Nat /\ (cfg.controlFactor = 0 => n = 0)
  <2>1. crossed \in Nat
    BY ConfigFacts, MulIsNat DEF Pos
  <2> HIDE DEF crossed
  <2>2. cfg.controlFactor * crossed \in Nat /\ (cfg.controlFactor = 0 => cfg.controlFactor * crossed = 0)
    BY <2>1, ConfigFacts, MulIsNat
  <2> DEFINE m == cfg.controlFactor * crossed
  <2> HIDE DEF m
  <2>3. m \in Nat /\ (cfg.controlFactor = 0 => m = 0)
    BY <2>2 DEF m
  <2>4. m * crossed \in Nat /\ (m = 0 => m * crossed = 0)
    BY <2>1, <2>3, MulIsNat
  <2> QED
    BY <2>3, <2>4 DEF m
<1>2. d \in Pos
  <2>1. adaptiveFeeControlFactorDenominator * volatilityAccumulatorScaleFactor \in Pos
    BY ConfigFacts DEF Pos
  <2> QED
    BY <2>1, ConfigFacts DEF Pos
<1> HIDE DEF n, d
<1>3. divCeil(n, d) \in Nat /\ (n = 0 => divCeil(n, d) = 0)
  <2>1. n \div d \in Nat /\ n % d \in 0 .. d - 1 /\ n = d * (n \div d) + (n % d)
    BY <1>1, <1>2, DivFacts
  <2>2. n = 0 => n \div d = 0 /\ n % d = 0
    BY <1>2 DEF Pos
  <2> QED
    BY <2>1, <2>2 DEF divCeil
<1>4. computeAdaptiveFeeRate(a) = bigMin(divCeil(n, d), feeRateHardLimit)
  BY DEF computeAdaptiveFeeRate, n, d
<1>5. feeRateHardLimit \in 0 .. feeRateMulValue - 1 /\ cfg.feeRate \in 0 .. feeRateMulValue - 1
  BY ConfigFacts
<1>6. computeAdaptiveFeeRate(a) \in Nat /\ (cfg.controlFactor = 0 => computeAdaptiveFeeRate(a) = 0)
  BY <1>1, <1>3, <1>4, <1>5, TicksAreInts DEF bigMin
<1> QED
  BY <1>5, <1>6, TicksAreInts DEF totalFeeRateAt, bigMin, Pos

LEMMA AccumulatorInRange ==
    ASSUME cfg \in Configs, NEW v \in Vars, OracleInv(v), NEW group \in Int
    PROVE  accumulatorAt(v, group) \in 0 .. cfg.maxAccumulator
<1>1. distance(v.groupReference, group) \in Nat
  BY DEF distance, bigMax, Vars
<1>2. distance(v.groupReference, group) * volatilityAccumulatorScaleFactor \in Nat
  BY <1>1, ConfigFacts, MulIsNat DEF Pos
<1>3. v.volatilityReference \in Nat /\ cfg.maxAccumulator \in Nat
  BY ConfigFacts DEF Vars
<1> QED
  BY <1>2, <1>3 DEF accumulatorAt, bigMin

\* A new reference is one an adaptive fee can be computed from.
LEMMA ReferenceKeepsOracle ==
    ASSUME cfg \in Configs, NEW v \in Vars, OracleInv(v), NEW t \in MinTickIndex - 1 .. MaxTickIndex,
           NEW timestamp \in Int
    PROVE  LET u == updateReference(v, floorDivision(t, cfg.tickGroupSize), timestamp)
           IN  u \in Vars /\ OracleInv(u)
<1> DEFINE group == floorDivision(t, cfg.tickGroupSize)
           decayed == (v.accumulator * cfg.reductionFactor) \div reductionFactorDenominator
<1>1. t \in Int /\ MinTickIndex - 1 <= t /\ t <= MaxTickIndex /\ MinTickIndex \in Int /\ MaxTickIndex \in Int
  BY TicksAreInts
<1>2. group \in Int /\ group * cfg.tickGroupSize <= t /\ t < group * cfg.tickGroupSize + cfg.tickGroupSize
      /\ group * cfg.tickGroupSize \in Int /\ cfg.tickGroupSize \in Int
  <2>1. cfg.tickGroupSize \in Pos
    BY ConfigFacts
  <2>2. group \in Int /\ group * cfg.tickGroupSize <= t /\ t < group * cfg.tickGroupSize + cfg.tickGroupSize
    BY <1>1, <2>1, GroupOfTick
  <2> HIDE DEF group
  <2> QED
    BY <2>1, <2>2 DEF Pos
<1> HIDE DEF group
<1>3. group * cfg.tickGroupSize <= MaxTickIndex
      /\ MinTickIndex <= group * cfg.tickGroupSize + cfg.tickGroupSize
  BY <1>1, <1>2
<1>4. decayed \in Nat /\ decayed <= v.accumulator
  <2> DEFINE a == v.accumulator
             d == reductionFactorDenominator
             n == a * cfg.reductionFactor
  <2>1. a \in Nat /\ d \in Pos /\ cfg.reductionFactor \in Nat /\ cfg.reductionFactor <= d
    BY ConfigFacts DEF Vars
  <2> HIDE DEF a, d
  <2>2. n \in Nat /\ n <= a * d
    <3>1. cfg.reductionFactor * a <= d * a
      BY <2>1, MulMonotone DEF Pos
    <3> QED
      BY <2>1, <3>1, MulIsNat DEF Pos
  <2>3. (a + 1) * d = a * d + d /\ a * d \in Nat /\ a + 1 \in Nat
    BY <2>1 DEF Pos
  <2> HIDE DEF n
  <2>4. n \div d \in Nat /\ ((a + 1) * d <= n <=> a + 1 <= n \div d)
    BY <2>1, <2>2, <2>3, FloorIsGreatest, DivFacts
  <2>5. n \div d \in Nat /\ n \div d <= a
    BY <2>1, <2>2, <2>3, <2>4 DEF Pos
  <2> QED
    BY <2>5 DEF n, a, d
<1>5. v.accumulator \in Nat /\ v.accumulator <= cfg.maxAccumulator /\ cfg.maxAccumulator \in Nat
  BY ConfigFacts DEF Vars, OracleInv
<1> DEFINE u(reference) == reanchored(v, group, reference, timestamp)
<1>6. ASSUME NEW reference \in Nat, reference <= cfg.maxAccumulator
      PROVE  u(reference) \in Vars /\ OracleInv(u(reference))
  BY <1>2, <1>3, <1>5, <1>6 DEF reanchored, Vars, OracleInv
<1>7. u(0) \in Vars /\ OracleInv(u(0))
  BY <1>5, <1>6
<1>8. u(decayed) \in Vars /\ OracleInv(u(decayed))
  BY <1>4, <1>5, <1>6
<1>9. updateReference(v, group, timestamp) \in {u(0), v, u(decayed)}
  BY DEF updateReference
<1> HIDE DEF u, decayed
<1>10. updateReference(v, group, timestamp) \in Vars /\ OracleInv(updateReference(v, group, timestamp))
  BY <1>7, <1>8, <1>9
<1> QED
  BY <1>10 DEF group

\* Bringing the accumulator up to date changes nothing else.
LEMMA UpdatedState ==
    ASSUME cfg \in Configs, NEW st \in States, OracleInv(st.vars)
    PROVE  LET u == updateVolatilityAccumulator(st)
           IN  /\ u \in States /\ OracleInv(u.vars)
               /\ u.vars.volatilityReference = st.vars.volatilityReference
               /\ u.vars.groupReference = st.vars.groupReference
               /\ u.amountRemaining = st.amountRemaining /\ u.amountOut = st.amountOut
               /\ u.sqrtPrice = st.sqrtPrice /\ u.liquidity = st.liquidity /\ u.tick = st.tick
               /\ u.group = st.group /\ u.err = st.err
               /\ cfg.adaptive => u.vars.accumulator = accumulatorAt(st.vars, st.group)
<1> DEFINE a == accumulatorAt(st.vars, st.group)
<1>1. st.vars \in Vars /\ st.group \in Int
  BY DEF States
<1>2. a \in Nat /\ a <= cfg.maxAccumulator
  <2>1. a \in 0 .. cfg.maxAccumulator /\ cfg.maxAccumulator \in Nat
    BY <1>1, AccumulatorInRange, ConfigFacts
  <2> HIDE DEF a
  <2> QED
    BY <2>1
<1>3. updateVolatilityAccumulator(st) = IF cfg.adaptive THEN [st EXCEPT !.vars.accumulator = a] ELSE st
  BY DEF updateVolatilityAccumulator
<1> HIDE DEF a
<1>4. CASE cfg.adaptive
  <2> DEFINE u == [st EXCEPT !.vars.accumulator = a]
  <2>1. u = [st EXCEPT !.vars = [st.vars EXCEPT !.accumulator = a]]
    BY <1>1 DEF States, Vars
  <2>2. [st.vars EXCEPT !.accumulator = a] \in Vars
    BY <1>1, <1>2 DEF Vars
  <2>3. OracleInv([st.vars EXCEPT !.accumulator = a])
    BY <1>1, <1>2 DEF OracleInv, Vars
  <2>4. /\ u \in States /\ u.vars = [st.vars EXCEPT !.accumulator = a]
        /\ u.amountRemaining = st.amountRemaining /\ u.amountOut = st.amountOut
        /\ u.sqrtPrice = st.sqrtPrice /\ u.liquidity = st.liquidity /\ u.tick = st.tick
        /\ u.group = st.group /\ u.err = st.err
    BY <2>1, <2>2 DEF States
  <2>5. /\ [st.vars EXCEPT !.accumulator = a].volatilityReference = st.vars.volatilityReference
        /\ [st.vars EXCEPT !.accumulator = a].groupReference = st.vars.groupReference
        /\ [st.vars EXCEPT !.accumulator = a].accumulator = a
    BY <1>1 DEF Vars
  <2>6. updateVolatilityAccumulator(st) = u
    BY <1>3, <1>4
  <2> HIDE DEF u
  <2> QED
    BY <2>3, <2>4, <2>5, <2>6 DEF a
<1>5. CASE ~cfg.adaptive
  BY <1>3, <1>5
<1> QED
  BY <1>4, <1>5

-----------------------------------------------------------------------------
\* Where a step lands

Net == cfg.liquidityNet

LEMMA LimitPrices ==
    /\ MinTickIndex \in PricedTicks /\ MaxTickIndex \in PricedTicks
    /\ MinSqrtPrice = sqrtPrices[MinTickIndex] /\ MaxSqrtPrice = sqrtPrices[MaxTickIndex]
    /\ MinSqrtPrice \in Pos /\ MaxSqrtPrice \in Pos
    /\ \A z \in BOOLEAN : limit(z) = sqrtPrices[IF z THEN MinTickIndex ELSE MaxTickIndex]
    /\ \A t \in TickIndexes : /\ t \in PricedTicks /\ t + 1 \in PricedTicks /\ t - 1 \in PricedTicks
                              /\ sqrtPrices[t] \in MinSqrtPrice .. MaxSqrtPrice
<1>1. MinTickIndex \in PricedTicks /\ MaxTickIndex \in PricedTicks
  BY TicksAreInts DEF PricedTicks
<1>2. MinSqrtPrice = sqrtPrices[MinTickIndex] /\ MaxSqrtPrice = sqrtPrices[MaxTickIndex]
  BY DEF MinSqrtPrice, MaxSqrtPrice, SqrtPriceFromTickIndex
<1>3. MinSqrtPrice \in Pos /\ MaxSqrtPrice \in Pos
  BY <1>1, <1>2, PriceIsPositive
<1>4. ASSUME NEW t \in TickIndexes
      PROVE  /\ t \in PricedTicks /\ t + 1 \in PricedTicks /\ t - 1 \in PricedTicks
             /\ sqrtPrices[t] \in MinSqrtPrice .. MaxSqrtPrice
  <2>1. t \in PricedTicks /\ t + 1 \in PricedTicks /\ t - 1 \in PricedTicks
        /\ MinTickIndex <= t /\ t <= MaxTickIndex
    BY TicksAreInts DEF PricedTicks
  <2>2. sqrtPrices[MinTickIndex] <= sqrtPrices[t] /\ sqrtPrices[t] <= sqrtPrices[MaxTickIndex]
        /\ sqrtPrices[t] \in Pos
    BY <1>1, <2>1, PriceOrder
  <2> QED
    BY <1>2, <1>3, <2>1, <2>2 DEF Pos
<1> QED
  BY <1>1, <1>2, <1>3, <1>4 DEF limit

LEMMA TickPrices ==
    \A t \in TickIndexes : t \in PricedTicks /\ sqrtPrices[t] \in Pos /\ t \in Int
<1> SUFFICES ASSUME NEW t \in TickIndexes
             PROVE  t \in PricedTicks /\ sqrtPrices[t] \in Pos /\ t \in Int
  OBVIOUS
<1>1. t \in PricedTicks
  BY LimitPrices
<1>2. sqrtPrices[t] \in Pos
  BY <1>1, PriceIsPositive
<1>3. t \in Int
  BY TicksAreInts
<1> QED
  BY <1>1, <1>2, <1>3

\* The amounts of a walk's state are u64s.
LEMMA StateAmounts ==
    ASSUME NEW st \in States
    PROVE  /\ st.amountRemaining \in Nat /\ st.amountRemaining <= MaxU64
           /\ st.amountOut \in Nat /\ st.amountOut <= MaxU64 /\ MaxU64 \in Nat
<1>1. st.amountRemaining \in 0 .. MaxU64 /\ st.amountOut \in 0 .. MaxU64
  BY DEF States
<1>2. MaxU64 \in Nat
  BY TicksAreInts
<1> QED
  BY <1>1, <1>2

\* A step's price has a tick between the walk's and the boundary, and the liquidity the
\* step leaves is that tick's.
LEMMA Landing ==
    ASSUME cfg \in Configs, NEW z \in BOOLEAN, z = q.aToB,
           NEW u \in TickIndexes, u = b.tickIndex, b.initialized <=> u \in Initialized,
           NEW st, NEW t \in MinTickIndex - 1 .. MaxTickIndex, NEW p \in MinSqrtPrice .. MaxSqrtPrice,
           st.tick = t, st.sqrtPrice = p, st.liquidity = LiquidityAt(t),
           Holds(t, p), IF z THEN u <= t ELSE t < u,
           \A v \in Initialized : ~(IF z THEN u < v /\ v <= t ELSE t < v /\ v < u),
           NEW n \in Pos, Ahead(p, n, z), Ahead(n, sqrtPrices[u], z)
    PROVE  LET landed    == landedTick(st, n)
               reached   == n = SqrtPriceFromTickIndex(u)
               liquidity == IF reached /\ b.initialized THEN crossLiquidity(st.liquidity, Net[u], q.aToB)
                                                        ELSE st.liquidity
           IN  /\ n \in MinSqrtPrice .. MaxSqrtPrice
               /\ landed \in MinTickIndex - 1 .. MaxTickIndex
               /\ Holds(landed, n)
               /\ IF z THEN u - 1 <= landed /\ landed <= t ELSE t <= landed /\ landed <= u
               /\ n # sqrtPrices[u] => IF z THEN u <= landed ELSE landed < u
               /\ n = sqrtPrices[u] => landed = IF z THEN u - 1 ELSE u
               /\ liquidity = LiquidityAt(landed)
<1> DEFINE landed == landedTick(st, n)
           D == MinTickIndex - 1 .. MaxTickIndex
           liquidity == IF n = SqrtPriceFromTickIndex(u) /\ b.initialized
                        THEN crossLiquidity(st.liquidity, Net[u], q.aToB) ELSE st.liquidity
<1>1. /\ MinTickIndex \in Int /\ MaxTickIndex \in Int /\ TickIndexes = MinTickIndex .. MaxTickIndex
      /\ u \in Int /\ t \in Int /\ MinTickIndex <= u /\ u <= MaxTickIndex
  BY TicksAreInts
<1>2. /\ u \in PricedTicks /\ u + 1 \in PricedTicks /\ u - 1 \in PricedTicks
      /\ t \in PricedTicks /\ t + 1 \in PricedTicks
  BY <1>1 DEF PricedTicks
<1>3. /\ sqrtPrices[u] \in Pos /\ sqrtPrices[u + 1] \in Pos /\ sqrtPrices[u - 1] \in Pos
      /\ sqrtPrices[u] <= sqrtPrices[u + 1] /\ sqrtPrices[u - 1] <= sqrtPrices[u]
      /\ sqrtPrices[t] \in Pos /\ sqrtPrices[t + 1] \in Pos
  BY <1>1, <1>2, PriceOrder
<1>4. MinSqrtPrice \in Pos /\ MaxSqrtPrice \in Pos /\ sqrtPrices[u] \in MinSqrtPrice .. MaxSqrtPrice
  BY LimitPrices
<1>5. n \in MinSqrtPrice .. MaxSqrtPrice
  BY <1>3, <1>4 DEF Ahead, Pos
<1>6. SqrtPriceFromTickIndex(u) = sqrtPrices[u]
  BY DEF SqrtPriceFromTickIndex
<1>7. landed = IF n = sqrtPrices[u] THEN IF z THEN u - 1 ELSE u
               ELSE IF n = p THEN t ELSE TickIndexFromSqrtPrice(n)
  BY <1>6 DEF landedTick
<1>8. liquidity = IF n = sqrtPrices[u] /\ u \in Initialized
                  THEN (IF z THEN LiquidityAt(t) - Net[u] ELSE LiquidityAt(t) + Net[u]) ELSE LiquidityAt(t)
  BY <1>6 DEF crossLiquidity
<1>9. Net \in [Initialized -> Int]
  BY ConfigFacts DEF Net
<1>10. ASSUME NEW x \in D, NEW y \in D, x <= y,
              \A v \in Initialized : ~(x < v /\ v <= y)
       PROVE  LiquidityAt(x) = LiquidityAt(y)
  <2>1. \A v \in TickIndexes : x < v /\ v <= y => netAt(Net, v) = 0
    BY <1>10 DEF netAt
  <2> QED
    BY <1>9, <1>10, <2>1, LiquidityStays DEF LiquidityAt, Net
<1>11. u \in D /\ u - 1 \in D /\ t \in D
  BY <1>1
<1>12. LiquidityAt(u) = LiquidityAt(u - 1) + netAt(Net, u) /\ LiquidityAt(u) \in Int /\ LiquidityAt(u - 1) \in Int
       /\ netAt(Net, u) \in Int
  <2>1. netAt(Net, u) \in Int
    BY <1>9 DEF netAt
  <2> QED
    BY <1>9, <1>11, <2>1, LiquidityAdds DEF LiquidityAt, Net
<1> HIDE DEF D, landed, liquidity
<1>13. ASSUME n = sqrtPrices[u]
       PROVE  /\ landed = IF z THEN u - 1 ELSE u
              /\ landed \in D
              /\ Holds(landed, n)
              /\ IF z THEN u - 1 <= landed /\ landed <= t ELSE t <= landed /\ landed <= u
              /\ liquidity = LiquidityAt(landed)
  <2>1. CASE z
    <3>1. landed = u - 1 /\ landed + 1 = u
      BY <1>1, <1>7, <1>13, <2>1
    <3>2. LiquidityAt(u) = LiquidityAt(t)
      BY <1>10, <1>11, <2>1
    <3>3. liquidity = LiquidityAt(u) - netAt(Net, u)
      BY <1>8, <1>12, <1>13, <2>1, <3>2 DEF netAt
    <3>4. Holds(landed, n)
      <4>1. Holds(u - 1, n)
        <5>1. u - 1 + 1 = u
          BY <1>1
        <5> QED
          BY <1>3, <1>13, <5>1 DEF Holds, Pos
      <4> QED
        BY <3>1, <4>1
    <3> QED
      BY <1>1, <1>11, <1>12, <2>1, <3>1, <3>3, <3>4
  <2>2. CASE ~z
    <3>1. landed = u
      BY <1>7, <1>13, <2>2
    <3>2. LiquidityAt(t) = LiquidityAt(u - 1)
      <4>1. t <= u - 1 /\ \A v \in Initialized : ~(t < v /\ v <= u - 1)
        <5>1. \A v \in Initialized : v \in Int
          BY SpanFacts
        <5> QED
          BY <1>1, <2>2, <5>1
      <4> QED
        BY <1>10, <1>11, <4>1
    <3>3. liquidity = LiquidityAt(u - 1) + netAt(Net, u)
      BY <1>8, <1>12, <1>13, <2>2, <3>2 DEF netAt
    <3>4. Holds(u, n)
      BY <1>3, <1>13 DEF Holds, Pos
    <3> QED
      BY <1>1, <1>11, <1>12, <2>2, <3>1, <3>3, <3>4
  <2> QED
    BY <2>1, <2>2
<1>14. ASSUME n # sqrtPrices[u], n = p
       PROVE  /\ landed \in D /\ Holds(landed, n) /\ landed = t /\ liquidity = LiquidityAt(landed)
  BY <1>7, <1>8, <1>11, <1>14
<1>15. ASSUME n # sqrtPrices[u], n # p
       PROVE  /\ landed \in D
              /\ Holds(landed, n)
              /\ IF z THEN u <= landed /\ landed <= t ELSE t <= landed /\ landed < u
              /\ liquidity = LiquidityAt(landed)
  <2>1. landed = TickIndexFromSqrtPrice(n)
    BY <1>7, <1>15
  <2>2. landed \in TickIndexes /\ sqrtPrices[landed] <= n /\ n < sqrtPrices[landed + 1]
    BY <1>5, <2>1, TickOfPrice
  <2>3. landed \in Int /\ landed \in D /\ landed \in PricedTicks /\ landed + 1 \in PricedTicks
    BY <1>1, <2>2 DEF D, PricedTicks
  <2>4. sqrtPrices[landed] \in Pos /\ sqrtPrices[landed + 1] \in Pos
    BY <2>3, PriceIsPositive
  <2>5. Holds(landed, n)
    BY <2>2, <2>4 DEF Holds, Pos
  <2>6. p \in Int /\ sqrtPrices[t] <= p /\ p <= sqrtPrices[t + 1]
    BY <1>4 DEF Holds, Pos
  <2>7. CASE z
    <3>1. n <= p /\ sqrtPrices[u] <= n
      BY <2>7 DEF Ahead
    <3>2. sqrtPrices[u] < sqrtPrices[landed + 1] /\ sqrtPrices[landed] < sqrtPrices[t + 1]
      BY <1>3, <1>15, <2>2, <2>4, <2>6, <3>1 DEF Pos
    <3>3. u < landed + 1 /\ landed < t + 1
      BY <1>2, <2>3, <3>2, PriceOrder
    <3>4. u <= landed /\ landed <= t
      BY <1>1, <2>3, <3>3
    <3>5. \A v \in Initialized : ~(landed < v /\ v <= t)
      <4>1. \A v \in Initialized : v \in Int
        BY SpanFacts
      <4> QED
        BY <1>1, <2>3, <2>7, <3>4, <4>1
    <3>6. LiquidityAt(landed) = LiquidityAt(t)
      BY <1>10, <1>11, <2>3, <3>4, <3>5
    <3> QED
      BY <1>8, <1>15, <2>3, <2>5, <2>7, <3>4, <3>6
  <2>8. CASE ~z
    <3>1. p <= n /\ n <= sqrtPrices[u]
      BY <2>8 DEF Ahead
    <3>2. sqrtPrices[landed] < sqrtPrices[u] /\ sqrtPrices[t] < sqrtPrices[landed + 1]
      BY <1>3, <1>15, <2>2, <2>4, <2>6, <3>1 DEF Pos
    <3>3. landed < u /\ t < landed + 1
      BY <1>2, <2>3, <3>2, PriceOrder
    <3>4. t <= landed
      BY <1>1, <2>3, <3>3
    <3>5. \A v \in Initialized : ~(t < v /\ v <= landed)
      <4>1. \A v \in Initialized : v \in Int
        BY SpanFacts
      <4> QED
        BY <1>1, <2>3, <2>8, <3>3, <4>1
    <3>6. LiquidityAt(t) = LiquidityAt(landed)
      BY <1>10, <1>11, <2>3, <3>4, <3>5
    <3> QED
      BY <1>8, <1>15, <2>3, <2>5, <2>8, <3>3, <3>4, <3>6
  <2> QED
    BY <2>7, <2>8
<1>16. /\ landed \in D /\ Holds(landed, n) /\ liquidity = LiquidityAt(landed)
       /\ IF z THEN u - 1 <= landed /\ landed <= t ELSE t <= landed /\ landed <= u
       /\ n # sqrtPrices[u] => IF z THEN u <= landed ELSE landed < u
       /\ n = sqrtPrices[u] => landed = IF z THEN u - 1 ELSE u
  <2>1. landed \in D => landed \in Int
    BY <1>1 DEF D
  <2>2. CASE n = sqrtPrices[u]
    BY <1>13, <2>2
  <2>3. CASE n # sqrtPrices[u] /\ n = p
    BY <1>1, <1>14, <2>3
  <2>4. CASE n # sqrtPrices[u] /\ n # p
    BY <1>1, <1>15, <2>1, <2>4
  <2> QED
    BY <2>2, <2>3, <2>4
<1> QED
  BY <1>5, <1>16 DEF landed, liquidity, D

-----------------------------------------------------------------------------
\* Groups and their edges

\* The group's two edges hold the price between them.
GroupSpans(group, price) == groupEdge(group, TRUE) <= price /\ price <= groupEdge(group, FALSE)

LEMMA ClampFacts ==
    ASSUME NEW x \in Int
    PROVE  /\ clampTick(x) \in TickIndexes
           /\ x \in TickIndexes => clampTick(x) = x
           /\ x < MinTickIndex => clampTick(x) = MinTickIndex
           /\ MaxTickIndex < x => clampTick(x) = MaxTickIndex
           /\ \A y \in TickIndexes : /\ y <= clampTick(x) <=> y <= x \/ y = MinTickIndex
                                     /\ clampTick(x) <= y <=> x <= y \/ y = MaxTickIndex
BY TicksAreInts DEF clampTick, bigMin, bigMax

LEMMA GroupEdges ==
    ASSUME cfg \in Configs, NEW i \in Int
    PROVE  /\ lowOf(i) \in Int /\ highOf(i) \in Int /\ lowOf(i) < highOf(i)
           /\ Multiple(lowOf(i), cfg.tickGroupSize) /\ Multiple(highOf(i), cfg.tickGroupSize)
           /\ lowOf(i + 1) = highOf(i) /\ highOf(i - 1) = lowOf(i)
           /\ highOf(i) = (i + 1) * cfg.tickGroupSize
           /\ highOf(i) = lowOf(i) + cfg.tickGroupSize
           /\ groupEdge(i, TRUE) = sqrtPrices[clampTick(lowOf(i))]
           /\ groupEdge(i, FALSE) = sqrtPrices[clampTick(highOf(i))]
           /\ \A j \in Int : i <= j => lowOf(i) <= lowOf(j) /\ highOf(i) <= highOf(j)
           /\ \A j \in Int : i < j => highOf(i) <= lowOf(j)
<1> DEFINE sp == cfg.tickGroupSize
<1>1. sp \in Pos
  BY ConfigFacts
<1> HIDE DEF sp
<1>2. \A j : lowOf(j) = j * sp /\ highOf(j) = j * sp + sp
  BY DEF lowOf, highOf, sp
<1>3. \A j \in Int : j * sp \in Int /\ (j + 1) * sp = j * sp + sp /\ (j - 1) * sp = j * sp - sp
  BY <1>1, NextGroups
<1>4. i + 1 \in Int /\ i - 1 \in Int
  OBVIOUS
<1>5. lowOf(i) \in Int /\ highOf(i) \in Int /\ lowOf(i) < highOf(i) /\ highOf(i) = lowOf(i) + sp
  BY <1>1, <1>2, <1>3 DEF Pos
<1>6. Multiple(lowOf(i), sp)
  BY <1>2 DEF Multiple
<1>7. highOf(i) = (i + 1) * sp
  BY <1>2, <1>3
<1>8. Multiple(highOf(i), sp)
  BY <1>4, <1>7 DEF Multiple
<1>9. lowOf(i + 1) = highOf(i)
  BY <1>2, <1>7
<1>10. highOf(i - 1) = lowOf(i)
  <2>1. highOf(i - 1) = (i - 1) * sp + sp /\ lowOf(i) = i * sp
    BY <1>2
  <2> QED
    BY <2>1, <1>1, <1>3 DEF Pos
<1>11. ASSUME NEW j \in Int
       PROVE  /\ i <= j => lowOf(i) <= lowOf(j) /\ highOf(i) <= highOf(j)
              /\ i < j => highOf(i) <= lowOf(j)
  <2>1. i <= j => i * sp <= j * sp
    BY <1>1, MulMonotone DEF Pos
  <2>2. i < j => (i + 1) * sp <= j * sp
    BY <1>1, MulMonotone DEF Pos
  <2>3. i * sp \in Int /\ j * sp \in Int
    BY <1>3
  <2> QED
    BY <1>1, <1>2, <1>7, <2>1, <2>2, <2>3 DEF Pos
<1>12. groupEdge(i, TRUE) = sqrtPrices[clampTick(lowOf(i))]
  BY Zenon DEF groupEdge, SqrtPriceFromTickIndex, lowOf
<1>13. groupEdge(i, FALSE) = sqrtPrices[clampTick((i + 1) * cfg.tickGroupSize)]
  BY Zenon DEF groupEdge, SqrtPriceFromTickIndex
<1>14. groupEdge(i, FALSE) = sqrtPrices[clampTick(highOf(i))]
  BY <1>7, <1>13 DEF sp
<1> QED
  BY <1>5, <1>6, <1>7, <1>8, <1>9, <1>10, <1>11, <1>12, <1>14 DEF sp

\* A group that overlaps a tick's price interval holds the price, and it is spanned by
\* prices of ticks.
LEMMA EdgePrices ==
    ASSUME cfg \in Configs, NEW i \in Int
    PROVE  LET low  == clampTick(lowOf(i))
               high == clampTick(highOf(i))
           IN  /\ low \in TickIndexes /\ high \in TickIndexes /\ low <= high
               /\ low \in PricedTicks /\ high \in PricedTicks
               /\ groupEdge(i, TRUE) = sqrtPrices[low] /\ groupEdge(i, FALSE) = sqrtPrices[high]
               /\ groupEdge(i, TRUE) \in Pos /\ groupEdge(i, FALSE) \in Pos
<1> DEFINE low == clampTick(lowOf(i))
           high == clampTick(highOf(i))
<1>1. lowOf(i) \in Int /\ highOf(i) \in Int /\ lowOf(i) < highOf(i)
      /\ groupEdge(i, TRUE) = sqrtPrices[low] /\ groupEdge(i, FALSE) = sqrtPrices[high]
  BY GroupEdges
<1>2. low \in TickIndexes /\ high \in TickIndexes
  BY <1>1, ClampFacts
<1>3. low <= high
  BY <1>1, TicksAreInts DEF clampTick, bigMin, bigMax
<1>4. low \in PricedTicks /\ high \in PricedTicks
  BY <1>2, LimitPrices
<1>5. sqrtPrices[low] \in Pos /\ sqrtPrices[high] \in Pos
  BY <1>4, PriceIsPositive
<1> HIDE DEF low, high
<1>6. groupEdge(i, TRUE) \in Pos /\ groupEdge(i, FALSE) \in Pos
  BY <1>1, <1>5, Zenon
<1> QED
  BY <1>1, <1>2, <1>3, <1>4, <1>6 DEF low, high

\* The group of a walk's tick holds its price.
LEMMA TickGroupSpans ==
    ASSUME cfg \in Configs, NEW i \in Int, NEW t \in MinTickIndex - 1 .. MaxTickIndex,
           NEW p \in MinSqrtPrice .. MaxSqrtPrice, Holds(t, p), lowOf(i) <= t, t < highOf(i)
    PROVE  GroupSpans(i, p)
<1> DEFINE low == clampTick(lowOf(i))
           high == clampTick(highOf(i))
<1>1. /\ low \in TickIndexes /\ high \in TickIndexes /\ low \in PricedTicks /\ high \in PricedTicks
      /\ groupEdge(i, TRUE) = sqrtPrices[low] /\ groupEdge(i, FALSE) = sqrtPrices[high]
      /\ sqrtPrices[low] \in Pos /\ sqrtPrices[high] \in Pos
  BY EdgePrices, PriceIsPositive
<1>2. lowOf(i) \in Int /\ highOf(i) \in Int
  BY GroupEdges
<1>3. MinTickIndex \in Int /\ MaxTickIndex \in Int /\ t \in Int /\ TickIndexes = MinTickIndex .. MaxTickIndex
      /\ MinTickIndex < 0 /\ 0 < MaxTickIndex
  BY TicksAreInts
<1>4. t \in PricedTicks /\ t + 1 \in PricedTicks
  BY <1>3 DEF PricedTicks
<1>5. /\ sqrtPrices[t] \in Pos /\ sqrtPrices[t + 1] \in Pos
      /\ MinSqrtPrice = sqrtPrices[MinTickIndex] /\ MaxSqrtPrice = sqrtPrices[MaxTickIndex]
      /\ MinTickIndex \in PricedTicks /\ MaxTickIndex \in PricedTicks
      /\ MinSqrtPrice \in Pos /\ MaxSqrtPrice \in Pos
      /\ MinTickIndex \in TickIndexes /\ MaxTickIndex \in TickIndexes
  BY <1>3, <1>4, PriceIsPositive, LimitPrices
<1>6. p \in Int /\ sqrtPrices[t] <= p /\ p <= sqrtPrices[t + 1] /\ MinSqrtPrice <= p /\ p <= MaxSqrtPrice
  BY <1>5 DEF Holds, Pos
<1>7. low <= t \/ low = MinTickIndex
  BY <1>2, <1>3 DEF clampTick, bigMin, bigMax
<1>8. t + 1 <= high \/ high = MaxTickIndex
  BY <1>2, <1>3 DEF clampTick, bigMin, bigMax
<1> HIDE DEF low, high
<1>9. sqrtPrices[low] <= p
  <2>1. low <= t => sqrtPrices[low] <= sqrtPrices[t]
    BY <1>1, <1>4, PriceOrder
  <2> QED
    BY <1>1, <1>5, <1>6, <1>7, <2>1 DEF Pos
<1>10. p <= sqrtPrices[high]
  <2>1. t + 1 <= high => sqrtPrices[t + 1] <= sqrtPrices[high]
    BY <1>1, <1>4, PriceOrder
  <2> QED
    BY <1>1, <1>5, <1>6, <1>8, <2>1 DEF Pos
<1> QED
  BY <1>1, <1>9, <1>10, Zenon DEF GroupSpans

-----------------------------------------------------------------------------
\* The core range and the target of a step

LEMMA CoreFacts ==
    ASSUME cfg \in Configs, NEW v \in Vars, OracleInv(v)
    PROVE  /\ maxDelta(v) \in Nat
           /\ cfg.maxAccumulator - v.volatilityReference <= maxDelta(v) * volatilityAccumulatorScaleFactor
           /\ \A i \in coreLower(v) : /\ i = v.groupReference - maxDelta(v) /\ i \in Int
                                      /\ coreLower(v) = {i} /\ lowOf(i) \in TickIndexes
           /\ \A i \in coreUpper(v) : /\ i = v.groupReference + maxDelta(v) /\ i \in Int
                                      /\ coreUpper(v) = {i} /\ highOf(i) \in TickIndexes
<1> DEFINE d == maxDelta(v)
           n == cfg.maxAccumulator - v.volatilityReference
           sc == volatilityAccumulatorScaleFactor
           ref == v.groupReference
<1>1. n \in Nat /\ sc \in Pos /\ ref \in Int
  BY ConfigFacts DEF Vars, OracleInv
<1>2. d = divCeil(n, sc)
  BY DEF maxDelta
<1> HIDE DEF d, n, sc
<1>3. d \in Nat /\ n <= d * sc
  <2>1. divCeil(n, sc) \in Nat
    BY <1>1, CeilIsLeast, 0 \in Nat
  <2>2. n <= d * sc <=> divCeil(n, sc) <= d
    BY <1>1, <1>2, <2>1, CeilIsLeast
  <2> QED
    BY <1>2, <2>1, <2>2
<1>4. lowOf(ref) <= MaxTickIndex /\ MinTickIndex <= highOf(ref)
  BY DEF OracleInv, lowOf, highOf
<1>5. ASSUME NEW i \in coreLower(v)
      PROVE  i = ref - d /\ i \in Int /\ coreLower(v) = {i} /\ lowOf(i) \in TickIndexes
  <2>1. i = ref - d /\ coreLower(v) = {i} /\ i * cfg.tickGroupSize > MinTickIndex
    BY DEF coreLower, d
  <2> HIDE DEF ref
  <2>2. i \in Int /\ i <= ref
    BY <1>1, <1>3, <2>1
  <2>3. lowOf(i) \in Int /\ lowOf(i) <= lowOf(ref) /\ lowOf(ref) \in Int
    BY <1>1, <2>2, GroupEdges
  <2>4. MinTickIndex < lowOf(i)
    BY <2>1, <2>3, TicksAreInts DEF lowOf
  <2> QED
    BY <1>4, <2>1, <2>2, <2>3, <2>4, TicksAreInts
<1>6. ASSUME NEW i \in coreUpper(v)
      PROVE  i = ref + d /\ i \in Int /\ coreUpper(v) = {i} /\ highOf(i) \in TickIndexes
  <2>1. i = ref + d /\ coreUpper(v) = {i} /\ (i + 1) * cfg.tickGroupSize < MaxTickIndex
    BY DEF coreUpper, d
  <2> HIDE DEF ref
  <2>2. i \in Int /\ ref <= i
    BY <1>1, <1>3, <2>1
  <2>3. highOf(i) \in Int /\ highOf(ref) <= highOf(i) /\ highOf(ref) \in Int
        /\ highOf(i) = (i + 1) * cfg.tickGroupSize
    BY <1>1, <2>2, GroupEdges
  <2> QED
    BY <1>4, <2>1, <2>2, <2>3, TicksAreInts
<1> QED
  BY <1>3, <1>5, <1>6 DEF d, n, sc

LEMMA MinOfTwo ==
    ASSUME NEW x \in Int, NEW y \in Int
    PROVE  /\ Min({x} \cup {y}) = IF x <= y THEN x ELSE y
           /\ Max({x} \cup {y}) = IF y <= x THEN x ELSE y
<1>1. Min({x} \cup {y}) = IF x <= y THEN x ELSE y
  <2>1. \E e \in {x} \cup {y} : \A f \in {x} \cup {y} : e <= f
    OBVIOUS
  <2>2. Min({x} \cup {y}) \in {x} \cup {y} /\ \A f \in {x} \cup {y} : Min({x} \cup {y}) <= f
    BY <2>1 DEF Min
  <2> QED
    BY <2>2
<1>2. Max({x} \cup {y}) = IF y <= x THEN x ELSE y
  <2>1. \E e \in {x} \cup {y} : \A f \in {x} \cup {y} : e >= f
    OBVIOUS
  <2>2. Max({x} \cup {y}) \in {x} \cup {y} /\ \A f \in {x} \cup {y} : Max({x} \cup {y}) >= f
    BY <2>1 DEF Max
  <2> QED
    BY <2>2
<1> QED
  BY <1>1, <1>2

\* Where a step is told to stop: at the boundary, at the core range on the way back to
\* it, or at the edge of its group.
StopsAt(st, x, z) ==
    \/ skipsGroups(st) /\ x = b.tickIndex
    \/ /\ skipsGroups(st)
       /\ \E i \in Int : IF z THEN i < st.group /\ x = highOf(i) ELSE st.group < i /\ x = lowOf(i)
    \/ /\ ~skipsGroups(st)
       /\ LET edge == clampTick(IF z THEN lowOf(st.group) ELSE highOf(st.group))
          IN  \/ x = edge /\ IF z THEN b.tickIndex <= x ELSE x <= b.tickIndex
              \/ ~z /\ x = b.tickIndex /\ x < edge

LEMMA TargetIsTick ==
    ASSUME cfg \in Configs, cfg.adaptive, NEW z \in BOOLEAN, z = q.aToB,
           NEW st, OracleInv(st.vars), st.vars \in Vars, st.group \in Int,
           b.tickIndex \in TickIndexes, EdgeAhead(st.group, b.tickIndex),
           st.sqrtPrice \in Pos, Ahead(st.sqrtPrice, sqrtPrices[b.tickIndex], z),
           GroupSpans(st.group, st.sqrtPrice)
    PROVE  LET target == boundedTarget(st, sqrtPrices[b.tickIndex], z)
           IN  \E x \in TickIndexes :
                   /\ target = sqrtPrices[x] /\ Ahead(st.sqrtPrice, target, z)
                   /\ IF z THEN b.tickIndex <= x ELSE x <= b.tickIndex
                   /\ StopsAt(st, x, z)
<1> DEFINE u == b.tickIndex
           g == st.group
           p == st.sqrtPrice
           target == boundedTarget(st, sqrtPrices[u], z)
           low == clampTick(lowOf(g))
           high == clampTick(highOf(g))
<1>1. /\ u \in PricedTicks /\ sqrtPrices[u] \in Pos /\ u \in Int /\ g \in Int
  BY LimitPrices, PriceIsPositive, TicksAreInts
<1>2. /\ low \in TickIndexes /\ high \in TickIndexes /\ low <= high
      /\ low \in PricedTicks /\ high \in PricedTicks
      /\ groupEdge(g, TRUE) = sqrtPrices[low] /\ groupEdge(g, FALSE) = sqrtPrices[high]
      /\ sqrtPrices[low] \in Pos /\ sqrtPrices[high] \in Pos
  BY EdgePrices, PriceIsPositive
<1>3. sqrtPrices[low] <= p /\ p <= sqrtPrices[high]
  <2> HIDE DEF low, high
  <2>1. groupEdge(g, TRUE) <= p /\ p <= groupEdge(g, FALSE)
    BY DEF GroupSpans
  <2> QED
    BY <1>2, <2>1, Zenon
<1>4. \A x \in TickIndexes : x \in PricedTicks /\ sqrtPrices[x] \in Pos /\ x \in Int
  BY TickPrices
<1>5. IF z THEN sqrtPrices[u] <= p ELSE p <= sqrtPrices[u]
  BY DEF Ahead
<1>6. lowOf(g) \in Int /\ highOf(g) \in Int
  BY GroupEdges
<1> DEFINE good(x) == /\ target = sqrtPrices[x] /\ Ahead(p, target, z)
                      /\ IF z THEN u <= x ELSE x <= u
                      /\ StopsAt(st, x, z)
<1> SUFFICES \E x \in TickIndexes : good(x)
  OBVIOUS
<1> HIDE DEF target
<1>7. CASE cfg.controlFactor = 0 \/ st.liquidity = 0
  <2>1. skipsGroups(st) /\ target = sqrtPrices[u]
    BY <1>7 DEF skipsGroups, boundedTarget, target
  <2>2. good(u)
    BY <1>1, <2>1 DEF StopsAt
  <2> QED
    BY <2>2
<1>8. CASE ~(cfg.controlFactor = 0 \/ st.liquidity = 0) /\ belowCore(st)
  <2>1. skipsGroups(st)
    BY <1>8 DEF skipsGroups
  <2>2. CASE z
    <3>1. target = sqrtPrices[u]
      BY <1>8, <2>2 DEF boundedTarget, target
    <3>2. good(u)
      BY <1>1, <2>1, <3>1 DEF StopsAt
    <3> QED
      BY <3>2
  <2>3. CASE ~z
    <3>1. PICK i \in coreLower(st.vars) : g < i
      BY <1>8 DEF belowCore
    <3>2. i \in Int /\ coreLower(st.vars) = {i} /\ lowOf(i) \in TickIndexes
      BY CoreFacts
    <3> DEFINE x == lowOf(i)
    <3>3. x \in TickIndexes /\ x \in PricedTicks /\ sqrtPrices[x] \in Pos /\ x \in Int
      BY <1>4, <3>2
    <3>4. target = Min({sqrtPrices[u]} \cup {SqrtPriceFromTickIndex(j * cfg.tickGroupSize) : j \in {i}})
      BY <1>8, <2>3, <3>2 DEF boundedTarget, target
    <3>5. {SqrtPriceFromTickIndex(j * cfg.tickGroupSize) : j \in {i}} = {sqrtPrices[x]}
      BY DEF SqrtPriceFromTickIndex, lowOf
    <3>6. target = Min({sqrtPrices[u]} \cup {sqrtPrices[x]})
      BY <3>4, <3>5
    <3>7. target = IF sqrtPrices[u] <= sqrtPrices[x] THEN sqrtPrices[u] ELSE sqrtPrices[x]
      <4> HIDE DEF u, x
      <4>1. sqrtPrices[u] \in Int /\ sqrtPrices[x] \in Int
        BY <1>1, <3>3 DEF Pos
      <4> QED
        BY <3>6, <4>1, MinOfTwo
    <3>8. p <= sqrtPrices[x]
      <4>1. highOf(g) <= x
        BY <1>1, <3>1, <3>2, GroupEdges
      <4>2. high <= x
        BY <1>6, <3>3, <4>1, ClampFacts
      <4> HIDE DEF high, x
      <4>3. sqrtPrices[high] <= sqrtPrices[x]
        BY <1>2, <3>3, <4>2, PriceOrder
      <4> QED
        BY <1>2, <1>3, <3>3, <4>3 DEF Pos
    <3>9. CASE sqrtPrices[u] <= sqrtPrices[x]
      <4>1. good(u)
        BY <1>1, <2>1, <3>7, <3>9 DEF StopsAt
      <4> QED
        BY <4>1
    <3>10. CASE ~(sqrtPrices[u] <= sqrtPrices[x])
      <4>1. x <= u
        BY <1>1, <3>3, <3>10, PriceOrder
      <4>2. StopsAt(st, x, z)
        BY <2>1, <2>3, <3>1, <3>2 DEF StopsAt
      <4>3. Ahead(p, target, z)
        BY <2>3, <3>7, <3>8, <3>10 DEF Ahead
      <4>4. good(x)
        BY <2>3, <3>7, <3>10, <4>1, <4>2, <4>3
      <4> QED
        BY <3>3, <4>4
    <3> QED
      BY <3>9, <3>10
  <2> QED
    BY <2>2, <2>3
<1>9. CASE ~(cfg.controlFactor = 0 \/ st.liquidity = 0) /\ ~belowCore(st) /\ aboveCore(st)
  <2>1. skipsGroups(st)
    BY <1>9 DEF skipsGroups
  <2>2. CASE ~z
    <3>1. target = sqrtPrices[u]
      BY <1>9, <2>2 DEF boundedTarget, target
    <3>2. good(u)
      BY <1>1, <2>1, <3>1 DEF StopsAt
    <3> QED
      BY <3>2
  <2>3. CASE z
    <3>1. PICK i \in coreUpper(st.vars) : i < g
      <4>1. PICK i \in coreUpper(st.vars) : g > i
        BY <1>9 DEF aboveCore
      <4>2. i \in Int
        BY CoreFacts
      <4> QED
        BY <1>1, <4>1, <4>2
    <3>2. i \in Int /\ coreUpper(st.vars) = {i} /\ highOf(i) \in TickIndexes
      BY CoreFacts
    <3> DEFINE x == highOf(i)
    <3>3. x \in TickIndexes /\ x \in PricedTicks /\ sqrtPrices[x] \in Pos /\ x \in Int
          /\ x = (i + 1) * cfg.tickGroupSize
      BY <1>4, <3>2, GroupEdges
    <3>4. target = Max({sqrtPrices[u]} \cup {SqrtPriceFromTickIndex((j + 1) * cfg.tickGroupSize) : j \in {i}})
      BY <1>9, <2>3, <3>2 DEF boundedTarget, target
    <3>5. {SqrtPriceFromTickIndex((j + 1) * cfg.tickGroupSize) : j \in {i}} = {sqrtPrices[x]}
      BY <3>3 DEF SqrtPriceFromTickIndex
    <3>6. target = Max({sqrtPrices[u]} \cup {sqrtPrices[x]})
      BY <3>4, <3>5
    <3>7. target = IF sqrtPrices[x] <= sqrtPrices[u] THEN sqrtPrices[u] ELSE sqrtPrices[x]
      <4> HIDE DEF u, x
      <4>1. sqrtPrices[u] \in Int /\ sqrtPrices[x] \in Int
        BY <1>1, <3>3 DEF Pos
      <4> QED
        BY <3>6, <4>1, MinOfTwo
    <3>8. sqrtPrices[x] <= p
      <4>1. x <= lowOf(g)
        BY <1>1, <3>1, <3>2, GroupEdges
      <4>2. x <= low
        BY <1>6, <3>3, <4>1, ClampFacts
      <4> HIDE DEF low, x
      <4>3. sqrtPrices[x] <= sqrtPrices[low]
        BY <1>2, <3>3, <4>2, PriceOrder
      <4> QED
        BY <1>2, <1>3, <3>3, <4>3 DEF Pos
    <3>9. CASE sqrtPrices[x] <= sqrtPrices[u]
      <4>1. good(u)
        BY <1>1, <2>1, <3>7, <3>9 DEF StopsAt
      <4> QED
        BY <4>1
    <3>10. CASE ~(sqrtPrices[x] <= sqrtPrices[u])
      <4>1. u <= x
        BY <1>1, <3>3, <3>10, PriceOrder
      <4>2. StopsAt(st, x, z)
        BY <2>1, <2>3, <3>1, <3>2 DEF StopsAt
      <4>3. Ahead(p, target, z)
        BY <2>3, <3>7, <3>8, <3>10 DEF Ahead
      <4>4. good(x)
        BY <2>3, <3>7, <3>10, <4>1, <4>2, <4>3
      <4> QED
        BY <3>3, <4>4
    <3> QED
      BY <3>9, <3>10
  <2> QED
    BY <2>2, <2>3
<1>10. CASE ~(cfg.controlFactor = 0 \/ st.liquidity = 0) /\ ~belowCore(st) /\ ~aboveCore(st)
  <2>1. ~skipsGroups(st)
    BY <1>10 DEF skipsGroups
  <2>2. CASE z
    <3>1. target = bigMax(sqrtPrices[u], groupEdge(g, TRUE))
      BY <1>10, <2>2, Zenon DEF boundedTarget, target
    <3>2. target = bigMax(sqrtPrices[u], sqrtPrices[low])
      BY <1>2, <3>1, Zenon
    <3>3. u <= low
      BY <2>2 DEF EdgeAhead
    <3>4. target = sqrtPrices[low]
      <4> HIDE DEF low, u
      <4>1. sqrtPrices[u] <= sqrtPrices[low]
        BY <1>1, <1>2, <3>3, PriceOrder
      <4> QED
        BY <1>1, <1>2, <3>2, <4>1 DEF bigMax, Pos
    <3>5. StopsAt(st, low, z)
      BY <2>1, <2>2, <3>3 DEF StopsAt
    <3>6. Ahead(p, target, z)
      BY <1>3, <2>2, <3>4 DEF Ahead
    <3>7. good(low)
      BY <2>2, <3>3, <3>4, <3>5, <3>6
    <3> QED
      BY <1>2, <3>7
  <2>3. CASE ~z
    <3>1. target = bigMin(sqrtPrices[u], groupEdge(g, FALSE))
      BY <1>10, <2>3, Zenon DEF boundedTarget, target
    <3>2. target = bigMin(sqrtPrices[u], sqrtPrices[high])
      BY <1>2, <3>1, Zenon
    <3>3. CASE u < high
      <4>1. target = sqrtPrices[u]
        <5> HIDE DEF high, u
        <5>1. sqrtPrices[u] < sqrtPrices[high]
          BY <1>1, <1>2, <3>3, PriceOrder
        <5> QED
          BY <1>1, <1>2, <3>2, <5>1 DEF bigMin, Pos
      <4>2. StopsAt(st, u, z)
        BY <2>1, <2>3, <3>3 DEF StopsAt
      <4>3. good(u)
        BY <1>1, <2>3, <4>1, <4>2
      <4> QED
        BY <4>3
    <3>4. CASE ~(u < high)
      <4>1. high <= u
        BY <1>1, <1>4, <1>2, <3>4
      <4>2. target = sqrtPrices[high]
        <5> HIDE DEF high, u
        <5>1. sqrtPrices[high] <= sqrtPrices[u]
          BY <1>1, <1>2, <4>1, PriceOrder
        <5> QED
          BY <1>1, <1>2, <3>2, <5>1 DEF bigMin, Pos
      <4>3. StopsAt(st, high, z)
        BY <2>1, <2>3, <4>1 DEF StopsAt
      <4>4. Ahead(p, target, z)
        BY <1>3, <2>3, <4>2 DEF Ahead
      <4>5. good(high)
        BY <2>3, <4>1, <4>2, <4>3, <4>4
      <4> QED
        BY <1>2, <4>5
    <3> QED
      BY <3>3, <3>4
  <2> QED
    BY <2>2, <2>3
<1> QED
  BY <1>7, <1>8, <1>9, <1>10

-----------------------------------------------------------------------------
\* The group after a step

\* The last group a skip traversed, where it ends on an edge.
LEMMA LastTraversed ==
    ASSUME cfg \in Configs, NEW z \in BOOLEAN, NEW u \in TickIndexes, NEW x \in TickIndexes,
           NEW st, st.sqrtPrice = sqrtPrices[x]
    PROVE  \A k \in Int : x = lowOf(k) => lastTraversed(st, u, z) = IF z THEN k ELSE k - 1
<1> DEFINE sp == cfg.tickGroupSize
           onNext == st.sqrtPrice = SqrtPriceFromTickIndex(u)
           tick == IF onNext THEN u ELSE TickIndexFromSqrtPrice(st.sqrtPrice)
<1>1. /\ sp \in Pos /\ x \in Int /\ u \in Int
      /\ x \in PricedTicks /\ u \in PricedTicks /\ x + 1 \in PricedTicks
      /\ sqrtPrices[x] \in MinSqrtPrice .. MaxSqrtPrice
  <2>1. sp \in Pos
    BY ConfigFacts
  <2>2. x \in Int /\ u \in Int
    BY TicksAreInts
  <2> HIDE DEF sp
  <2> QED
    BY <2>1, <2>2, LimitPrices
<1>2. tick = x
  <2>1. CASE onNext
    <3>1. sqrtPrices[x] = sqrtPrices[u]
      BY <2>1 DEF SqrtPriceFromTickIndex
    <3> QED
      BY <1>1, <2>1, <3>1, PriceOrder
  <2>2. CASE ~onNext
    <3> DEFINE t == TickIndexFromSqrtPrice(sqrtPrices[x])
    <3>1. t \in TickIndexes /\ sqrtPrices[t] <= sqrtPrices[x] /\ sqrtPrices[x] < sqrtPrices[t + 1]
      BY <1>1, TickOfPrice
    <3>2. tick = t
      BY <2>2
    <3> HIDE DEF t, tick
    <3>3. t \in PricedTicks /\ t + 1 \in PricedTicks /\ t \in Int
      BY <3>1, LimitPrices, TicksAreInts
    <3>4. t <= x /\ x < t + 1
      BY <1>1, <3>1, <3>3, PriceOrder
    <3> QED
      BY <1>1, <3>2, <3>3, <3>4
  <2> QED
    BY <2>1, <2>2
<1> SUFFICES ASSUME NEW k \in Int, x = lowOf(k)
             PROVE  lastTraversed(st, u, z) = IF z THEN k ELSE k - 1
  OBVIOUS
<1>3. x = k * sp
  BY DEF lowOf
<1>4. goQuo(x, sp) = k /\ goRem(x, sp) = 0
  BY <1>1, <1>3, ExactQuotient
<1>5. floorDivision(x, sp) = k
  <2> DEFINE j == floorDivision(x, sp)
  <2>1. j \in Int /\ j * sp <= x /\ x < j * sp + sp
    BY <1>1, GroupOfTick
  <2>2. k * sp <= x /\ x < k * sp + sp
    BY <1>1, <1>3 DEF Pos
  <2> HIDE DEF j, sp
  <2>3. j = k
    BY <1>1, <2>1, <2>2, GroupIsUnique
  <2> QED
    BY <2>3 DEF j
<1>6. SqrtPriceFromTickIndex(tick) = st.sqrtPrice
  BY <1>2 DEF SqrtPriceFromTickIndex
<1>7. lastTraversed(st, u, z) =
          IF (goRem(tick, sp) = 0 /\ (onNext \/ st.sqrtPrice = SqrtPriceFromTickIndex(tick))) /\ ~z
          THEN goQuo(tick, sp) - 1 ELSE floorDivision(tick, sp)
  BY DEF lastTraversed
<1> HIDE DEF tick, sp, onNext
<1> QED
  BY <1>2, <1>4, <1>5, <1>6, <1>7

\* After a step that ends on x, away from the limit, the group is the one ahead of x: no
\* other group is between, whichever way the step was bounded.
LEMMA GroupFollows ==
    ASSUME cfg \in Configs, cfg.adaptive, NEW z \in BOOLEAN, z = q.aToB,
           NEW u \in TickIndexes, u = b.tickIndex,
           \/ u % TickSpacing = 0
           \/ u = IF z THEN MinTickIndex ELSE MaxTickIndex
           \/ ~z /\ u = lastEdge,
           NEW st, st.group \in Int, EdgeAhead(st.group, b.tickIndex),
           NEW x \in TickIndexes, StopsAt(st, x, z), x # IF z THEN MinTickIndex ELSE MaxTickIndex,
           NEW moved, moved \in States, moved.sqrtPrice = sqrtPrices[x], moved.group = st.group,
           NEW after,
           after = IF skipsGroups(st) THEN advanceTickGroupAfterSkip(moved, u, z)
                                      ELSE advanceTickGroup(moved, z)
    PROVE  IF z THEN highOf(after.group) = x
                ELSE lowOf(after.group) = x \/ (x = u /\ x = lastEdge)
<1> DEFINE g == st.group
           sp == cfg.tickGroupSize
           last == lastTraversed(moved, u, z)
           low == lowOf(g)
           high == highOf(g)
<1>1. /\ sp \in Pos /\ x \in Int /\ u \in Int /\ g \in Int /\ Multiple(TickSpacing, sp)
      /\ MinTickIndex \in Int /\ MaxTickIndex \in Int /\ TickIndexes = MinTickIndex .. MaxTickIndex
  BY ConfigFacts, TicksAreInts
<1>2. low \in Int /\ high \in Int /\ low < high /\ highOf(g - 1) = low /\ lowOf(g + 1) = high
  BY GroupEdges
<1>3. \A i \in Int : /\ lowOf(i) \in Int /\ highOf(i) \in Int /\ lowOf(i) < highOf(i)
                     /\ highOf(i - 1) = lowOf(i) /\ highOf(i) = lowOf(i + 1)
                     /\ (g < i => high <= lowOf(i)) /\ (i < g => highOf(i) <= low)
                     /\ (i <= g => lowOf(i) <= low) /\ (g <= i => low <= lowOf(i))
  BY GroupEdges
<1>4. \A k \in Int : x = lowOf(k) => last = IF z THEN k ELSE k - 1
  BY LastTraversed
<1>5. ~skipsGroups(st) => after.group = IF z THEN g - 1 ELSE g + 1
  BY DEF advanceTickGroup, States
<1>6. skipsGroups(st) => after.group =
          IF z THEN (IF last < g THEN last - 1 ELSE g - 1)
               ELSE IF last > g THEN last + 1 ELSE g + 1
  <2> SUFFICES ASSUME skipsGroups(st)
               PROVE  after.group = IF z THEN (IF last < g THEN last - 1 ELSE g - 1)
                                         ELSE IF last > g THEN last + 1 ELSE g + 1
    OBVIOUS
  <2> DEFINE onLast == [moved EXCEPT !.group = last]
  <2> HIDE DEF last
  <2>1. advanceTickGroup(moved, z).group = IF z THEN g - 1 ELSE g + 1
    BY DEF advanceTickGroup, States
  <2>2. advanceTickGroup(updateVolatilityAccumulator(onLast), z).group = IF z THEN last - 1 ELSE last + 1
    BY DEF advanceTickGroup, updateVolatilityAccumulator, States
  <2>3. after = IF IF z THEN last < g ELSE last > g
                THEN advanceTickGroup(updateVolatilityAccumulator(onLast), z)
                ELSE advanceTickGroup(moved, z)
    BY DEF advanceTickGroupAfterSkip, last
  <2> HIDE DEF onLast
  <2> QED
    BY <2>1, <2>2, <2>3
<1> HIDE DEF last, g, low, high
<1> SUFFICES ASSUME ~(~z /\ x = u /\ x = lastEdge)
             PROVE  IF z THEN highOf(after.group) = x ELSE lowOf(after.group) = x
  OBVIOUS
<1>7. /\ z => low <= MaxTickIndex /\ u <= clampTick(low)
      /\ ~z => MinTickIndex <= high /\ (clampTick(high) <= u \/ u = lastEdge)
  BY DEF EdgeAhead, low, high, g
<1>8. CASE skipsGroups(st) /\ x = u
  <2>1. u % TickSpacing = 0
    BY <1>8
  <2>2. Multiple(u, TickSpacing)
    BY <1>1, <2>1, SpanFacts, RemainderOfMultiple
  <2>3. Multiple(u, sp)
    BY <1>1, <2>2, SpanFacts, MultipleOfMultiple
  <2>4. PICK k \in Int : u = k * sp
    BY <2>3 DEF Multiple
  <2>5. x = lowOf(k) /\ u = lowOf(k)
    BY <1>8, <2>4 DEF lowOf
  <2>6. last = IF z THEN k ELSE k - 1
    BY <1>4, <2>5
  <2>7. CASE z
    <3>1. u <= low
      <4>1. u <= low \/ u = MinTickIndex
        <5>1. u \in TickIndexes /\ low \in Int /\ u <= clampTick(low)
          BY <1>1, <1>2, <1>7, <2>7
        <5>2. u <= clampTick(low) <=> u <= low \/ u = MinTickIndex
          BY <5>1, ClampFacts
        <5> QED
          BY <5>1, <5>2
      <4> QED
        BY <1>8, <2>7, <4>1
    <3>2. k <= g
      <4>1. g < k => high <= lowOf(k)
        BY <1>3
      <4> QED
        BY <1>1, <1>2, <2>5, <3>1, <4>1
    <3>3. after.group = k - 1
      <4>1. after.group = IF last < g THEN last - 1 ELSE g - 1
        BY <1>6, <1>8, <2>7
      <4>2. last = k
        BY <2>6, <2>7
      <4> QED
        BY <1>1, <3>2, <4>1, <4>2
    <3>4. highOf(k - 1) = lowOf(k)
      BY <1>3
    <3> QED
      BY <2>5, <2>7, <3>3, <3>4
  <2>8. CASE ~z
    <3>1. high <= u
      <4>1. high <= u \/ u = MaxTickIndex
        BY <1>1, <1>2, <1>7, <1>8, <2>8, ClampFacts
      <4> QED
        BY <1>8, <2>8, <4>1
    <3>2. g < k
      <4>1. k <= g => lowOf(k) <= low
        BY <1>3
      <4> QED
        BY <1>1, <1>2, <2>5, <3>1, <4>1
    <3>3. after.group = k
      <4>1. after.group = IF last > g THEN last + 1 ELSE g + 1
        BY <1>6, <1>8, <2>8
      <4>2. last = k - 1
        BY <2>6, <2>8
      <4> QED
        BY <1>1, <3>2, <4>1, <4>2
    <3> QED
      BY <2>5, <2>8, <3>3
  <2> QED
    BY <2>7, <2>8
<1>9. CASE skipsGroups(st) /\ x # u
  <2>1. PICK i \in Int : IF z THEN i < g /\ x = highOf(i) ELSE g < i /\ x = lowOf(i)
    BY <1>9 DEF StopsAt, g
  <2>2. CASE z
    <3>1. x = lowOf(i + 1) /\ i + 1 \in Int
      BY <1>3, <2>1, <2>2
    <3>2. last = i + 1
      BY <1>4, <2>2, <3>1
    <3>3. after.group = i
      <4>1. after.group = IF last < g THEN last - 1 ELSE g - 1
        BY <1>6, <1>9, <2>2
      <4>2. i < g
        BY <2>1, <2>2
      <4> QED
        BY <1>1, <3>2, <4>1, <4>2
    <3> QED
      BY <2>1, <2>2, <3>3
  <2>3. CASE ~z
    <3>1. last = i - 1
      BY <1>4, <2>1, <2>3
    <3>2. after.group = i
      <4>1. after.group = IF last > g THEN last + 1 ELSE g + 1
        BY <1>6, <1>9, <2>3
      <4>2. g < i
        BY <2>1, <2>3
      <4> QED
        BY <1>1, <3>1, <4>1, <4>2
    <3> QED
      BY <2>1, <2>3, <3>2
  <2> QED
    BY <2>2, <2>3
<1>10. CASE ~skipsGroups(st)
  <2>1. CASE z
    <3>1. x = clampTick(low)
      BY <1>10, <2>1 DEF StopsAt, low, g
    <3>2. x = low
      BY <1>1, <1>2, <1>7, <2>1, <3>1, TicksAreInts DEF clampTick, bigMin, bigMax
    <3> QED
      BY <1>2, <1>5, <1>10, <2>1, <3>2
  <2>2. CASE ~z
    <3>1. x = clampTick(high) \/ (x = u /\ x < clampTick(high))
      BY <1>10, <2>2 DEF StopsAt, high, g
    <3>2. x = clampTick(high)
      <4>1. clampTick(high) \in Int
        BY <1>1, <1>2, ClampFacts
      <4> QED
        BY <1>1, <1>7, <2>2, <3>1, <4>1
    <3>3. x = high
      BY <1>1, <1>2, <1>7, <2>2, <3>2, TicksAreInts DEF clampTick, bigMin, bigMax
    <3> QED
      BY <1>2, <1>5, <1>10, <2>2, <3>3
  <2> QED
    BY <2>1, <2>2
<1> QED
  BY <1>8, <1>9, <1>10

\* Advancing the group changes the group and brings the accumulator up to date with it.
LEMMA AdvanceKeeps ==
    ASSUME cfg \in Configs, NEW z \in BOOLEAN, NEW u \in TickIndexes, NEW st \in States,
           OracleInv(st.vars), st.sqrtPrice \in MinSqrtPrice .. MaxSqrtPrice,
           NEW after \in {advanceTickGroup(st, z), advanceTickGroupAfterSkip(st, u, z)}
    PROVE  /\ after \in States /\ OracleInv(after.vars)
           /\ after.amountRemaining = st.amountRemaining /\ after.amountOut = st.amountOut
           /\ after.sqrtPrice = st.sqrtPrice /\ after.liquidity = st.liquidity
           /\ after.tick = st.tick /\ after.err = st.err
<1> DEFINE same(m, k) == /\ k \in States /\ OracleInv(k.vars)
                         /\ k.amountRemaining = m.amountRemaining /\ k.amountOut = m.amountOut
                         /\ k.sqrtPrice = m.sqrtPrice /\ k.liquidity = m.liquidity
                         /\ k.tick = m.tick /\ k.err = m.err
           last == lastTraversed(st, u, z)
           onLast == [st EXCEPT !.group = last]
<1>1. ASSUME NEW m \in States, OracleInv(m.vars)
      PROVE  same(m, advanceTickGroup(m, z))
  <2>1. m.group - 1 \in Int /\ m.group + 1 \in Int
    BY DEF States
  <2> QED
    BY <1>1, <2>1 DEF advanceTickGroup, States
<1>2. last \in Int
  <2>1. TickIndexFromSqrtPrice(st.sqrtPrice) \in Int /\ u \in Int
    BY TickOfPrice, TicksAreInts
  <2> DEFINE t == IF st.sqrtPrice = SqrtPriceFromTickIndex(u) THEN u ELSE TickIndexFromSqrtPrice(st.sqrtPrice)
  <2>2. t \in Int /\ cfg.tickGroupSize \in Pos
    BY <2>1, ConfigFacts
  <2>3. last \in {goQuo(t, cfg.tickGroupSize) - 1, floorDivision(t, cfg.tickGroupSize)}
    BY DEF lastTraversed
  <2> HIDE DEF last, t
  <2>4. goQuo(t, cfg.tickGroupSize) \in Int
    <3>1. t >= 0 => t \div cfg.tickGroupSize \in Int
      BY <2>2 DEF Pos
    <3>2. ~(t >= 0) => (-t) \div cfg.tickGroupSize \in Int
      BY <2>2 DEF Pos
    <3> QED
      BY <3>1, <3>2 DEF goQuo
  <2>5. floorDivision(t, cfg.tickGroupSize) \in Int
    BY <2>2, GroupOfTick
  <2> QED
    BY <2>3, <2>4, <2>5
<1> HIDE DEF last
<1>3. onLast \in States /\ same(st, onLast)
  BY <1>2 DEF States
<1>4. same(onLast, updateVolatilityAccumulator(onLast))
  <2> HIDE DEF onLast
  <2> QED
    BY <1>3, UpdatedState
<1>5. same(updateVolatilityAccumulator(onLast), advanceTickGroup(updateVolatilityAccumulator(onLast), z))
  <2> DEFINE m == updateVolatilityAccumulator(onLast)
  <2>1. m \in States /\ OracleInv(m.vars)
    BY <1>4
  <2> HIDE DEF m
  <2> QED
    BY <1>1, <2>1 DEF m
<1>6. same(st, advanceTickGroup(updateVolatilityAccumulator(onLast), z))
  <2> HIDE DEF onLast
  <2> QED
    BY <1>3, <1>4, <1>5
<1>7. same(st, advanceTickGroup(st, z))
  BY <1>1
<1>8. after \in {advanceTickGroup(st, z), advanceTickGroup(updateVolatilityAccumulator(onLast), z)}
  BY DEF advanceTickGroupAfterSkip, last
<1>9. same(st, after)
  <2> HIDE DEF same, onLast
  <2> QED
    BY <1>6, <1>7, <1>8
<1> QED
  BY <1>9

\* A group that begins where a step stopped short of the boundary holds the price, and its
\* far edge is at or before the boundary.
LEMMA AlignedAhead ==
    ASSUME cfg \in Configs, NEW z \in BOOLEAN, z = q.aToB,
           NEW u \in TickIndexes,
           \/ u % TickSpacing = 0
           \/ u = IF z THEN MinTickIndex ELSE MaxTickIndex
           \/ ~z /\ u = lastEdge,
           NEW i \in Int, NEW x \in TickIndexes,
           IF z THEN u < x /\ highOf(i) = x ELSE x < u /\ lowOf(i) = x
    PROVE  EdgeAhead(i, u) /\ GroupSpans(i, sqrtPrices[x])
<1> DEFINE sp == cfg.tickGroupSize
           low == lowOf(i)
           high == highOf(i)
<1>1. /\ sp \in Pos /\ x \in Int /\ u \in Int /\ Multiple(TickSpacing, sp)
      /\ MinTickIndex \in Int /\ MaxTickIndex \in Int /\ MinTickIndex <= u /\ u <= MaxTickIndex
      /\ MinTickIndex <= x /\ x <= MaxTickIndex
  BY ConfigFacts, TicksAreInts
<1>2. low \in Int /\ high \in Int /\ low < high /\ high = low + sp /\ Multiple(low, sp) /\ Multiple(high, sp)
  BY GroupEdges
<1>3. u % TickSpacing = 0 => Multiple(u, sp)
  BY <1>1, SpanFacts, RemainderOfMultiple, MultipleOfMultiple
<1>4. EdgeAhead(i, u)
  <2>1. CASE z
    <3>1. Multiple(u, sp) => u <= low
      <4> HIDE DEF low, high, sp
      <4>1. Multiple(u, sp) => u + sp <= high
        BY <1>1, <1>2, <2>1, MultiplesApart DEF high
      <4> QED
        BY <1>1, <1>2, <4>1 DEF Pos
    <3>2. u <= low \/ u = MinTickIndex
      BY <1>3, <2>1, <3>1
    <3>3. u <= clampTick(low) /\ low <= MaxTickIndex
      BY <1>1, <1>2, <2>1, <3>2, ClampFacts
    <3> QED
      BY <2>1, <3>3 DEF EdgeAhead
  <2>2. CASE ~z
    <3>1. Multiple(u, sp) => high <= u
      <4> HIDE DEF low, high, sp
      <4>1. Multiple(u, sp) => low + sp <= u
        BY <1>1, <1>2, <2>2, MultiplesApart DEF low
      <4> QED
        BY <1>2, <4>1
    <3>2. high <= u \/ u = MaxTickIndex \/ u = lastEdge
      BY <1>3, <2>2, <3>1
    <3>3. MinTickIndex <= high /\ low <= u
      BY <1>1, <1>2, <2>2
    <3>4. (high <= u \/ u = MaxTickIndex) => clampTick(high) <= u
      BY <1>2, ClampFacts
    <3> QED
      BY <1>1, <1>2, <2>2, <3>2, <3>3, <3>4 DEF EdgeAhead
  <2> QED
    BY <2>1, <2>2
<1>5. GroupSpans(i, sqrtPrices[x])
  <2>1. /\ clampTick(low) \in PricedTicks /\ clampTick(high) \in PricedTicks /\ clampTick(low) <= clampTick(high)
        /\ groupEdge(i, TRUE) = sqrtPrices[clampTick(low)] /\ groupEdge(i, FALSE) = sqrtPrices[clampTick(high)]
    BY EdgePrices
  <2>2. x = clampTick(low) \/ x = clampTick(high)
    BY <1>2, ClampFacts
  <2>3. sqrtPrices[clampTick(low)] \in Pos /\ sqrtPrices[clampTick(high)] \in Pos
        /\ sqrtPrices[clampTick(low)] <= sqrtPrices[clampTick(high)]
    BY <2>1, PriceOrder
  <2> HIDE DEF low, high
  <2>4. sqrtPrices[clampTick(low)] <= sqrtPrices[x] /\ sqrtPrices[x] <= sqrtPrices[clampTick(high)]
    BY <2>2, <2>3 DEF Pos
  <2> QED
    BY <2>1, <2>4, Zenon DEF GroupSpans
<1> QED
  BY <1>4, <1>5

\* The group of the tick a walk is on holds its price, and its far edge is at or before
\* the next boundary.
LEMMA EdgeFromTick ==
    ASSUME cfg \in Configs, NEW z \in BOOLEAN, z = q.aToB,
           NEW u \in TickIndexes,
           \/ u % TickSpacing = 0
           \/ u = IF z THEN MinTickIndex ELSE MaxTickIndex
           \/ ~z /\ u = lastEdge,
           NEW i \in Int, NEW t \in MinTickIndex - 1 .. MaxTickIndex,
           lowOf(i) <= t, t < highOf(i),
           IF z THEN u <= t ELSE t < u
    PROVE  EdgeAhead(i, u)
<1> DEFINE sp == cfg.tickGroupSize
           low == lowOf(i)
           high == highOf(i)
<1>1. /\ sp \in Pos /\ t \in Int /\ u \in Int /\ Multiple(TickSpacing, sp)
      /\ MinTickIndex \in Int /\ MaxTickIndex \in Int /\ MinTickIndex <= u /\ u <= MaxTickIndex
      /\ MinTickIndex - 1 <= t /\ t <= MaxTickIndex
  BY ConfigFacts, TicksAreInts
<1>2. low \in Int /\ high \in Int /\ low < high /\ high = low + sp /\ Multiple(low, sp) /\ Multiple(high, sp)
  BY GroupEdges
<1>3. u % TickSpacing = 0 => Multiple(u, sp)
  BY <1>1, SpanFacts, RemainderOfMultiple, MultipleOfMultiple
<1>4. CASE z
  <2>1. Multiple(u, sp) => u <= low
    <3>1. u < high
      BY <1>1, <1>2, <1>4
    <3> HIDE DEF low, high, sp
    <3>2. Multiple(u, sp) => u + sp <= high
      BY <1>1, <1>2, <3>1, MultiplesApart
    <3> QED
      BY <1>1, <1>2, <3>2 DEF Pos
  <2>2. u <= low \/ u = MinTickIndex
    BY <1>3, <1>4, <2>1
  <2>3. u <= clampTick(low) /\ low <= MaxTickIndex
    BY <1>1, <1>2, <2>2, ClampFacts
  <2> QED
    BY <1>4, <2>3 DEF EdgeAhead
<1>5. CASE ~z
  <2>1. low < u
    BY <1>1, <1>2, <1>5
  <2>2. Multiple(u, sp) => high <= u
    <3> HIDE DEF low, high, sp
    <3>1. Multiple(u, sp) => low + sp <= u
      BY <1>1, <1>2, <2>1, MultiplesApart
    <3> QED
      BY <1>2, <3>1
  <2>3. high <= u \/ u = MaxTickIndex \/ u = lastEdge
    BY <1>3, <1>5, <2>2
  <2>4. MinTickIndex <= high
    BY <1>1, <1>2
  <2>5. (high <= u \/ u = MaxTickIndex) => clampTick(high) <= u
    BY <1>2, ClampFacts
  <2> QED
    BY <1>1, <1>2, <1>5, <2>1, <2>3, <2>4, <2>5 DEF EdgeAhead
<1> QED
  BY <1>4, <1>5

-----------------------------------------------------------------------------
\* One step of the walk

\* What a step makes of the state the walk is in: stepped, of the state brought up to
\* date and the step to the bounded target.
StepResult ==
    LET target == clampTarget(SqrtPriceFromTickIndex(b.tickIndex), q.aToB)
        st     == updateVolatilityAccumulator(s)
    IN  stepped(st, computeSwapStep(st.amountRemaining, totalFeeRateAt(st.vars.accumulator),
                                    st.liquidity, st.sqrtPrice,
                                    boundedTarget(st, target, q.aToB), q.aToB))

\* What the step k trades: what it takes and gives is on the curve's side, and the walk takes
\* at least that off its input and adds it to its output.
TradedBy(k) ==
    /\ Ahead(s.sqrtPrice, k.sqrtPrice, q.aToB) /\ Ahead(k.sqrtPrice, sqrtPrices[b.tickIndex], q.aToB)
    /\ \E in \in Nat, out \in Nat :
           /\ Traded(s.liquidity, Q64, s.sqrtPrice, k.sqrtPrice, in, out, q.aToB)
           /\ k.amountRemaining <= s.amountRemaining - in
           /\ k.amountOut = s.amountOut + out

LEMMA BoundaryIsTarget ==
    ASSUME NEW u \in TickIndexes, NEW z \in BOOLEAN
    PROVE  clampTarget(SqrtPriceFromTickIndex(u), z) = sqrtPrices[u]
<1>1. sqrtPrices[u] \in MinSqrtPrice .. MaxSqrtPrice /\ MinSqrtPrice \in Pos /\ MaxSqrtPrice \in Pos
  BY LimitPrices
<1> QED
  BY <1>1 DEF clampTarget, limit, bigMax, bigMin, SqrtPriceFromTickIndex, Pos

\* The facts of a walk within a step.
LEMMA StepFacts ==
    ASSUME SwapInv, pc = "step"
    PROVE  /\ cfg \in Configs /\ q.aToB \in BOOLEAN /\ s \in States /\ OracleInv(s.vars)
           /\ b.tickIndex \in TickIndexes /\ b.tickIndex \in PricedTicks
           /\ sqrtPrices[b.tickIndex] \in Pos
           /\ b.initialized <=> b.tickIndex \in Initialized
           /\ s.err = "none" /\ s.amountRemaining > 0
           /\ s.sqrtPrice \in MinSqrtPrice .. MaxSqrtPrice /\ s.sqrtPrice \in Pos
           /\ s.tick \in MinTickIndex - 1 .. MaxTickIndex
           /\ Holds(s.tick, s.sqrtPrice) /\ s.liquidity = LiquidityAt(s.tick) /\ s.liquidity \in Nat
           /\ IF q.aToB THEN b.tickIndex <= s.tick ELSE s.tick < b.tickIndex
           /\ \A v \in Initialized : ~(IF q.aToB THEN b.tickIndex < v /\ v <= s.tick
                                                 ELSE s.tick < v /\ v < b.tickIndex)
           /\ \/ b.tickIndex % TickSpacing = 0
              \/ b.tickIndex = IF q.aToB THEN MinTickIndex ELSE MaxTickIndex
              \/ ~q.aToB /\ b.tickIndex = lastEdge
           /\ cfg.adaptive => EdgeAhead(s.group, b.tickIndex) /\ GroupSpans(s.group, s.sqrtPrice)
           /\ Ahead(s.sqrtPrice, sqrtPrices[b.tickIndex], q.aToB)
<1> DEFINE u == b.tickIndex
           z == q.aToB
           t == s.tick
           p == s.sqrtPrice
<1>1. Types /\ OracleInv(s.vars) /\ WalkInv /\ BoundaryInv /\ s.amountRemaining > 0
      /\ (cfg.adaptive => GroupInv)
  BY DEF SwapInv, Quoting
<1>2. cfg \in Configs /\ z \in BOOLEAN /\ s \in States
  BY <1>1 DEF Types
<1>3. /\ u \in TickIndexes /\ (b.initialized <=> u \in Initialized)
      /\ IF z THEN u <= t ELSE t < u
      /\ \A v \in Initialized : ~(IF z THEN u < v /\ v <= t ELSE t < v /\ v < u)
      /\ \/ u % TickSpacing = 0
         \/ u = IF z THEN MinTickIndex ELSE MaxTickIndex
         \/ ~z /\ u = lastEdge
  BY <1>1 DEF BoundaryInv, OnTheWay
<1>4. /\ s.err = "none" /\ p \in MinSqrtPrice .. MaxSqrtPrice /\ t \in MinTickIndex - 1 .. MaxTickIndex
      /\ Holds(t, p) /\ s.liquidity = LiquidityAt(t)
  BY <1>1 DEF WalkInv
<1>5. u \in PricedTicks /\ sqrtPrices[u] \in Pos /\ MinSqrtPrice \in Pos /\ u \in Int
  <2>1. u \in PricedTicks /\ sqrtPrices[u] \in Pos /\ u \in Int
    BY <1>3, TickPrices
  <2>2. MinSqrtPrice \in Pos
    BY LimitPrices
  <2> QED
    BY <2>1, <2>2
<1>6. p \in Pos /\ s.liquidity \in Nat
  BY <1>2, <1>4, <1>5, LiquidityIsNat DEF Pos
<1>7. cfg.adaptive => EdgeAhead(s.group, b.tickIndex) /\ GroupSpans(s.group, s.sqrtPrice)
  BY <1>1 DEF GroupInv, GroupHoldsPrice, GroupSpans
<1>8. Ahead(p, sqrtPrices[u], z)
  <2>1. t \in Int /\ t \in PricedTicks /\ t + 1 \in PricedTicks
    BY <1>4, TicksAreInts DEF PricedTicks
  <2>2. sqrtPrices[t] \in Pos /\ sqrtPrices[t + 1] \in Pos /\ sqrtPrices[t] <= p /\ p <= sqrtPrices[t + 1]
    BY <1>4, <2>1, PriceIsPositive DEF Holds
  <2> HIDE DEF t, u, p
  <2>3. CASE z
    <3>1. sqrtPrices[u] <= sqrtPrices[t]
      BY <1>3, <1>5, <2>1, <2>3, PriceOrder
    <3> QED
      BY <1>5, <1>6, <2>2, <2>3, <3>1 DEF Ahead, Pos
  <2>4. CASE ~z
    <3>1. t + 1 <= u
      BY <1>3, <1>5, <2>1, <2>4
    <3>2. sqrtPrices[t + 1] <= sqrtPrices[u]
      BY <1>5, <2>1, <3>1, PriceOrder
    <3> QED
      BY <1>5, <1>6, <2>2, <2>4, <3>2 DEF Ahead, Pos
  <2> QED
    BY <2>3, <2>4
<1> QED
  BY <1>1, <1>2, <1>3, <1>4, <1>5, <1>6, <1>7, <1>8

\* A step without an error leaves the walk at the tick of its price, with that tick's
\* liquidity, at most at the boundary; one that leaves input is on a tick, with the group
\* ahead of it.  It never asks for more than the input that is left, and trades no better
\* than the curve.
LEMMA StepLands ==
    ASSUME SwapInv, pc = "step"
    PROVE  LET u == b.tickIndex
               z == q.aToB
               k == StepResult
           IN  /\ k \in States /\ OracleInv(k.vars) /\ k.err # "ErrOverdrawn"
               /\ k.err = "none" =>
                      /\ TradedBy(k)
                      /\ k.sqrtPrice \in MinSqrtPrice .. MaxSqrtPrice
                      /\ k.tick \in MinTickIndex - 1 .. MaxTickIndex /\ Holds(k.tick, k.sqrtPrice)
                      /\ k.liquidity = LiquidityAt(k.tick)
                      /\ IF z THEN u - 1 <= k.tick /\ k.tick <= s.tick ELSE s.tick <= k.tick /\ k.tick <= u
                      /\ k.sqrtPrice # sqrtPrices[u] => IF z THEN u <= k.tick ELSE k.tick < u
                      /\ k.sqrtPrice = sqrtPrices[u] => k.tick = IF z THEN u - 1 ELSE u
                      /\ cfg.adaptive /\ k.amountRemaining # 0 /\ k.sqrtPrice # limit(z) =>
                             \E x \in TickIndexes :
                                 /\ k.sqrtPrice = sqrtPrices[x]
                                 /\ IF z THEN u <= x ELSE x <= u
                                 /\ IF z THEN highOf(k.group) = x
                                         ELSE lowOf(k.group) = x \/ (x = u /\ x = lastEdge)
<1> DEFINE u == b.tickIndex
           z == q.aToB
           t == s.tick
           p == s.sqrtPrice
           k == StepResult
           target == sqrtPrices[u]
           st == updateVolatilityAccumulator(s)
           f == totalFeeRateAt(st.vars.accumulator)
           bt == boundedTarget(st, target, z)
           L == st.liquidity
           r == computeSwapStep(st.amountRemaining, f, L, p, bt, z)
           n == r.nextPrice
           out == r.amountOut
           cost == r.amountIn + r.feeAmount
           landed == landedTick(st, n)
           liquidity == IF n = SqrtPriceFromTickIndex(u) /\ b.initialized
                        THEN crossLiquidity(st.liquidity, Net[u], q.aToB) ELSE st.liquidity
           moved == [st EXCEPT !.amountRemaining = @ - cost, !.amountOut = @ + out,
                               !.liquidity = liquidity, !.tick = landed, !.sqrtPrice = n]
           after == IF skipsGroups(st) THEN advanceTickGroupAfterSkip(moved, u, z)
                                       ELSE advanceTickGroup(moved, z)
<1>1. /\ cfg \in Configs /\ z \in BOOLEAN /\ s \in States /\ OracleInv(s.vars)
      /\ u \in TickIndexes /\ u \in PricedTicks /\ target \in Pos
      /\ (b.initialized <=> u \in Initialized)
      /\ s.err = "none" /\ s.amountRemaining > 0
      /\ p \in MinSqrtPrice .. MaxSqrtPrice /\ p \in Pos
      /\ t \in MinTickIndex - 1 .. MaxTickIndex
      /\ Holds(t, p) /\ s.liquidity = LiquidityAt(t) /\ s.liquidity \in Nat
      /\ IF z THEN u <= t ELSE t < u
      /\ \A v \in Initialized : ~(IF z THEN u < v /\ v <= t ELSE t < v /\ v < u)
      /\ \/ u % TickSpacing = 0
         \/ u = IF z THEN MinTickIndex ELSE MaxTickIndex
         \/ ~z /\ u = lastEdge
      /\ (cfg.adaptive => EdgeAhead(s.group, b.tickIndex) /\ GroupSpans(s.group, p))
      /\ Ahead(p, target, z)
  BY StepFacts
<1>2. /\ st \in States /\ OracleInv(st.vars) /\ st.vars \in Vars /\ st.group \in Int
      /\ st.amountRemaining = s.amountRemaining /\ st.amountOut = s.amountOut
      /\ st.sqrtPrice = p /\ st.liquidity = s.liquidity /\ st.tick = t /\ st.group = s.group
      /\ st.err = "none"
  <2>1. st \in States
    BY <1>1, UpdatedState
  <2> HIDE DEF st
  <2>2. st.vars \in Vars /\ st.group \in Int
    BY <2>1 DEF States
  <2> QED
    BY <1>1, <2>1, <2>2, UpdatedState DEF st
<1>3. k = IF stepError(st, r) # "none" THEN [st EXCEPT !.err = stepError(st, r)]
          ELSE IF liquidity < 0 THEN [st EXCEPT !.err = "ErrNegativeLiquidity"]
          ELSE after
  <2>1. clampTarget(SqrtPriceFromTickIndex(u), z) = target
    BY <1>1, BoundaryIsTarget
  <2>2. k = stepped(st, r)
    BY <1>2, <2>1, Zenon DEF StepResult
  <2> QED
    BY <2>2 DEF stepped, Net
<1> HIDE DEF st, f
<1>4. bt \in Pos /\ Ahead(p, bt, z) /\ Ahead(bt, target, z)
      /\ (cfg.adaptive => \E x \in TickIndexes : /\ bt = sqrtPrices[x]
                                                 /\ IF z THEN u <= x ELSE x <= u
                                                 /\ StopsAt(st, x, z))
  <2>1. CASE cfg.adaptive
    <3>1. EdgeAhead(st.group, b.tickIndex) /\ GroupSpans(st.group, st.sqrtPrice) /\ Ahead(st.sqrtPrice, target, z)
      BY <1>1, <1>2, <2>1
    <3>2. \E x \in TickIndexes : /\ bt = sqrtPrices[x] /\ Ahead(st.sqrtPrice, bt, z)
                                 /\ IF z THEN u <= x ELSE x <= u
                                 /\ StopsAt(st, x, z)
      BY <1>1, <1>2, <2>1, <3>1, TargetIsTick
    <3> HIDE DEF bt
    <3>3. PICK x \in TickIndexes : /\ bt = sqrtPrices[x] /\ Ahead(st.sqrtPrice, bt, z)
                                   /\ IF z THEN u <= x ELSE x <= u
                                   /\ StopsAt(st, x, z)
      BY <3>2
    <3>4. x \in PricedTicks /\ sqrtPrices[x] \in Pos
      BY LimitPrices, PriceIsPositive
    <3>5. IF z THEN sqrtPrices[u] <= sqrtPrices[x] ELSE sqrtPrices[x] <= sqrtPrices[u]
      BY <1>1, <3>3, <3>4, PriceOrder
    <3>6. Ahead(bt, target, z)
      BY <3>3, <3>5 DEF Ahead
    <3> QED
      BY <1>2, <3>3, <3>4, <3>6
  <2>2. CASE ~cfg.adaptive
    <3>1. bt = target
      BY <2>2 DEF boundedTarget
    <3> HIDE DEF bt
    <3>2. Ahead(target, target, z)
      BY <1>1 DEF Ahead, Pos
    <3> QED
      BY <1>1, <2>2, <3>1, <3>2
  <2> QED
    BY <2>1, <2>2
<1> HIDE DEF bt
<1>5. /\ n \in Pos /\ Ahead(p, n, z) /\ Ahead(n, bt, z)
      /\ r.amountIn \in Nat /\ out \in Nat /\ r.feeAmount \in Nat
      /\ r.amountIn = fixedDelta(p, n, L, z) /\ out = unfixedDelta(p, n, L, z)
      /\ (r.ok <=> r.amountIn <= MaxU64 /\ out <= MaxU64 /\ r.feeAmount <= MaxU64)
      /\ cost <= st.amountRemaining
      /\ (n # bt => cost = st.amountRemaining)
  <2>1. st.amountRemaining \in 0 .. MaxU64 /\ L \in Nat
    BY <1>1, <1>2 DEF States
  <2>2. f \in 0 .. feeRateMulValue - 1
    <3>1. st.vars.accumulator \in Nat
      BY <1>2 DEF Vars
    <3> QED
      BY <1>1, <3>1, RateInRange DEF f
  <2> DEFINE a == st.amountRemaining
  <2> HIDE DEF L, p, z, target, t, u, a, k, after, moved, liquidity, landed
  <2>3. a \in 0 .. MaxU64 /\ r = computeSwapStep(a, f, L, p, bt, z)
    BY <2>1 DEF a
  <2>4. /\ n \in Pos /\ Ahead(p, n, z) /\ Ahead(n, bt, z)
        /\ r.amountIn \in Nat /\ r.amountOut \in Nat /\ r.feeAmount \in Nat
        /\ r.amountIn = fixedDelta(p, n, L, z) /\ r.amountOut = unfixedDelta(p, n, L, z)
        /\ (r.ok <=> r.amountIn <= MaxU64 /\ r.amountOut <= MaxU64 /\ r.feeAmount <= MaxU64)
        /\ r.amountIn + r.feeAmount <= a
        /\ (n # bt => r.amountIn + r.feeAmount = a)
    <3> HIDE DEF r, f, n, bt
    <3>1. Arrives(computeSwapStep(a, f, L, p, bt, z), p, bt, L, a, z)
      BY <1>1, <1>4, <2>1, <2>2, <2>3, StepArrives
    <3>2. Arrives(r, p, bt, L, a, z)
      BY <2>3, <3>1
    <3> QED
      BY <3>2 DEF Arrives, n
  <2> QED
    BY <2>4 DEF a
<1> HIDE DEF r
<1>6. Ahead(n, target, z)
  BY <1>1, <1>4, <1>5 DEF Ahead, Pos
<1>7. /\ n \in MinSqrtPrice .. MaxSqrtPrice
      /\ landed \in MinTickIndex - 1 .. MaxTickIndex
      /\ Holds(landed, n)
      /\ IF z THEN u - 1 <= landed /\ landed <= t ELSE t <= landed /\ landed <= u
      /\ n # sqrtPrices[u] => IF z THEN u <= landed ELSE landed < u
      /\ n = sqrtPrices[u] => landed = IF z THEN u - 1 ELSE u
      /\ liquidity = LiquidityAt(landed)
  <2>1. st.liquidity = LiquidityAt(t)
    BY <1>1, <1>2
  <2> HIDE DEF p, t, u, z, n
  <2> QED
    BY <1>1, <1>2, <1>5, <1>6, <2>1, Landing DEF z, u
<1> HIDE DEF landed, liquidity
<1>8. liquidity \in Nat
  BY <1>1, <1>7, LiquidityIsNat
<1>9. stepError(st, r) \in Errors /\ stepError(st, r) # "ErrOverdrawn"
  <2>1. st.amountRemaining \in Nat
    BY <1>2, TicksAreInts DEF States
  <2>2. r.amountIn <= st.amountRemaining /\ r.feeAmount <= st.amountRemaining - r.amountIn
    BY <1>5, <2>1
  <2>3. ~(r.amountIn > st.amountRemaining \/ r.feeAmount > st.amountRemaining - r.amountIn)
    BY <1>5, <2>1, <2>2
  <2> QED
    BY <2>3 DEF stepError, Errors
<1>10. CASE stepError(st, r) # "none"
  <2>1. k = [st EXCEPT !.err = stepError(st, r)]
    BY <1>3, <1>10
  <2> HIDE DEF k
  <2>2. k \in States /\ k.vars = st.vars /\ k.err = stepError(st, r)
    BY <1>2, <1>9, <2>1 DEF States
  <2> QED
    BY <1>2, <1>9, <1>10, <2>2 DEF k
<1>11. CASE stepError(st, r) = "none"
  <2>1. k = after
    BY <1>3, <1>8, <1>11
  <2>2. out <= MaxU64 - st.amountOut
    <3>1. ~(st.amountOut > MaxU64 - out)
      BY <1>11 DEF stepError
    <3>2. st.amountOut \in Nat /\ MaxU64 \in Nat
      BY <1>2, TicksAreInts DEF States
    <3> QED
      BY <1>5, <3>1, <3>2
  <2>3. /\ moved \in States /\ moved.vars = st.vars /\ moved.err = "none" /\ moved.group = st.group
        /\ moved.amountRemaining = st.amountRemaining - cost /\ moved.amountOut = st.amountOut + out
        /\ moved.sqrtPrice = n /\ moved.tick = landed /\ moved.liquidity = liquidity
    <3>1. st.amountRemaining - cost \in 0 .. MaxU64 /\ st.amountOut + out \in 0 .. MaxU64
      <4> DEFINE left == st.amountRemaining
                 got  == st.amountOut
      <4>1. left \in Nat /\ left <= MaxU64 /\ got \in Nat /\ MaxU64 \in Nat
        BY <1>2, StateAmounts
      <4>2. cost \in Nat /\ cost <= left /\ out \in Nat /\ out <= MaxU64 - got
        BY <1>5, <2>2
      <4> HIDE DEF left, got, cost, out
      <4>3. left - cost \in 0 .. MaxU64 /\ got + out \in 0 .. MaxU64
        BY <4>1, <4>2
      <4> QED
        BY <4>3 DEF left, got
    <3>3. n \in Nat /\ landed \in Int
      BY <1>5, <1>7, TicksAreInts DEF Pos
    <3> HIDE DEF cost, out, n
    <3> QED
      BY <1>2, <1>8, <3>1, <3>3 DEF States
  <2> HIDE DEF moved
  <2>4. after \in {advanceTickGroup(moved, z), advanceTickGroupAfterSkip(moved, u, z)}
    OBVIOUS
  <2>5. OracleInv(moved.vars) /\ moved.sqrtPrice \in MinSqrtPrice .. MaxSqrtPrice
    BY <1>2, <1>7, <2>3
  <2>6. /\ after \in States /\ OracleInv(after.vars)
        /\ after.amountRemaining = moved.amountRemaining /\ after.amountOut = moved.amountOut
        /\ after.sqrtPrice = n /\ after.liquidity = liquidity
        /\ after.tick = landed /\ after.err = "none"
    <3> HIDE DEF after, u, z
    <3> QED
      BY <1>1, <2>3, <2>4, <2>5, AdvanceKeeps
  <2>7. ASSUME cfg.adaptive, after.amountRemaining # 0, after.sqrtPrice # limit(z)
        PROVE  \E x \in TickIndexes :
                   /\ after.sqrtPrice = sqrtPrices[x]
                   /\ IF z THEN u <= x ELSE x <= u
                   /\ IF z THEN highOf(after.group) = x
                           ELSE lowOf(after.group) = x \/ (x = u /\ x = lastEdge)
    <3>1. n = bt
      <4>1. after.amountRemaining = st.amountRemaining - cost
        BY <2>3, <2>6
      <4>2. st.amountRemaining \in Nat /\ cost \in Nat
        BY <1>2, <1>5, TicksAreInts DEF States
      <4> HIDE DEF after, cost
      <4> QED
        BY <1>5, <2>7, <4>1, <4>2
    <3>2. PICK x \in TickIndexes : /\ bt = sqrtPrices[x]
                                   /\ IF z THEN u <= x ELSE x <= u
                                   /\ StopsAt(st, x, z)
      BY <1>4, <2>7
    <3>3. x # IF z THEN MinTickIndex ELSE MaxTickIndex
      BY <1>1, <2>6, <2>7, <3>1, <3>2, LimitPrices
    <3>4. EdgeAhead(st.group, b.tickIndex) /\ moved.sqrtPrice = sqrtPrices[x] /\ moved \in States /\ moved.group = st.group
      BY <1>1, <1>2, <2>3, <2>7, <3>1, <3>2
    <3>5. after = IF skipsGroups(st) THEN advanceTickGroupAfterSkip(moved, u, z)
                                     ELSE advanceTickGroup(moved, z)
      OBVIOUS
    <3> HIDE DEF after, u, z
    <3>6. IF z THEN highOf(after.group) = x
               ELSE lowOf(after.group) = x \/ (x = u /\ x = lastEdge)
      BY <1>1, <1>2, <2>7, <3>2, <3>3, <3>4, <3>5, GroupFollows DEF u, z
    <3> QED
      BY <2>6, <3>1, <3>2, <3>6
  <2> HIDE DEF after, k
  <2>8. TradedBy(k)
    <3>1. Traded(s.liquidity, Q64, p, n, r.amountIn, out, z)
      <4> HIDE DEF p, n, z
      <4> QED
        BY <1>1, <1>2, <1>5, DeltaIsTraded
    <3>2. /\ k.sqrtPrice = n /\ k.amountOut = s.amountOut + out
          /\ k.amountRemaining = s.amountRemaining - cost
      BY <1>2, <2>1, <2>3, <2>6
    <3>3. s.amountRemaining \in Int
      BY <1>1, TicksAreInts DEF States
    <3> HIDE DEF n, out
    <3>4. k.amountRemaining <= s.amountRemaining - r.amountIn
      BY <1>5, <3>2, <3>3
    <3> QED
      BY <1>5, <1>6, <3>1, <3>2, <3>4 DEF TradedBy
  <2> QED
    BY <1>7, <2>1, <2>6, <2>7, <2>8 DEF k
<1> QED
  BY <1>10, <1>11

-----------------------------------------------------------------------------
\* The invariant holds at first and every action keeps it

\* The pool's first price is held by the tick it is read as.
LEMMA InitEstablishes ==
    Init => SwapInv
<1> SUFFICES ASSUME Init
             PROVE  SwapInv
  OBVIOUS
<1>1. PICK p \in StartPrices :
          pool = [sqrtPrice |-> p, tick |-> TickIndexFromSqrtPrice(p),
                  liquidity |-> LiquidityAt(TickIndexFromSqrtPrice(p)),
                  vars |-> IF cfg.adaptive
                           THEN [NoVars EXCEPT !.groupReference =
                                     floorDivision(TickIndexFromSqrtPrice(p), cfg.tickGroupSize)]
                           ELSE NoVars]
  BY DEF Init
<1> DEFINE t == TickIndexFromSqrtPrice(p)
           group == floorDivision(t, cfg.tickGroupSize)
           first == IF cfg.adaptive THEN [NoVars EXCEPT !.groupReference = group] ELSE NoVars
<1>2. cfg \in Configs /\ now = 0 /\ pc = "idle" /\ q = NoQuote /\ s = NoState /\ w = NoWalker
      /\ b = NoBoundary
  BY DEF Init
<1>3. p \in MinSqrtPrice .. MaxSqrtPrice
  BY PoolAssumption
<1>4. t \in TickIndexes /\ sqrtPrices[t] <= p /\ p < sqrtPrices[t + 1]
  BY <1>3, TickOfPrice
<1>5. pool = [sqrtPrice |-> p, tick |-> t, liquidity |-> LiquidityAt(t), vars |-> first]
  BY <1>1
<1> HIDE DEF t
<1>6. t \in MinTickIndex - 1 .. MaxTickIndex /\ LiquidityAt(t) \in Nat
  BY <1>2, <1>4, TicksAreInts, LiquidityIsNat
<1>7. p <= sqrtPrices[t + 1]
  <2>1. sqrtPrices[t + 1] \in Pos /\ MinSqrtPrice \in Pos
    BY <1>4, LimitPrices, PriceIsPositive
  <2> QED
    BY <1>3, <1>4, <2>1 DEF Pos
<1>8. cfg.tickGroupSize \in Pos /\ cfg.maxAccumulator \in Nat
  BY <1>2, ConfigFacts
<1>9. group \in Int /\ group * cfg.tickGroupSize <= t /\ t < group * cfg.tickGroupSize + cfg.tickGroupSize
      /\ group * cfg.tickGroupSize \in Int /\ t \in Int
  <2>1. t \in Int
    BY <1>6, TicksAreInts
  <2>2. group \in Int /\ group * cfg.tickGroupSize <= t /\ t < group * cfg.tickGroupSize + cfg.tickGroupSize
    BY <1>8, <2>1, GroupOfTick
  <2> QED
    BY <1>8, <2>1, <2>2, NextGroups
<1> HIDE DEF group
<1>10. NoVars \in Vars /\ first \in Vars
  BY <1>9 DEF NoVars, Vars
<1>11. OracleInv(NoVars) /\ OracleInv(first)
  <2>1. 0 * cfg.tickGroupSize = 0
    BY <1>8 DEF Pos
  <2>2. OracleInv(NoVars)
    BY <1>8, <2>1, TicksAreInts DEF OracleInv, NoVars, Pos
  <2>3. OracleInv([NoVars EXCEPT !.groupReference = group])
    <3> DEFINE sp == cfg.tickGroupSize
               at == group * sp
               zero == [NoVars EXCEPT !.groupReference = group]
    <3>1. at \in Int /\ at <= t /\ t < at + sp /\ t \in Int /\ sp \in Int
          /\ MinTickIndex - 1 <= t /\ t <= MaxTickIndex
      BY <1>6, <1>8, <1>9 DEF Pos
    <3>2. MinTickIndex \in Int /\ MaxTickIndex \in Int
      BY TicksAreInts
    <3>3. zero.volatilityReference = 0 /\ zero.accumulator = 0 /\ zero.groupReference = group
      BY DEF NoVars
    <3> HIDE DEF sp, at, zero
    <3>4. at <= MaxTickIndex /\ MinTickIndex <= at + sp
      BY <3>1, <3>2
    <3>5. 0 <= cfg.maxAccumulator
      BY <1>8
    <3>6. OracleInv(zero)
      BY <3>3, <3>4, <3>5 DEF OracleInv, sp, at
    <3> QED
      BY <3>6 DEF zero
  <2> QED
    BY <2>2, <2>3
<1> HIDE DEF first
<1>12. Types
  <2>1. pool \in [sqrtPrice : MinSqrtPrice .. MaxSqrtPrice, tick : MinTickIndex - 1 .. MaxTickIndex,
                  liquidity : Nat, vars : Vars]
    BY <1>3, <1>5, <1>6, <1>10
  <2>2. s \in States
    BY <1>2, <1>10, TicksAreInts DEF NoState, States, Errors
  <2>3. q \in [aToB : BOOLEAN, amountIn : 0 .. MaxU64, timestamp : Int]
    BY <1>2, TicksAreInts DEF NoQuote
  <2>4. w \in [starts : SUBSET Int, held : Int, err : BOOLEAN, read : SUBSET Int]
    BY <1>2, TicksAreInts DEF NoWalker, NoArray
  <2>5. b \in [tickIndex : Int, initialized : BOOLEAN]
    BY <1>2 DEF NoBoundary
  <2> QED
    BY <1>2, <2>1, <2>2, <2>3, <2>4, <2>5 DEF Types
<1>13. PoolInv
  BY <1>4, <1>5, <1>7, <1>11 DEF PoolInv, Holds
<1>14. OracleInv(s.vars) /\ NeverOverdrawn
  BY <1>2, <1>11 DEF NoState, NeverOverdrawn
<1> QED
  BY <1>2, <1>12, <1>13, <1>14 DEF SwapInv, Quoting, GroupInv

\* A walk begins ahead of none of its arrays.
LEMMA NothingBehind ==
    ASSUME NEW t \in Int, NEW z \in BOOLEAN, NEW a \in SwapTickArrayStarts(t, z)
    PROVE  ~(IF z THEN t < a ELSE a + span <= t + TickSpacing)
<1> DEFINE first == arrayAt(t, z, 0)
           f == firstTick(t, z)
<1>1. first \in Int /\ f \in Int /\ first <= f /\ f < first + span
  BY ArrayAtFacts
<1>2. a \in Int /\ Multiple(a, span) /\ IF z THEN a <= first ELSE first <= a
  BY StartsAre
<1>3. span \in Pos /\ TickSpacing \in Pos /\ Multiple(span, TickSpacing)
  BY SpanFacts
<1> HIDE DEF first, f
<1>4. CASE z
  <2>1. f = t
    BY <1>4, FirstTickFacts DEF f
  <2> QED
    BY <1>1, <1>2, <1>4, <2>1
<1>5. CASE ~z
  <2>1. a + span \in Int /\ Multiple(a + span, span)
    BY <1>2, <1>3, MultipleShifts DEF Pos
  <2>2. Multiple(a + span, TickSpacing)
    BY <1>3, <2>1, MultipleOfMultiple
  <2>3. f = firstTick(t, FALSE)
    BY <1>5 DEF f
  <2>4. a + span <= t + TickSpacing <=> a + span <= f
    BY <2>1, <2>2, <2>3, FirstTickFacts
  <2> QED
    BY <1>1, <1>2, <1>3, <1>5, <2>4 DEF Pos
<1> QED
  BY <1>4, <1>5

\* A quote starts where the pool is, in the group of the pool's tick.
LEMMA QuoteKeeps ==
    ASSUME SwapInv, NEW z \in BOOLEAN, NEW a \in Amounts, NEW l \in Lags, QuoteExactIn(z, a, l)
    PROVE  SwapInv'
<1> DEFINE timestamp == bigMax(now - l, 0)
           T == pool.tick
           group == IF cfg.adaptive THEN floorDivision(T, cfg.tickGroupSize) ELSE 0
           new == IF cfg.adaptive THEN updateReference(pool.vars, group, timestamp) ELSE pool.vars
           starts == SwapTickArrayStarts(T, z)
<1>1. /\ Types /\ PoolInv /\ OracleInv(s.vars) /\ NeverOverdrawn
      /\ cfg \in Configs
      /\ pool \in [sqrtPrice : MinSqrtPrice .. MaxSqrtPrice, tick : MinTickIndex - 1 .. MaxTickIndex,
                   liquidity : Nat, vars : Vars]
      /\ now \in Nat
  BY DEF SwapInv, Types
<1>2. /\ pc = "idle" /\ cfg' = cfg /\ pool' = pool /\ now' = now /\ b' = b
      /\ q' = [aToB |-> z, amountIn |-> a, timestamp |-> timestamp]
  BY DEF QuoteExactIn
<1>3. timestamp \in Int /\ a \in 0 .. MaxU64
  BY <1>1, PoolAssumption DEF bigMax
<1> HIDE DEF timestamp
<1>4. q' \in [aToB : BOOLEAN, amountIn : 0 .. MaxU64, timestamp : Int]
  BY <1>2, <1>3
<1>5. PoolInv'
  BY <1>1, <1>2 DEF PoolInv, OracleInv, LiquidityAt
<1>6. CASE pc' = "refused" /\ s' = s /\ w' = w
  <2>1. Types'
    BY <1>1, <1>2, <1>4, <1>6 DEF Types
  <2>2. OracleInv(s.vars)' /\ NeverOverdrawn'
    BY <1>1, <1>2, <1>6 DEF OracleInv, NeverOverdrawn
  <2> QED
    BY <1>5, <1>6, <2>1, <2>2 DEF SwapInv, Quoting, GroupInv
<1>7. CASE pc' = "walk" /\ s' = newState(a, timestamp)
           /\ w' = [NoWalker EXCEPT !.starts = starts]
  <2>1. s' = [amountRemaining |-> a, amountOut |-> 0, sqrtPrice |-> pool.sqrtPrice,
              liquidity |-> pool.liquidity, tick |-> T, group |-> group, vars |-> new,
              err |-> "none"]
    BY <1>7 DEF newState, NoState
  <2>2. T \in MinTickIndex - 1 .. MaxTickIndex /\ T \in Int /\ pool.vars \in Vars
        /\ OracleInv(pool.vars) /\ cfg.tickGroupSize \in Pos
    BY <1>1, TicksAreInts, ConfigFacts DEF PoolInv
  <2>3. new \in Vars /\ OracleInv(new) /\ group \in Int
        /\ (cfg.adaptive => lowOf(group) <= T /\ T < highOf(group))
    <3>1. CASE cfg.adaptive
      <4>1. group = floorDivision(T, cfg.tickGroupSize)
            /\ new = updateReference(pool.vars, floorDivision(T, cfg.tickGroupSize), timestamp)
        BY <3>1
      <4> HIDE DEF group, new
      <4>2. group \in Int /\ group * cfg.tickGroupSize <= T
            /\ T < group * cfg.tickGroupSize + cfg.tickGroupSize
        BY <2>2, <4>1, GroupOfTick
      <4>3. new \in Vars /\ OracleInv(new)
        BY <1>1, <1>3, <2>2, <4>1, ReferenceKeepsOracle
      <4> QED
        BY <4>2, <4>3 DEF lowOf, highOf
    <3>2. CASE ~cfg.adaptive
      BY <2>2, <3>2
    <3> QED
      BY <3>1, <3>2
  <2> HIDE DEF new, group, T, starts
  <2>4. s' \in States
    <3>1. pool.sqrtPrice \in Nat /\ pool.liquidity \in Nat /\ 0 \in 0 .. MaxU64
      <4>1. pool.sqrtPrice \in MinSqrtPrice .. MaxSqrtPrice /\ pool.liquidity \in Nat
        BY <1>1
      <4>2. MinSqrtPrice \in Pos /\ MaxSqrtPrice \in Pos /\ MaxU64 \in Nat
        BY LimitPrices, TicksAreInts
      <4> HIDE DEF MinSqrtPrice, MaxSqrtPrice
      <4> QED
        BY <4>1, <4>2 DEF Pos
    <3> QED
      BY <1>3, <2>1, <2>2, <2>3, <3>1 DEF States, Errors
  <2>5. w' = [starts |-> starts, held |-> NoArray, err |-> FALSE, read |-> {}]
    BY <1>7 DEF NoWalker
  <2>6. starts = SwapTickArrayStarts(T, z) /\ starts \in SUBSET Int
    BY <2>2, StartsAre DEF starts
  <2>7. w' \in [starts : SUBSET Int, held : Int, err : BOOLEAN, read : SUBSET Int]
    BY <2>5, <2>6, TicksAreInts DEF NoArray
  <2>8. Types'
    BY <1>1, <1>2, <1>4, <1>7, <2>4, <2>7 DEF Types
  <2>9. OracleInv(s.vars)' /\ NeverOverdrawn'
    BY <1>2, <2>1, <2>3 DEF OracleInv, NeverOverdrawn
  <2>10. WalkInv'
    <3>1. Holds(T, pool.sqrtPrice) /\ pool.liquidity = LiquidityAt(T)
      BY <1>1 DEF PoolInv, T
    <3>2. pool'.tick = T /\ q'.aToB = z /\ s'.tick = T /\ s'.err = "none"
          /\ s'.sqrtPrice = pool.sqrtPrice /\ s'.liquidity = pool.liquidity
          /\ w'.starts = SwapTickArrayStarts(T, z) /\ w'.read = {}
      BY <1>2, <2>1, <2>5, <2>6 DEF T
    <3>3. T <= T
      BY <2>2
    <3>5. pool.sqrtPrice \in MinSqrtPrice .. MaxSqrtPrice
      BY <1>1
    <3>6. s'.liquidity = LiquidityAt(s.tick)'
      BY <1>2, <3>1, <3>2 DEF LiquidityAt
    <3> QED
      BY <2>2, <3>1, <3>2, <3>3, <3>5, <3>6 DEF WalkInv
  <2>11. ReadBehind'
    <3>1. w'.starts = SwapTickArrayStarts(T, z) /\ s'.tick = T /\ q'.aToB = z
      BY <1>2, <2>1, <2>5, <2>6
    <3> QED
      BY <2>2, <3>1, NothingBehind DEF ReadBehind
  <2>12. cfg'.adaptive => GroupInv'
    BY <1>2, <1>7, <2>1, <2>3 DEF GroupInv, lowOf, highOf
  <2> QED
    BY <1>5, <1>7, <2>8, <2>9, <2>10, <2>11, <2>12 DEF SwapInv, Quoting
<1> QED
  BY <1>2, <1>6, <1>7 DEF QuoteExactIn

\* A walk that goes on is short of the end of the range.
LEMMA GoesOn ==
    ASSUME SwapInv, pc = "walk", ~WalkOver
    PROVE  /\ s.amountRemaining > 0
           /\ IF q.aToB THEN MinTickIndex <= s.tick ELSE s.tick < MaxTickIndex
           /\ Ahead(pool.tick, s.tick, q.aToB)
           /\ s.tick \in MinTickIndex - 1 .. MaxTickIndex /\ s.tick \in Int
           /\ pool.tick \in MinTickIndex - 1 .. MaxTickIndex /\ pool.tick \in Int
           /\ q.aToB \in BOOLEAN /\ w.starts = SwapTickArrayStarts(pool.tick, q.aToB)
<1> DEFINE t == s.tick
           p == s.sqrtPrice
<1>1. Types /\ WalkInv
  BY DEF SwapInv, Quoting
<1>2. s.amountRemaining # 0 /\ p # limit(q.aToB)
  BY DEF WalkOver
<1>3. /\ s.amountRemaining \in Nat /\ q.aToB \in BOOLEAN
      /\ pool.tick \in MinTickIndex - 1 .. MaxTickIndex /\ pool.tick \in Int
  BY <1>1, TicksAreInts DEF Types, States
<1>4. /\ p \in MinSqrtPrice .. MaxSqrtPrice /\ t \in MinTickIndex - 1 .. MaxTickIndex /\ t \in Int
      /\ sqrtPrices[t] <= p /\ p <= sqrtPrices[t + 1]
      /\ IF q.aToB THEN t <= pool.tick ELSE pool.tick <= t
      /\ w.starts = SwapTickArrayStarts(pool.tick, q.aToB)
  BY <1>1, TicksAreInts DEF WalkInv, Holds
<1>5. MinSqrtPrice \in Pos /\ MaxSqrtPrice \in Pos
      /\ MinSqrtPrice = sqrtPrices[MinTickIndex] /\ MaxSqrtPrice = sqrtPrices[MaxTickIndex]
      /\ limit(q.aToB) = IF q.aToB THEN MinSqrtPrice ELSE MaxSqrtPrice
  BY LimitPrices DEF limit
<1> HIDE DEF t, p
<1>6. CASE q.aToB
  <2>1. t # MinTickIndex - 1
    <3>1. SUFFICES ASSUME t = MinTickIndex - 1 PROVE FALSE
      OBVIOUS
    <3>2. t + 1 = MinTickIndex
      BY <3>1, TicksAreInts
    <3> QED
      BY <1>2, <1>4, <1>5, <1>6, <3>2 DEF Pos
  <2>2. MinTickIndex <= t
    BY <1>4, <2>1, TicksAreInts
  <2> QED
    BY <1>2, <1>3, <1>4, <1>6, <2>2 DEF Ahead, t
<1>7. CASE ~q.aToB
  <2>1. t # MaxTickIndex
    BY <1>2, <1>4, <1>5, <1>7 DEF Pos
  <2>2. t < MaxTickIndex
    BY <1>4, <2>1, TicksAreInts
  <2> QED
    BY <1>2, <1>3, <1>4, <1>7, <2>2 DEF Ahead, t
<1> QED
  BY <1>3, <1>6, <1>7

\* The walker's answer is the nearest boundary, and the walk's group ends before it.
LEMMA NextBoundaryKeeps ==
    ASSUME SwapInv, NextBoundary
    PROVE  SwapInv'
<1> DEFINE z == q.aToB
           t == s.tick
           T == pool.tick
           starts == SwapTickArrayStarts(T, z)
<1>1. Types /\ PoolInv /\ OracleInv(s.vars) /\ NeverOverdrawn /\ WalkInv /\ ReadBehind
      /\ (cfg.adaptive => GroupInv) /\ cfg \in Configs
  BY DEF SwapInv, Types, Quoting, NextBoundary
<1>2. /\ pc = "walk" /\ ~WalkOver /\ pc' = "step" /\ b' \in found
      /\ cfg' = cfg /\ pool' = pool /\ now' = now /\ q' = q /\ s' = s
      /\ w' = [w EXCEPT !.held = arrayAt(t, z, arraysPassed(w.starts, t, z)),
                        !.read = @ \cup arraysUsed]
  BY DEF NextBoundary
<1>3. /\ s.amountRemaining > 0 /\ Ahead(T, t, z) /\ z \in BOOLEAN /\ w.starts = starts
      /\ IF z THEN MinTickIndex <= t ELSE t < MaxTickIndex
      /\ t \in MinTickIndex - 1 .. MaxTickIndex /\ t \in Int
      /\ T \in MinTickIndex - 1 .. MaxTickIndex /\ T \in Int
  BY <1>2, GoesOn
<1>4. b' \in nextBoundaries(starts, t, z) /\ arraysUsed = arraysRead(starts, t, z)
  BY <1>2, <1>3 DEF found, arraysUsed
<1> HIDE DEF z, t, T, starts
<1>5. IF z THEN MinTickIndex <= t /\ t <= MaxTickIndex ELSE MinTickIndex - 1 <= t /\ t < MaxTickIndex
  BY <1>3, TicksAreInts
<1> DEFINE u == b'.tickIndex
<1>6. /\ b' \in [tickIndex : TickIndexes, initialized : BOOLEAN]
      /\ IF z THEN u <= t ELSE t < u
      /\ \A v \in Initialized : ~(IF z THEN u < v /\ v <= t ELSE t < v /\ v < u)
      /\ b'.initialized <=> u \in Initialized
      /\ \/ u % TickSpacing = 0
         \/ u = IF z THEN MinTickIndex ELSE MaxTickIndex
         \/ ~z /\ u = lastArray(starts, z) + span - 1
      /\ \A a \in starts :
             (IF z THEN u < a + span ELSE a <= u) =>
                 \/ IF z THEN t < a ELSE a + span <= t + TickSpacing
                 \/ a \in arraysRead(starts, t, z)
  BY <1>3, <1>4, <1>5, SearchFinds DEF starts
<1>7. /\ arraysPassed(starts, t, z) \in Nat /\ starts \in SUBSET Int
      /\ arraysRead(starts, t, z) \subseteq starts
  <2>1. arraysPassed(starts, t, z) \in 0 .. 3
    BY <1>3, SearchStops DEF starts
  <2>2. starts \in SUBSET Int
    BY <1>3, StartsAre DEF starts
  <2>3. arraysRead(starts, t, z) \subseteq starts
    BY DEF arraysRead, reachable
  <2> QED
    BY <2>1, <2>2, <2>3
<1>8. arrayAt(t, z, arraysPassed(starts, t, z)) \in Int
  BY <1>3, <1>7, ArrayAtFacts
<1>9. /\ w \in [starts : SUBSET Int, held : Int, err : BOOLEAN, read : SUBSET Int]
      /\ w.read \subseteq starts
  BY <1>1, <1>3 DEF Types, WalkInv
<1>10. /\ w' = [w EXCEPT !.held = arrayAt(t, z, arraysPassed(starts, t, z)),
                         !.read = @ \cup arraysRead(starts, t, z)]
       /\ w' \in [starts : SUBSET Int, held : Int, err : BOOLEAN, read : SUBSET Int]
       /\ w'.starts = starts /\ w'.read = w.read \cup arraysRead(starts, t, z)
  <2>1. w' = [w EXCEPT !.held = arrayAt(t, z, arraysPassed(starts, t, z)),
                       !.read = @ \cup arraysRead(starts, t, z)]
    BY <1>2, <1>3, <1>4 DEF z, t
  <2>2. arraysRead(starts, t, z) \in SUBSET Int
    BY <1>7
  <2> QED
    BY <1>3, <1>8, <1>9, <2>1, <2>2
<1>11. Types'
  <2>1. b' \in [tickIndex : Int, initialized : BOOLEAN]
    BY <1>6, TicksAreInts
  <2> QED
    BY <1>1, <1>2, <1>10, <2>1 DEF Types
<1>12. PoolInv' /\ OracleInv(s.vars)' /\ NeverOverdrawn'
  BY <1>1, <1>2 DEF PoolInv, OracleInv, LiquidityAt, NeverOverdrawn
<1>13. WalkInv'
  <2>1. w'.starts = SwapTickArrayStarts(pool'.tick, q'.aToB) /\ w'.read \subseteq w'.starts
    BY <1>2, <1>7, <1>9, <1>10 DEF starts, T, z
  <2>2. (s.liquidity = LiquidityAt(s.tick))'
    BY <1>1, <1>2 DEF WalkInv, LiquidityAt
  <2> QED
    BY <1>1, <1>2, <2>1, <2>2 DEF WalkInv
<1>14. ReadBehind'
  BY <1>1, <1>2, <1>3, <1>10 DEF ReadBehind
<1>15. BoundaryInv'
  <2>1. q'.aToB = z /\ s'.tick = t /\ w'.starts = starts
    BY <1>2, <1>10 DEF z, t
  <2>2. ASSUME NEW a \in starts, IF z THEN u < a + span ELSE a <= u
        PROVE  a \in w'.read
    <3>1. (IF z THEN t < a ELSE a + span <= t + TickSpacing) => a \in w.read
      BY <1>1, <1>3 DEF ReadBehind, z, t
    <3> QED
      BY <1>6, <1>10, <2>2, <3>1
  <2>3. lastEdge' = lastArray(starts, z) + span - 1
    BY <2>1 DEF lastEdge
  <2>4. \A v \in Initialized : ~OnTheWay(v, b.tickIndex)'
    BY <1>6, <2>1 DEF OnTheWay
  <2>5. u \in TickIndexes
    BY <1>6
  <2> QED
    BY <1>6, <2>1, <2>2, <2>3, <2>4, <2>5 DEF BoundaryInv
<1>16. cfg'.adaptive => GroupInv'
  <2>1. SUFFICES ASSUME cfg.adaptive
                 PROVE  EdgeAhead(s.group, b.tickIndex)' /\ GroupHoldsPrice'
    BY <1>2 DEF GroupInv
  <2> DEFINE g == s.group
             p == s.sqrtPrice
  <2>2. ~AtLastEdge
    <3>1. SUFFICES ASSUME AtLastEdge PROVE FALSE
      OBVIOUS
    <3>2. ~z /\ t = lastArray(starts, z) + span - 1
      BY <1>3, <3>1 DEF AtLastEdge, lastEdge, z, t
    <3>3. nextBoundaries(starts, t, z) = {}
      BY <1>3, <3>2, NothingPastLastEdge DEF starts
    <3> QED
      BY <1>4, <3>3
  <2>3. lowOf(g) <= t /\ t < highOf(g)
    BY <1>1, <1>2, <2>1, <2>2 DEF GroupInv, t
  <2>4. g \in Int /\ p \in MinSqrtPrice .. MaxSqrtPrice /\ Holds(t, p)
    BY <1>1 DEF Types, States, WalkInv, t
  <2>5. /\ u \in TickIndexes
        /\ \/ u % TickSpacing = 0
           \/ u = IF z THEN MinTickIndex ELSE MaxTickIndex
           \/ ~z /\ u = lastEdge
    BY <1>3, <1>6 DEF lastEdge, z
  <2> HIDE DEF u, g, p
  <2>6. EdgeAhead(g, u)
    BY <1>1, <1>3, <1>6, <2>3, <2>4, <2>5, EdgeFromTick DEF z
  <2>7. GroupSpans(g, p)
    BY <1>1, <1>3, <2>3, <2>4, TickGroupSpans
  <2>8. s'.group = g /\ s'.sqrtPrice = p /\ q'.aToB = q.aToB /\ w'.starts = w.starts
    BY <1>2, <1>3, <1>10 DEF g, p
  <2>9. EdgeAhead(s.group, b.tickIndex)'
    BY <1>2, <2>6, <2>8 DEF EdgeAhead, lowOf, highOf, lastEdge, u
  <2>10. GroupHoldsPrice'
    BY <1>2, <2>7, <2>8 DEF GroupHoldsPrice, GroupSpans, groupEdge
  <2> QED
    BY <2>9, <2>10
<1> QED
  <2>1. s'.amountRemaining > 0
    BY <1>2, <1>3
  <2> QED
    BY <1>2, <1>11, <1>12, <1>13, <1>14, <1>15, <1>16, <2>1 DEF SwapInv, Quoting

\* A walk that stops without a boundary has read all its arrays.
LEMMA EndOfWalkKeeps ==
    ASSUME SwapInv, EndOfWalk
    PROVE  SwapInv'
<1>1. /\ pc = "walk" /\ pc' = "done" /\ (WalkOver \/ found = {})
      /\ cfg' = cfg /\ pool' = pool /\ now' = now /\ q' = q /\ s' = s /\ w' = w /\ b' = b
  BY DEF EndOfWalk
<1>2. Types /\ PoolInv /\ OracleInv(s.vars) /\ NeverOverdrawn /\ WalkInv /\ ReadBehind
  BY <1>1 DEF SwapInv, Quoting
<1>3. Types'
  BY <1>1, <1>2 DEF Types
<1>4. PoolInv' /\ OracleInv(s.vars)' /\ NeverOverdrawn' /\ WalkInv'
  BY <1>1, <1>2 DEF PoolInv, OracleInv, LiquidityAt, NeverOverdrawn, WalkInv
<1>5. EndInv
  <2>1. SUFFICES ASSUME ~WalkOver PROVE Cardinality(w.read) = 3
    BY DEF EndInv, SwapTickArrays
  <2>2. /\ pool.tick \in MinTickIndex - 1 .. MaxTickIndex /\ s.tick \in MinTickIndex - 1 .. MaxTickIndex
        /\ q.aToB \in BOOLEAN /\ Ahead(pool.tick, s.tick, q.aToB)
        /\ IF q.aToB THEN MinTickIndex <= s.tick ELSE s.tick < MaxTickIndex
        /\ w.starts = SwapTickArrayStarts(pool.tick, q.aToB)
    BY <1>1, <2>1, GoesOn
  <2>3. nextBoundaries(SwapTickArrayStarts(pool.tick, q.aToB), s.tick, q.aToB) = {}
    BY <1>1, <2>1, <2>2 DEF found
  <2>4. /\ w.read \in SUBSET SwapTickArrayStarts(pool.tick, q.aToB)
        /\ \A a \in SwapTickArrayStarts(pool.tick, q.aToB) :
               (IF q.aToB THEN s.tick < a ELSE a + span <= s.tick + TickSpacing) => a \in w.read
    BY <1>2, <2>2 DEF WalkInv, ReadBehind
  <2> QED
    BY <2>2, <2>3, <2>4, SearchEnds
<1>6. EndInv'
  BY <1>1, <1>5 DEF EndInv, WalkOver, limit
<1> QED
  BY <1>1, <1>3, <1>4, <1>6 DEF SwapInv, Quoting, GroupInv

LEMMA LoadFailsKeeps ==
    ASSUME SwapInv, LoadFails
    PROVE  SwapInv'
<1>1. /\ pc = "walk" /\ pc' = "done" /\ w' = [w EXCEPT !.err = TRUE]
      /\ cfg' = cfg /\ pool' = pool /\ now' = now /\ q' = q /\ s' = s /\ b' = b
  BY DEF LoadFails
<1>2. Types /\ PoolInv /\ OracleInv(s.vars) /\ NeverOverdrawn /\ WalkInv
  BY <1>1 DEF SwapInv, Quoting
<1>3. /\ w' \in [starts : SUBSET Int, held : Int, err : BOOLEAN, read : SUBSET Int]
      /\ w'.starts = w.starts /\ w'.read = w.read /\ w'.err = TRUE
  BY <1>1, <1>2 DEF Types
<1>4. Types'
  BY <1>1, <1>2, <1>3 DEF Types
<1>5. PoolInv' /\ OracleInv(s.vars)' /\ NeverOverdrawn' /\ WalkInv'
  BY <1>1, <1>2, <1>3 DEF PoolInv, OracleInv, LiquidityAt, NeverOverdrawn, WalkInv
<1>6. EndInv'
  BY <1>3 DEF EndInv
<1> QED
  BY <1>1, <1>4, <1>5, <1>6 DEF SwapInv, Quoting, GroupInv

\* A step lands where its price is.  One that stops short of the boundary is on the near
\* edge of the group it goes on in; the rest of the arrays behind it has been read.
LEMMA SwapStepKeeps ==
    ASSUME SwapInv, SwapStep
    PROVE  SwapInv'
<1> DEFINE z == q.aToB
           t == s.tick
           u == b.tickIndex
           k == StepResult
<1>1. /\ pc = "step" /\ cfg' = cfg /\ pool' = pool /\ now' = now /\ q' = q /\ w' = w
      /\ s' = k
      /\ pc' = IF k.err # "none" THEN "failed"
               ELSE IF k.amountRemaining = 0
                       \/ k.sqrtPrice = clampTarget(SqrtPriceFromTickIndex(u), z)
               THEN "walk" ELSE "step"
      /\ b' = IF pc' = "walk" THEN NoBoundary ELSE b
  BY Zenon DEF SwapStep, StepResult
<1>2. Types /\ PoolInv /\ OracleInv(s.vars) /\ WalkInv /\ ReadBehind /\ BoundaryInv
  BY <1>1 DEF SwapInv, Quoting
<1>3. /\ cfg \in Configs /\ z \in BOOLEAN /\ u \in TickIndexes /\ u \in PricedTicks
      /\ (b.initialized <=> u \in Initialized)
      /\ t \in MinTickIndex - 1 .. MaxTickIndex
      /\ IF z THEN u <= t ELSE t < u
      /\ \A v \in Initialized : ~(IF z THEN u < v /\ v <= t ELSE t < v /\ v < u)
      /\ \/ u % TickSpacing = 0
         \/ u = IF z THEN MinTickIndex ELSE MaxTickIndex
         \/ ~z /\ u = lastEdge
  BY <1>1, StepFacts
<1>4. clampTarget(SqrtPriceFromTickIndex(u), z) = sqrtPrices[u]
  BY <1>3, BoundaryIsTarget
<1>5. /\ k \in States /\ OracleInv(k.vars) /\ k.err # "ErrOverdrawn"
      /\ k.err = "none" =>
             /\ k.sqrtPrice \in MinSqrtPrice .. MaxSqrtPrice
             /\ k.tick \in MinTickIndex - 1 .. MaxTickIndex /\ Holds(k.tick, k.sqrtPrice)
             /\ k.liquidity = LiquidityAt(k.tick)
             /\ IF z THEN u - 1 <= k.tick /\ k.tick <= t ELSE t <= k.tick /\ k.tick <= u
             /\ k.sqrtPrice # sqrtPrices[u] => IF z THEN u <= k.tick ELSE k.tick < u
             /\ k.sqrtPrice = sqrtPrices[u] => k.tick = IF z THEN u - 1 ELSE u
             /\ cfg.adaptive /\ k.amountRemaining # 0 /\ k.sqrtPrice # limit(z) =>
                    \E x \in TickIndexes :
                        /\ k.sqrtPrice = sqrtPrices[x]
                        /\ IF z THEN u <= x ELSE x <= u
                        /\ IF z THEN highOf(k.group) = x
                                ELSE lowOf(k.group) = x \/ (x = u /\ x = lastEdge)
  BY <1>1, StepLands
<1> HIDE DEF k
<1>6. Types'
  <2>1. b' \in [tickIndex : Int, initialized : BOOLEAN]
    BY <1>1, <1>2 DEF Types, NoBoundary
  <2>2. pc' \in {"walk", "step", "failed"}
    BY <1>1
  <2> QED
    BY <1>1, <1>2, <1>5, <2>1, <2>2 DEF Types
<1>7. PoolInv' /\ OracleInv(s.vars)' /\ NeverOverdrawn'
  BY <1>1, <1>2, <1>5 DEF PoolInv, OracleInv, LiquidityAt, NeverOverdrawn
<1>8. CASE k.err # "none"
  <2>1. pc' = "failed"
    BY <1>1, <1>8
  <2> QED
    BY <1>6, <1>7, <2>1 DEF SwapInv, Quoting, GroupInv
<1>9. CASE k.err = "none"
  <2> DEFINE n == k.tick
             p == k.sqrtPrice
  <2>1. /\ p \in MinSqrtPrice .. MaxSqrtPrice
        /\ n \in MinTickIndex - 1 .. MaxTickIndex /\ Holds(n, p)
        /\ k.liquidity = LiquidityAt(n)
        /\ IF z THEN u - 1 <= n /\ n <= t ELSE t <= n /\ n <= u
        /\ p # sqrtPrices[u] => IF z THEN u <= n ELSE n < u
        /\ p = sqrtPrices[u] => n = IF z THEN u - 1 ELSE u
        /\ k.amountRemaining \in Nat
    BY <1>5, <1>9, TicksAreInts DEF States
  <2>2. n \in Int /\ t \in Int /\ u \in Int /\ pool.tick \in Int
    <3>1. n \in MinTickIndex - 1 .. MaxTickIndex
      BY <2>1
    <3>2. pool.tick \in MinTickIndex - 1 .. MaxTickIndex /\ s \in States
      BY <1>2 DEF Types
    <3>5. t \in Int
      BY <3>2 DEF States
    <3>3. u \in Int
      BY <1>3, TickPrices
    <3>4. MinTickIndex \in Int /\ MaxTickIndex \in Int
      BY TicksAreInts
    <3> QED
      BY <3>1, <3>2, <3>3, <3>4, <3>5
  <2>3. pc' = IF k.amountRemaining = 0 \/ p = sqrtPrices[u] THEN "walk" ELSE "step"
    BY <1>1, <1>4, <1>9
  <2>4. s'.tick = n /\ s'.sqrtPrice = p /\ s'.liquidity = k.liquidity /\ s'.group = k.group
        /\ s'.err = "none" /\ s'.amountRemaining = k.amountRemaining
        /\ q'.aToB = z /\ w'.starts = w.starts /\ w'.read = w.read
    BY <1>1, <1>9
  <2> HIDE DEF n, p, t, u, z
  <2>5. WalkInv'
    <3>1. IF z THEN t <= pool.tick ELSE pool.tick <= t
      BY <1>2 DEF WalkInv, z, t
    <3>2. IF z THEN n <= pool.tick ELSE pool.tick <= n
      BY <2>1, <2>2, <3>1
    <3>3. (s.liquidity = LiquidityAt(s.tick))'
      BY <1>1, <2>1, <2>4 DEF LiquidityAt
    <3>4. w.starts = SwapTickArrayStarts(pool.tick, z) /\ w.read \subseteq w.starts
      BY <1>2 DEF WalkInv, z
    <3> QED
      BY <1>1, <2>1, <2>4, <3>2, <3>3, <3>4 DEF WalkInv
  <2>6. ReadBehind'
    <3>1. SUFFICES ASSUME NEW a \in w.starts,
                          IF z THEN n < a ELSE a + span <= n + TickSpacing
                   PROVE  a \in w.read
      BY <2>4 DEF ReadBehind
    <3>2. a \in Int /\ span \in Int /\ TickSpacing \in Int /\ span > 0 /\ TickSpacing <= span
      BY <1>2, SpanFacts DEF Types, Pos
    <3>3. IF z THEN u < a + span ELSE a <= u
      BY <2>1, <2>2, <3>1, <3>2
    <3> QED
      BY <1>2, <3>3 DEF BoundaryInv, z, u
  <2>7. CASE pc' = "walk"
    <3>1. cfg.adaptive /\ ~WalkOver' =>
              \/ lowOf(k.group) <= n /\ n < highOf(k.group)
              \/ ~z /\ n = lastEdge
      <4>1. SUFFICES ASSUME cfg.adaptive, ~WalkOver'
                     PROVE  \/ lowOf(k.group) <= n /\ n < highOf(k.group)
                            \/ ~z /\ n = lastEdge
        OBVIOUS
      <4>2. k.amountRemaining # 0 /\ p # limit(z)
        BY <2>4, <4>1 DEF WalkOver, limit
      <4>3. p = sqrtPrices[u]
        BY <2>3, <2>7, <4>2
      <4>4. PICK x \in TickIndexes :
                /\ p = sqrtPrices[x]
                /\ IF z THEN highOf(k.group) = x
                        ELSE lowOf(k.group) = x \/ (x = u /\ x = lastEdge)
        BY <1>5, <1>9, <4>1, <4>2 DEF p
      <4>5. x = u
        <5>1. x \in PricedTicks /\ u \in PricedTicks /\ sqrtPrices[x] = sqrtPrices[u]
          BY <1>3, <4>3, <4>4, TickPrices
        <5> QED
          BY <5>1, PriceOrder
      <4>6. k.group \in Int
        BY <1>5 DEF States
      <4>7. /\ lowOf(k.group) \in Int /\ highOf(k.group) \in Int
            /\ highOf(k.group) = lowOf(k.group) + cfg.tickGroupSize
        BY <1>3, <4>6, GroupEdges
      <4>8. cfg.tickGroupSize \in Int /\ cfg.tickGroupSize > 0
        BY <1>3, ConfigFacts DEF Pos
      <4>9. n = IF z THEN u - 1 ELSE u
        BY <2>1, <4>3
      <4> HIDE DEF lowOf, highOf, lastEdge
      <4> QED
        BY <1>3, <2>2, <4>4, <4>5, <4>7, <4>8, <4>9
    <3>2. cfg'.adaptive => GroupInv'
      BY <1>1, <2>4, <2>7, <3>1 DEF GroupInv, AtLastEdge, lowOf, highOf, lastEdge
    <3> QED
      BY <1>6, <1>7, <2>5, <2>6, <2>7, <3>2 DEF SwapInv, Quoting
  <2>8. CASE pc' = "step"
    <3>1. k.amountRemaining # 0 /\ p # sqrtPrices[u] /\ b' = b
      BY <1>1, <2>3, <2>8
    <3>2. IF z THEN u <= n ELSE n < u
      BY <2>1, <3>1
    <3>3. BoundaryInv'
      <4>1. ASSUME NEW v \in Initialized PROVE ~OnTheWay(v, b.tickIndex)'
        <5>1. v \in Int
          BY SpanFacts
        <5>2. ~(IF z THEN u < v /\ v <= t ELSE t < v /\ v < u)
          BY <1>3
        <5>3. ~(IF z THEN u < v /\ v <= n ELSE n < v /\ v < u)
          BY <2>1, <2>2, <5>1, <5>2
        <5> QED
          BY <2>4, <3>1, <5>3 DEF OnTheWay, u
      <4>2. \A a \in w.starts : (IF z THEN u < a + span ELSE a <= u) => a \in w.read
        BY <1>2 DEF BoundaryInv, z, u
      <4>3. lastEdge' = lastEdge
        BY <2>4 DEF lastEdge, z
      <4> HIDE DEF lastEdge
      <4>4. b'.tickIndex = u /\ b'.initialized = b.initialized
        BY <3>1 DEF u
      <4> QED
        BY <1>3, <2>4, <3>2, <4>1, <4>2, <4>3, <4>4 DEF BoundaryInv
    <3>4. ASSUME cfg.adaptive
          PROVE  EdgeAhead(k.group, u) /\ GroupSpans(k.group, p)
      <4>1. p # limit(z)
        <5>1. /\ sqrtPrices[n] <= p /\ p <= sqrtPrices[n + 1]
          BY <2>1 DEF Holds
        <5>2. limit(z) = sqrtPrices[IF z THEN MinTickIndex ELSE MaxTickIndex]
              /\ MinTickIndex \in PricedTicks /\ MaxTickIndex \in PricedTicks
          BY <1>3, LimitPrices
        <5>3. n \in PricedTicks /\ n + 1 \in PricedTicks /\ MinTickIndex <= u /\ u <= MaxTickIndex
          BY <1>3, <2>1, TicksAreInts DEF PricedTicks
        <5>4. /\ sqrtPrices[u] \in Pos /\ sqrtPrices[n] \in Pos /\ sqrtPrices[n + 1] \in Pos
              /\ sqrtPrices[MinTickIndex] \in Pos /\ sqrtPrices[MaxTickIndex] \in Pos
              /\ p \in Int
          BY <1>3, <2>1, <5>2, <5>3, PriceIsPositive, LimitPrices DEF Pos
        <5>5. CASE z
          <6>1. sqrtPrices[u] <= sqrtPrices[n] /\ sqrtPrices[MinTickIndex] <= sqrtPrices[u]
            BY <1>3, <3>2, <5>2, <5>3, <5>5, PriceOrder
          <6> QED
            BY <3>1, <5>1, <5>2, <5>4, <5>5, <6>1 DEF Pos
        <5>6. CASE ~z
          <6>1. n + 1 <= u
            BY <2>2, <3>2, <5>6
          <6>2. sqrtPrices[n + 1] <= sqrtPrices[u] /\ sqrtPrices[u] <= sqrtPrices[MaxTickIndex]
            BY <1>3, <5>2, <5>3, <6>1, PriceOrder
          <6> QED
            BY <3>1, <5>1, <5>2, <5>4, <5>6, <6>2 DEF Pos
        <5> QED
          BY <5>5, <5>6
      <4>2. PICK x \in TickIndexes :
                /\ p = sqrtPrices[x] /\ IF z THEN u <= x ELSE x <= u
                /\ IF z THEN highOf(k.group) = x
                        ELSE lowOf(k.group) = x \/ (x = u /\ x = lastEdge)
        BY <1>5, <1>9, <3>1, <3>4, <4>1 DEF p
      <4>3. x # u /\ x \in Int
        BY <3>1, <4>2, TicksAreInts
      <4>4. IF z THEN u < x /\ highOf(k.group) = x ELSE x < u /\ lowOf(k.group) = x
        BY <2>2, <4>2, <4>3
      <4>5. k.group \in Int
        BY <1>5 DEF States
      <4> QED
        BY <1>3, <4>2, <4>4, <4>5, AlignedAhead DEF z
    <3>5. cfg'.adaptive => GroupInv'
      <4>1. SUFFICES ASSUME cfg.adaptive
                     PROVE  EdgeAhead(s.group, b.tickIndex)' /\ GroupHoldsPrice'
        BY <1>1, <2>8 DEF GroupInv
      <4>2. EdgeAhead(s.group, b.tickIndex)'
        <5>1. EdgeAhead(k.group, u)
          BY <3>4, <4>1
        <5> QED
          BY <1>1, <2>4, <3>1, <5>1 DEF EdgeAhead, lowOf, highOf, lastEdge, u
      <4>3. GroupHoldsPrice'
        <5>1. GroupSpans(k.group, p)
          BY <3>4, <4>1
        <5> QED
          BY <1>1, <2>4, <5>1 DEF GroupHoldsPrice, GroupSpans, groupEdge
      <4> QED
        BY <4>2, <4>3
    <3>6. s'.amountRemaining > 0
      BY <2>1, <2>4, <3>1
    <3> QED
      BY <1>6, <1>7, <2>5, <2>6, <2>8, <3>3, <3>5, <3>6 DEF SwapInv, Quoting
  <2> QED
    BY <2>3, <2>7, <2>8
<1> QED
  BY <1>8, <1>9

LEMMA ForgetKeeps ==
    ASSUME SwapInv, Reset, cfg' = cfg, now' = now, PoolInv',
           pool' \in [sqrtPrice : MinSqrtPrice .. MaxSqrtPrice, tick : MinTickIndex - 1 .. MaxTickIndex,
                      liquidity : Nat, vars : Vars]
    PROVE  SwapInv'
<1>1. /\ pc' = "idle" /\ q' = NoQuote /\ s' = NoState /\ w' = NoWalker /\ b' = NoBoundary
      /\ cfg \in Configs /\ now \in Nat
  BY DEF Reset, SwapInv, Types
<1>2. NoVars \in Vars /\ 0 \in 0 .. MaxU64
  BY TicksAreInts DEF NoVars, Vars
<1>3. Types'
  <2>1. s' \in States
    BY <1>1, <1>2 DEF NoState, States, Errors
  <2>2. q' \in [aToB : BOOLEAN, amountIn : 0 .. MaxU64, timestamp : Int]
    BY <1>1, <1>2 DEF NoQuote
  <2>3. w' \in [starts : SUBSET Int, held : Int, err : BOOLEAN, read : SUBSET Int]
    BY <1>1, TicksAreInts DEF NoWalker, NoArray
  <2>4. b' \in [tickIndex : Int, initialized : BOOLEAN]
    BY <1>1 DEF NoBoundary
  <2> QED
    BY <1>1, <2>1, <2>2, <2>3, <2>4 DEF Types
<1>4. OracleInv(s.vars)'
  <2>1. cfg.tickGroupSize \in Pos /\ cfg.maxAccumulator \in Nat
    BY <1>1, ConfigFacts
  <2>2. 0 * cfg.tickGroupSize = 0
    BY <2>1 DEF Pos
  <2> QED
    BY <1>1, <2>1, <2>2, TicksAreInts DEF OracleInv, NoState, NoVars, Pos
<1>5. NeverOverdrawn'
  BY <1>1 DEF NeverOverdrawn, NoState
<1> QED
  BY <1>1, <1>3, <1>4, <1>5 DEF SwapInv, Quoting, GroupInv

\* A swap lands where its quote's walk ended.
LEMMA LandingKeeps ==
    ASSUME SwapInv, SwapLands
    PROVE  SwapInv'
<1> DEFINE new == IF cfg.adaptive /\ isMajorSwap(pool.sqrtPrice, s.sqrtPrice)
                  THEN [s.vars EXCEPT !.lastMajor = now] ELSE s.vars
<1>1. /\ pc = "done" /\ Reset /\ cfg' = cfg /\ now' = now
      /\ pool' = [sqrtPrice |-> s.sqrtPrice, tick |-> s.tick, liquidity |-> s.liquidity, vars |-> new]
  BY DEF SwapLands
<1>2. Types /\ WalkInv /\ OracleInv(s.vars) /\ s.vars \in Vars /\ now \in Int /\ s.liquidity \in Nat
  BY <1>1 DEF SwapInv, Quoting, Types, States
<1>3. new \in Vars /\ OracleInv(new)
  <2>1. [s.vars EXCEPT !.lastMajor = now] \in Vars
    BY <1>2 DEF Vars
  <2>2. OracleInv([s.vars EXCEPT !.lastMajor = now])
    BY <1>2 DEF OracleInv, Vars
  <2> QED
    BY <1>2, <2>1, <2>2
<1> HIDE DEF new
<1>4. pool' \in [sqrtPrice : MinSqrtPrice .. MaxSqrtPrice, tick : MinTickIndex - 1 .. MaxTickIndex,
                 liquidity : Nat, vars : Vars]
  BY <1>1, <1>2, <1>3 DEF WalkInv
<1>5. PoolInv'
  BY <1>1, <1>2, <1>3 DEF PoolInv, WalkInv, OracleInv, LiquidityAt
<1> QED
  BY <1>1, <1>4, <1>5, ForgetKeeps

LEMMA NextKeeps ==
    SwapInv /\ [Next]_vars => SwapInv'
<1> SUFFICES ASSUME SwapInv, [Next]_vars
             PROVE  SwapInv'
  OBVIOUS
<1>1. ASSUME NEW z \in BOOLEAN, NEW a \in Amounts, NEW l \in Lags, QuoteExactIn(z, a, l)
      PROVE  SwapInv'
  BY <1>1, QuoteKeeps
<1>2. CASE NextBoundary
  BY <1>2, NextBoundaryKeeps
<1>3. CASE LoadFails
  BY <1>3, LoadFailsKeeps
<1>4. CASE EndOfWalk
  BY <1>4, EndOfWalkKeeps
<1>5. CASE SwapStep
  BY <1>5, SwapStepKeeps
<1>6. CASE Forget
  <2>1. Reset /\ cfg' = cfg /\ now' = now /\ pool' = pool
    BY <1>6 DEF Forget
  <2>2. PoolInv'
    BY <2>1 DEF SwapInv, PoolInv, OracleInv, LiquidityAt
  <2>3. pool' \in [sqrtPrice : MinSqrtPrice .. MaxSqrtPrice, tick : MinTickIndex - 1 .. MaxTickIndex,
                   liquidity : Nat, vars : Vars]
    BY <2>1 DEF SwapInv, Types
  <2> QED
    BY <2>1, <2>2, <2>3, ForgetKeeps
<1>7. CASE SwapLands
  BY <1>7, LandingKeeps
<1>8. CASE TimePasses \/ UNCHANGED vars
  <2>1. /\ cfg' = cfg /\ pool' = pool /\ pc' = pc /\ q' = q /\ s' = s /\ w' = w /\ b' = b
        /\ now' \in {now, now + 1}
    BY <1>8 DEF TimePasses, vars, quoteVars
  <2>2. Types'
    BY <2>1 DEF SwapInv, Types
  <2>3. PoolInv' /\ OracleInv(s.vars)' /\ NeverOverdrawn'
    BY <2>1 DEF SwapInv, PoolInv, OracleInv, LiquidityAt, NeverOverdrawn
  <2>4. /\ (Quoting => WalkInv)' /\ (pc \in {"walk", "step"} => ReadBehind)'
        /\ (pc = "step" => BoundaryInv /\ s.amountRemaining > 0)'
    BY <2>1 DEF SwapInv, Quoting, WalkInv, LiquidityAt, ReadBehind, BoundaryInv, OnTheWay, lastEdge
  <2>5. (pc = "done" => EndInv)'
    BY <2>1 DEF SwapInv, EndInv, WalkOver, limit
  <2>6. (cfg.adaptive => GroupInv)'
    BY <2>1 DEF SwapInv, GroupInv, WalkOver, limit, AtLastEdge, EdgeAhead, lowOf, highOf, lastEdge,
                GroupHoldsPrice, groupEdge
  <2> QED
    BY <2>2, <2>3, <2>4, <2>5, <2>6 DEF SwapInv
<1> QED
  BY <1>1, <1>2, <1>3, <1>4, <1>5, <1>6, <1>7, <1>8 DEF Next, QuoteStep

\* Every reachable state of the quote satisfies the invariant (QuoteExactInDetailed's outer
\* and inner loops, swap_quote.go, with their walker and fee rate manager).
THEOREM SwapInvariant ==
    Spec => []SwapInv
<1>1. Init => SwapInv
  BY InitEstablishes
<1>2. SwapInv /\ [Next]_vars => SwapInv'
  BY NextKeeps
<1> QED
  BY <1>1, <1>2, PTL DEF Spec

-----------------------------------------------------------------------------
\* What the runs check, for every pool

\* Amounts, prices and the oracle stay in their types (OrcaSwap.TypeOK): what the u64 and
\* uint32 arithmetic of swap_quote.go and adaptive_fee.go relies on.
THEOREM TypeCorrect ==
    Spec => []TypeOK
<1>1. ASSUME SwapInv PROVE TypeOK
  <2>1. /\ cfg \in Configs /\ pc \in {"idle", "walk", "step", "done", "failed", "refused"}
        /\ s \in States /\ pool.liquidity \in Nat /\ pool.vars \in Vars
        /\ OracleInv(s.vars) /\ OracleInv(pool.vars)
        /\ (Quoting => s.sqrtPrice \in MinSqrtPrice .. MaxSqrtPrice)
    BY <1>1 DEF SwapInv, Types, PoolInv, WalkInv
  <2>2. s.amountRemaining \in 0 .. MaxU64 /\ s.amountOut \in 0 .. MaxU64 /\ s.liquidity \in Nat
        /\ s.vars.volatilityReference \in Nat /\ pool.vars.accumulator \in Nat
        /\ s.vars.volatilityReference <= cfg.maxAccumulator
        /\ pool.vars.accumulator <= cfg.maxAccumulator /\ cfg.maxAccumulator \in Nat
    BY <2>1, ConfigFacts DEF States, Vars, OracleInv
  <2> QED
    BY <2>1, <2>2 DEF TypeOK
<1> QED
  BY <1>1, SwapInvariant, PTL

\* The tick a quote carries is the tick of its price, also after a fall that ends on a
\* boundary (currTick = tickNext - 1, swap_quote.go).
THEOREM TickIsWherePriceIs ==
    Spec => []TickMatchesPrice
<1>1. ASSUME SwapInv PROVE TickMatchesPrice
  BY <1>1 DEF SwapInv, PoolInv, WalkInv, TickMatchesPrice
<1> QED
  BY <1>1, SwapInvariant, PTL

\* Every initialized tick is crossed once and in the right direction: a quote's liquidity
\* is that of the tick it is on (crossLiquidity, swap_quote.go).
THEOREM LiquidityIsThatOfTick ==
    Spec => []LiquidityMatchesTick
<1>1. ASSUME SwapInv PROVE LiquidityMatchesTick
  BY <1>1 DEF SwapInv, PoolInv, WalkInv, LiquidityMatchesTick
<1> QED
  BY <1>1, SwapInvariant, PTL

\* A step never starts outside the tick group its fee is counted from
\* (advanceTickGroup, advanceTickGroupAfterSkip, fee_rate_manager.go).
THEOREM StepStartsInItsGroup ==
    Spec => []GroupHoldsPrice
<1>1. ASSUME SwapInv PROVE GroupHoldsPrice
  BY <1>1 DEF SwapInv, GroupInv, GroupHoldsPrice
<1> QED
  BY <1>1, SwapInvariant, PTL

\* The check before the balances (swap_quote.go) never fires.
THEOREM QuoteNeverOverdraws ==
    Spec => []NeverOverdrawn
<1>1. ASSUME SwapInv PROVE NeverOverdrawn
  BY <1>1 DEF SwapInv
<1> QED
  BY <1>1, SwapInvariant, PTL

FewRead == Cardinality(w.read) <= 3

\* No walk reads a fourth array, and none that fails or is dropped has.
LEMMA FewAreRead ==
    Spec => []FewRead
<1>1. Init => FewRead
  BY FS_EmptySet DEF Init, NoWalker, FewRead
<1>2. SwapInv' /\ FewRead /\ [Next]_vars => FewRead'
  <2> SUFFICES ASSUME SwapInv', FewRead, [Next]_vars
               PROVE  FewRead'
    OBVIOUS
  <2>1. CASE w'.read = w.read
    BY <2>1 DEF FewRead
  <2>2. CASE w'.read = {}
    BY <2>2, FS_EmptySet DEF FewRead
  <2>3. CASE pc' = "step"
    <3>1. Types' /\ WalkInv'
      BY <2>3 DEF SwapInv, Quoting
    <3>2. /\ pool'.tick \in Int /\ q'.aToB \in BOOLEAN
          /\ w'.read \in SUBSET SwapTickArrayStarts(pool'.tick, q'.aToB)
      BY <3>1, TicksAreInts DEF Types, WalkInv
    <3>3. Cardinality(w'.read) <= 3
      BY <3>2, StartsAreFew
    <3> QED
      BY <3>3 DEF FewRead
  <2>4. ASSUME LoadFails PROVE w'.read = w.read \/ w'.read = {}
    <3>1. w' = [w EXCEPT !.err = TRUE]
      BY <2>4 DEF LoadFails
    <3> QED
      BY <3>1
  <2>5. ASSUME NEW z \in BOOLEAN, NEW a \in Amounts, NEW l \in Lags, QuoteExactIn(z, a, l)
        PROVE  w'.read = w.read \/ w'.read = {}
    <3>1. w' = w \/ w' = [NoWalker EXCEPT !.starts = SwapTickArrayStarts(pool.tick, z)]
      BY <2>5 DEF QuoteExactIn
    <3>2. [NoWalker EXCEPT !.starts = SwapTickArrayStarts(pool.tick, z)].read = {}
      BY DEF NoWalker
    <3> QED
      BY <3>1, <3>2, Zenon
  <2>6. w'.read = w.read \/ w'.read = {} \/ pc' = "step"
    BY <2>4, <2>5 DEF Next, QuoteStep, NextBoundary, EndOfWalk, SwapStep, Forget, SwapLands, Reset,
                      NoWalker, TimePasses, vars, quoteVars
  <2> QED
    BY <2>1, <2>2, <2>3, <2>6
<1> QED
  BY <1>1, <1>2, SwapInvariant, PTL DEF Spec

\* A quote searches the arrays its swap may read, all of them before it gives up, and no
\* initialized tick is passed over (TickArrayWalker.Next, tick_array.go).
THEOREM WalkSearches ==
    Spec => []WalkSearchesItsArrays
<1>1. ASSUME SwapInv, FewRead PROVE WalkSearchesItsArrays
  <2>1. pc = "step" => \A t \in Initialized : ~OnTheWay(t, b.tickIndex)
    BY <1>1 DEF SwapInv, BoundaryInv
  <2>2. Cardinality(w.read) <= SwapTickArrays
    BY <1>1 DEF FewRead, SwapTickArrays
  <2>3. pc = "done" => EndInv
    BY <1>1 DEF SwapInv
  <2> QED
    BY <2>1, <2>2, <2>3 DEF WalkSearchesItsArrays, OnTheWay, EndInv
<1> QED
  BY <1>1, SwapInvariant, FewAreRead, PTL

\* Beyond the core range the accumulator is at its maximum.
LEMMA PinnedOutsideCore ==
    ASSUME cfg \in Configs, NEW v \in Vars, OracleInv(v), NEW g \in Int,
           g <= v.groupReference - maxDelta(v) \/ v.groupReference + maxDelta(v) <= g
    PROVE  accumulatorAt(v, g) = cfg.maxAccumulator
<1> DEFINE scale == volatilityAccumulatorScaleFactor
           d == distance(v.groupReference, g)
           m == maxDelta(v)
           cap == cfg.maxAccumulator
           ref == v.volatilityReference
<1>1. m \in Nat /\ cap - ref <= m * scale /\ scale \in Pos /\ cap \in Nat /\ ref \in Nat
      /\ v.groupReference \in Int
  BY CoreFacts, ConfigFacts DEF Vars
<1>2. d \in Nat /\ m <= d
  BY <1>1 DEF distance, bigMax
<1>3. accumulatorAt(v, g) = bigMin(ref + d * scale, cap)
  BY DEF accumulatorAt
<1> HIDE DEF d, m, cap, ref, scale
<1>4. m * scale <= d * scale /\ m * scale \in Int /\ d * scale \in Int
  BY <1>1, <1>2, MulMonotone, MulIsNat DEF Pos
<1>5. cap <= ref + d * scale
  BY <1>1, <1>4
<1> QED
  BY <1>1, <1>3, <1>4, <1>5 DEF bigMin, cap

\* Groups lie one after the other.
LEMMA GroupsInOrder ==
    ASSUME cfg \in Configs, NEW g \in Int, NEW h \in Int, g < h
    PROVE  groupEdge(g, FALSE) <= groupEdge(h, TRUE)
<1> DEFINE high == clampTick(highOf(g))
           low == clampTick(lowOf(h))
<1>1. highOf(g) <= lowOf(h) /\ highOf(g) \in Int /\ lowOf(h) \in Int
  BY GroupEdges
<1>2. high <= low
  BY <1>1, TicksAreInts DEF clampTick, bigMin, bigMax
<1>3. high \in TickIndexes /\ low \in TickIndexes
      /\ groupEdge(g, FALSE) = sqrtPrices[high] /\ groupEdge(h, TRUE) = sqrtPrices[low]
  BY EdgePrices
<1> HIDE DEF high, low
<1>4. sqrtPrices[high] <= sqrtPrices[low]
  BY <1>2, <1>3, LimitPrices, PriceOrder
<1> QED
  BY <1>3, <1>4, Zenon

LEMMA EdgesAreInts ==
    ASSUME cfg \in Configs, NEW g \in Int
    PROVE  groupEdge(g, TRUE) \in Int /\ groupEdge(g, FALSE) \in Int
<1>1. groupEdge(g, TRUE) \in Pos /\ groupEdge(g, FALSE) \in Pos
  BY EdgePrices, Zenon
<1>2. \A x \in Pos : x \in Int
  BY DEF Pos
<1> QED
  BY <1>1, <1>2, Zenon

\* The groups a step may not reach: below the first and above the last edge it lies in.
LEMMA GroupBetween ==
    ASSUME cfg \in Configs, NEW g \in Int, NEW h \in Int, NEW p \in Int
    PROVE  /\ groupEdge(g, TRUE) < p /\ p <= groupEdge(h, FALSE) => g <= h
           /\ p < groupEdge(g, FALSE) /\ groupEdge(h, TRUE) <= p => h <= g
<1> DEFINE lowG == groupEdge(g, TRUE)
           highG == groupEdge(g, FALSE)
           lowH == groupEdge(h, TRUE)
           highH == groupEdge(h, FALSE)
<1>1. lowG \in Int /\ highG \in Int /\ lowH \in Int /\ highH \in Int
  BY EdgesAreInts
<1>2. h < g => highH <= lowG
  BY GroupsInOrder
<1>3. g < h => highG <= lowH
  BY GroupsInOrder
<1> HIDE DEF lowG, highG, lowH, highH
<1>4. lowG < p /\ p <= highH => g <= h
  BY <1>1, <1>2
<1>5. p < highG /\ lowH <= p => h <= g
  BY <1>1, <1>3
<1> QED
  BY <1>4, <1>5 DEF lowG, highG, lowH, highH

\* A step that exchanges anything runs through one rate only: all its groups share an
\* accumulator, or the adaptive part of the fee is zero.
LEMMA OneRate ==
    ASSUME SwapInv
    PROVE  StepHasOneRate
<1> SUFFICES ASSUME cfg.adaptive, pc = "step", s.liquidity # 0
             PROVE  LET st      == updateVolatilityAccumulator(s)
                        target  == clampTarget(SqrtPriceFromTickIndex(b.tickIndex), q.aToB)
                        bounded == boundedTarget(st, target, q.aToB)
                    IN  \A g \in Groups :
                            /\ groupEdge(g, TRUE) < bigMax(s.sqrtPrice, bounded)
                            /\ groupEdge(g, FALSE) > bigMin(s.sqrtPrice, bounded)
                            => totalFeeRateAt(accumulatorAt(st.vars, g)) = totalFeeRateAt(st.vars.accumulator)
  BY DEF StepHasOneRate
<1> DEFINE u == b.tickIndex
           z == q.aToB
           p == s.sqrtPrice
           st == updateVolatilityAccumulator(s)
           v == st.vars
           h == st.group
           target == clampTarget(SqrtPriceFromTickIndex(u), z)
           bt == boundedTarget(st, target, z)
           lo == bigMin(p, bt)
           hi == bigMax(p, bt)
<1>1. /\ cfg \in Configs /\ z \in BOOLEAN /\ s \in States /\ OracleInv(s.vars)
      /\ u \in TickIndexes /\ sqrtPrices[u] \in Pos /\ p \in Pos
      /\ EdgeAhead(s.group, u) /\ GroupSpans(s.group, p) /\ Ahead(p, sqrtPrices[u], z)
  BY StepFacts
<1>2. target = sqrtPrices[u]
  BY <1>1, BoundaryIsTarget
<1>3. /\ v \in Vars /\ OracleInv(v) /\ h = s.group /\ h \in Int
      /\ st.sqrtPrice = p /\ st.liquidity # 0
      /\ v.accumulator = accumulatorAt(v, h)
  <2>1. /\ st \in States /\ OracleInv(st.vars)
        /\ st.vars.volatilityReference = s.vars.volatilityReference
        /\ st.vars.groupReference = s.vars.groupReference
        /\ st.sqrtPrice = s.sqrtPrice /\ st.liquidity = s.liquidity /\ st.group = s.group
        /\ st.vars.accumulator = accumulatorAt(s.vars, s.group)
    BY <1>1, UpdatedState
  <2> HIDE DEF st
  <2>2. accumulatorAt(st.vars, s.group) = accumulatorAt(s.vars, s.group)
    BY <2>1 DEF accumulatorAt
  <2> QED
    BY <2>1, <2>2 DEF States
<1> HIDE DEF st
<1>4. bt \in Pos /\ Ahead(p, bt, z)
  <2>1. bt = boundedTarget(st, sqrtPrices[u], z)
    BY <1>2
  <2>2. \E x \in TickIndexes : bt = sqrtPrices[x] /\ Ahead(st.sqrtPrice, bt, z)
    BY <1>1, <1>3, <2>1, TargetIsTick
  <2> HIDE DEF bt
  <2> QED
    BY <1>3, <2>2, LimitPrices, PriceIsPositive
<1>5. lo \in Int /\ hi \in Int /\ IF z THEN lo = bt /\ hi = p ELSE lo = p /\ hi = bt
  <2> HIDE DEF bt, p
  <2> QED
    BY <1>1, <1>4 DEF Ahead, Pos, bigMin, bigMax
<1>6. groupEdge(h, TRUE) <= p /\ p <= groupEdge(h, FALSE)
  BY <1>1, <1>3 DEF GroupSpans
<1> SUFFICES ASSUME NEW g \in Groups, groupEdge(g, TRUE) < hi, lo < groupEdge(g, FALSE)
             PROVE  totalFeeRateAt(accumulatorAt(v, g)) = totalFeeRateAt(v.accumulator)
  <2>1. \A g \in Groups : groupEdge(g, FALSE) > lo => lo < groupEdge(g, FALSE)
    OBVIOUS
  <2> QED
    BY <2>1 DEF st
<1>7. g \in Int
  BY DEF Groups
<1> DEFINE lowG == groupEdge(g, TRUE)
           highG == groupEdge(g, FALSE)
<1>8. /\ lowG = sqrtPrices[clampTick(lowOf(g))] /\ highG = sqrtPrices[clampTick(highOf(g))]
      /\ clampTick(lowOf(g)) \in TickIndexes /\ clampTick(highOf(g)) \in TickIndexes
      /\ lowOf(g) \in Int /\ highOf(g) \in Int /\ lowG \in Int /\ highG \in Int
      /\ lowG < hi /\ lo < highG
  <2>1. lowOf(g) \in Int /\ highOf(g) \in Int
    BY <1>1, <1>7, GroupEdges
  <2>2. clampTick(lowOf(g)) \in TickIndexes /\ clampTick(highOf(g)) \in TickIndexes
    BY <2>1, ClampFacts
  <2>3. lowG = sqrtPrices[clampTick(lowOf(g))] /\ highG = sqrtPrices[clampTick(highOf(g))]
    BY <1>1, <1>7, EdgePrices, Zenon
  <2>4. lowG \in Int /\ highG \in Int
    BY <1>1, <1>7, EdgesAreInts
  <2> HIDE DEF lowG, highG
  <2> QED
    BY <2>1, <2>2, <2>3, <2>4 DEF lowG, highG
<1>9. /\ lowG < p /\ p <= groupEdge(h, FALSE) => g <= h
      /\ p < highG /\ groupEdge(h, TRUE) <= p => h <= g
      /\ lowG < bt /\ bt <= groupEdge(h, FALSE) => g <= h
      /\ bt < highG /\ groupEdge(h, TRUE) <= bt => h <= g
  <2>1. p \in Int /\ bt \in Int
    BY <1>1, <1>4 DEF Pos
  <2> HIDE DEF p, bt
  <2>2. /\ lowG < p /\ p <= groupEdge(h, FALSE) => g <= h
        /\ p < highG /\ groupEdge(h, TRUE) <= p => h <= g
    BY <1>1, <1>3, <1>7, <2>1, GroupBetween
  <2>3. /\ lowG < bt /\ bt <= groupEdge(h, FALSE) => g <= h
        /\ bt < highG /\ groupEdge(h, TRUE) <= bt => h <= g
    BY <1>1, <1>3, <1>7, <2>1, GroupBetween
  <2> QED
    BY <2>2, <2>3
<1>10. /\ groupEdge(h, TRUE) \in Int /\ groupEdge(h, FALSE) \in Int
  BY <1>1, <1>3, EdgesAreInts
<1> HIDE DEF lowG, highG, lo, hi, bt, target, p, z
<1>11. CASE cfg.controlFactor = 0
  <2>1. accumulatorAt(v, g) \in Nat /\ v.accumulator \in Nat
    BY <1>1, <1>3, <1>7, AccumulatorInRange DEF Vars
  <2>2. computeAdaptiveFeeRate(accumulatorAt(v, g)) = 0 /\ computeAdaptiveFeeRate(v.accumulator) = 0
    BY <1>1, <1>11, <2>1, RateInRange
  <2> QED
    BY <2>2 DEF totalFeeRateAt
<1>12. CASE cfg.controlFactor # 0 /\ belowCore(st)
  <2>1. PICK i \in coreLower(v) : h < i
    BY <1>12 DEF belowCore
  <2>2. i = v.groupReference - maxDelta(v) /\ i \in Int /\ coreLower(v) = {i} /\ lowOf(i) \in TickIndexes
    BY <1>1, <1>3, CoreFacts
  <2>3. g <= i
    <3>1. CASE z
      <4>1. lowG < p
        BY <1>5, <1>8, <3>1
      <4>2. g <= h
        BY <1>6, <1>9, <4>1
      <4> QED
        BY <1>3, <1>7, <2>1, <2>2, <4>2
    <3>2. CASE ~z
      <4>1. bt <= sqrtPrices[lowOf(i)]
        <5>1. bt = Min({target} \cup {sqrtPrices[lowOf(j)] : j \in coreLower(v)})
          BY <1>3, <1>12, <3>2 DEF bt, boundedTarget, SqrtPriceFromTickIndex, lowOf
        <5>2. bt = Min({target} \cup {sqrtPrices[lowOf(i)]})
          BY <2>2, <5>1
        <5>3. target \in Int /\ sqrtPrices[lowOf(i)] \in Int
          BY <1>1, <1>2, <2>2, LimitPrices, PriceIsPositive DEF Pos
        <5> DEFINE y == sqrtPrices[lowOf(i)]
        <5> HIDE DEF y
        <5>4. bt = IF target <= y THEN target ELSE y
          BY <5>2, <5>3, MinOfTwo DEF y
        <5>5. bt <= y
          BY <5>3, <5>4 DEF y
        <5> QED
          BY <5>5 DEF y
      <4>2. sqrtPrices[clampTick(lowOf(g))] < sqrtPrices[lowOf(i)]
        <5>1. sqrtPrices[lowOf(i)] \in Int /\ bt \in Int
          BY <1>4, <2>2, LimitPrices, PriceIsPositive DEF Pos
        <5> QED
          BY <1>5, <1>8, <3>2, <4>1, <5>1
      <4>3. clampTick(lowOf(g)) < lowOf(i)
        BY <1>8, <2>2, <4>2, LimitPrices, PriceOrder
      <4>4. lowOf(g) < lowOf(i)
        BY <1>8, <2>2, <4>3, TicksAreInts DEF clampTick, bigMin, bigMax
      <4>5. i <= g => lowOf(i) <= lowOf(g)
        BY <1>1, <1>7, <2>2, GroupEdges
      <4> QED
        BY <1>7, <1>8, <2>2, <4>4, <4>5, TicksAreInts
    <3> QED
      BY <3>1, <3>2
  <2>4. g <= v.groupReference - maxDelta(v) /\ h <= v.groupReference - maxDelta(v)
    BY <1>3, <2>1, <2>2, <2>3
  <2>5. accumulatorAt(v, g) = cfg.maxAccumulator /\ accumulatorAt(v, h) = cfg.maxAccumulator
    BY <1>1, <1>3, <1>7, <2>4, PinnedOutsideCore
  <2> QED
    BY <1>3, <2>5
<1>13. CASE cfg.controlFactor # 0 /\ ~belowCore(st) /\ aboveCore(st)
  <2>1. PICK i \in coreUpper(v) : i < h
    BY <1>3, <1>13, CoreFacts, <1>1 DEF aboveCore
  <2>2. i = v.groupReference + maxDelta(v) /\ i \in Int /\ coreUpper(v) = {i} /\ highOf(i) \in TickIndexes
    BY <1>1, <1>3, CoreFacts
  <2>3. i <= g
    <3>1. CASE ~z
      <4>1. p < highG
        BY <1>5, <1>8, <3>1
      <4>2. h <= g
        BY <1>6, <1>9, <4>1
      <4> QED
        BY <1>3, <1>7, <2>1, <2>2, <4>2
    <3>2. CASE z
      <4>1. sqrtPrices[highOf(i)] <= bt
        <5>1. bt = Max({target} \cup {sqrtPrices[highOf(j)] : j \in coreUpper(v)})
          <6>1. bt = Max({target} \cup
                  {SqrtPriceFromTickIndex((j + 1) * cfg.tickGroupSize) : j \in coreUpper(v)})
            BY <1>3, <1>13, <3>2 DEF bt, boundedTarget
          <6>2. \A j \in coreUpper(v) : (j + 1) * cfg.tickGroupSize = highOf(j)
            BY <1>1, <2>2, GroupEdges
          <6>3. {SqrtPriceFromTickIndex((j + 1) * cfg.tickGroupSize) : j \in coreUpper(v)}
                    = {sqrtPrices[highOf(j)] : j \in coreUpper(v)}
            BY <6>2 DEF SqrtPriceFromTickIndex
          <6> QED
            BY <6>1, <6>3
        <5>2. bt = Max({target} \cup {sqrtPrices[highOf(i)]})
          BY <2>2, <5>1
        <5>3. target \in Int /\ sqrtPrices[highOf(i)] \in Int
          BY <1>1, <1>2, <2>2, LimitPrices, PriceIsPositive DEF Pos
        <5> DEFINE y == sqrtPrices[highOf(i)]
        <5> HIDE DEF y
        <5>4. bt = IF y <= target THEN target ELSE y
          BY <5>2, <5>3, MinOfTwo DEF y
        <5>5. y <= bt
          BY <5>3, <5>4 DEF y
        <5> QED
          BY <5>5 DEF y
      <4>2. sqrtPrices[highOf(i)] < sqrtPrices[clampTick(highOf(g))]
        <5>1. sqrtPrices[highOf(i)] \in Int /\ bt \in Int
          BY <1>4, <2>2, LimitPrices, PriceIsPositive DEF Pos
        <5> QED
          BY <1>5, <1>8, <3>2, <4>1, <5>1
      <4>3. highOf(i) < clampTick(highOf(g))
        BY <1>8, <2>2, <4>2, LimitPrices, PriceOrder
      <4>4. highOf(i) < highOf(g)
        BY <1>8, <2>2, <4>3, TicksAreInts DEF clampTick, bigMin, bigMax
      <4>5. g <= i => highOf(g) <= highOf(i)
        BY <1>1, <1>7, <2>2, GroupEdges
      <4> QED
        BY <1>7, <1>8, <2>2, <4>4, <4>5, TicksAreInts
    <3> QED
      BY <3>1, <3>2
  <2>4. v.groupReference + maxDelta(v) <= g /\ v.groupReference + maxDelta(v) <= h
    BY <1>3, <2>1, <2>2, <2>3
  <2>5. accumulatorAt(v, g) = cfg.maxAccumulator /\ accumulatorAt(v, h) = cfg.maxAccumulator
    BY <1>1, <1>3, <1>7, <2>4, PinnedOutsideCore
  <2> QED
    BY <1>3, <2>5
<1>14. CASE cfg.controlFactor # 0 /\ ~belowCore(st) /\ ~aboveCore(st)
  <2>1. bt = IF z THEN bigMax(target, groupEdge(h, TRUE)) ELSE bigMin(target, groupEdge(h, FALSE))
    BY <1>3, <1>14 DEF bt, boundedTarget
  <2>2. IF z THEN groupEdge(h, TRUE) <= bt ELSE bt <= groupEdge(h, FALSE)
    <3> DEFINE low == groupEdge(h, TRUE)
               high == groupEdge(h, FALSE)
    <3>1. target \in Int
      BY <1>1, <1>2 DEF Pos
    <3>2. low \in Int /\ high \in Int /\ bt = IF z THEN bigMax(target, low) ELSE bigMin(target, high)
      BY <1>10, <2>1, Zenon
    <3> HIDE DEF low, high
    <3>3. IF z THEN low <= bt ELSE bt <= high
      BY <3>1, <3>2 DEF bigMax, bigMin
    <3> QED
      BY <3>3, Zenon DEF low, high
  <2>3. CASE z
    <3>1. lowG < p /\ bt < highG /\ groupEdge(h, TRUE) <= bt
      BY <1>5, <1>8, <2>2, <2>3
    <3>2. g <= h /\ h <= g
      BY <1>6, <1>9, <3>1
    <3> QED
      BY <1>3, <1>7, <3>2
  <2>4. CASE ~z
    <3>1. p < highG /\ lowG < bt /\ bt <= groupEdge(h, FALSE)
      BY <1>5, <1>8, <2>2, <2>4
    <3>2. g <= h /\ h <= g
      BY <1>6, <1>9, <3>1
    <3> QED
      BY <1>3, <1>7, <3>2
  <2> QED
    BY <2>3, <2>4
<1> QED
  BY <1>11, <1>12, <1>13, <1>14

\* The rate a step is charged is that of every tick group it runs through
\* (boundedSqrtPriceTarget and the core range of newFeeRateManager, fee_rate_manager.go):
\* skipping groups changes no fee.
THEOREM StepIsChargedOneRate ==
    Spec => []StepHasOneRate
BY OneRate, SwapInvariant, PTL

-----------------------------------------------------------------------------
\* What swaps leave a trader with

\* The liquidity between each price and the next.
DepthOf(c) ==
    [x \in 0 .. MaxSqrtPrice - 1 |->
        IF x < MinSqrtPrice THEN 0 ELSE LiquidityOf(c.liquidityNet, TickIndexFromSqrtPrice(x))]

PaidOn(c, start, price, won) == PaidTheWay(DepthOf(c), MaxSqrtPrice, Q64, start, price, won)

LEMMA DepthIsNat ==
    ASSUME cfg \in Configs
    PROVE  /\ DepthOf(cfg) \in [0 .. MaxSqrtPrice - 1 -> Nat] /\ MaxSqrtPrice \in Nat /\ Q64 \in Pos
           /\ MinSqrtPrice \in Pos
           /\ \A x \in MinSqrtPrice .. MaxSqrtPrice : x \in 1 .. MaxSqrtPrice /\ x \in 0 .. MaxSqrtPrice
<1>1. MinSqrtPrice \in Pos /\ MaxSqrtPrice \in Pos /\ Q64 \in Pos
  BY LimitPrices, OrcaMathAssumption DEF Pos
<1>2. ASSUME NEW x \in 0 .. MaxSqrtPrice - 1, ~(x < MinSqrtPrice)
      PROVE  LiquidityOf(cfg.liquidityNet, TickIndexFromSqrtPrice(x)) \in Nat
  <2>1. x \in MinSqrtPrice .. MaxSqrtPrice
    BY <1>1, <1>2 DEF Pos
  <2>2. TickIndexFromSqrtPrice(x) \in TickIndexes
    BY <2>1, TickOfPrice
  <2>3. TickIndexFromSqrtPrice(x) \in MinTickIndex - 1 .. MaxTickIndex
    BY <2>2, TicksAreInts
  <2> QED
    BY <2>3, LiquidityIsNat DEF LiquidityAt
<1>3. DepthOf(cfg) \in [0 .. MaxSqrtPrice - 1 -> Nat]
  BY <1>2 DEF DepthOf
<1> QED
  BY <1>1, <1>3 DEF Pos

\* Between the walk's price and the boundary there is the walk's liquidity everywhere.
LEMMA DepthOnTheWay ==
    ASSUME SwapInv, pc = "step", NEW k \in Int,
           IF q.aToB THEN sqrtPrices[b.tickIndex] <= k /\ k < s.sqrtPrice
                     ELSE s.sqrtPrice <= k /\ k < sqrtPrices[b.tickIndex]
    PROVE  DepthOf(cfg)[k] = s.liquidity
<1> DEFINE u == b.tickIndex
           z == q.aToB
           t == s.tick
           p == s.sqrtPrice
           D == MinTickIndex - 1 .. MaxTickIndex
           y == TickIndexFromSqrtPrice(k)
<1>1. /\ cfg \in Configs /\ z \in BOOLEAN /\ u \in TickIndexes /\ u \in PricedTicks
      /\ p \in MinSqrtPrice .. MaxSqrtPrice /\ t \in D /\ Holds(t, p)
      /\ s.liquidity = LiquidityAt(t)
      /\ IF z THEN u <= t ELSE t < u
      /\ \A v \in Initialized : ~(IF z THEN u < v /\ v <= t ELSE t < v /\ v < u)
  BY StepFacts
<1>2. /\ MinSqrtPrice \in Pos /\ MaxSqrtPrice \in Pos /\ sqrtPrices[u] \in MinSqrtPrice .. MaxSqrtPrice
  BY <1>1, LimitPrices
<1>3. IF z THEN sqrtPrices[u] <= k /\ k < p ELSE p <= k /\ k < sqrtPrices[u]
  OBVIOUS
<1> HIDE DEF u, z, p
<1>4. k \in MinSqrtPrice .. MaxSqrtPrice /\ k \in 0 .. MaxSqrtPrice - 1 /\ ~(k < MinSqrtPrice)
  BY <1>1, <1>2, <1>3 DEF Pos
<1>5. y \in TickIndexes /\ sqrtPrices[y] <= k /\ k < sqrtPrices[y + 1]
  BY <1>4, TickOfPrice
<1>6. DepthOf(cfg)[k] = LiquidityAt(y)
  BY <1>4 DEF DepthOf, LiquidityAt
<1> HIDE DEF y
<1>7. /\ y \in Int /\ t \in Int /\ u \in Int /\ y \in D /\ u \in D
      /\ y \in PricedTicks /\ y + 1 \in PricedTicks /\ t \in PricedTicks /\ t + 1 \in PricedTicks
  BY <1>1, <1>5, TicksAreInts DEF PricedTicks
<1>8. /\ sqrtPrices[y] \in Pos /\ sqrtPrices[y + 1] \in Pos /\ sqrtPrices[t] \in Pos /\ sqrtPrices[t + 1] \in Pos
      /\ sqrtPrices[u] \in Pos /\ sqrtPrices[t] <= p /\ p <= sqrtPrices[t + 1] /\ p \in Int
  BY <1>1, <1>2, <1>7, PriceIsPositive DEF Holds, Pos
<1>9. cfg.liquidityNet \in [Initialized -> Int] /\ \A v \in Initialized : v \in Int
  BY <1>1, ConfigFacts, SpanFacts
<1> HIDE DEF D, t
<1>10. CASE z
  <2>1. sqrtPrices[u] < sqrtPrices[y + 1] /\ sqrtPrices[y] < sqrtPrices[t + 1]
    BY <1>3, <1>5, <1>8, <1>10 DEF Pos
  <2>2. u < y + 1 /\ y < t + 1
    BY <1>1, <1>7, <2>1, PriceOrder
  <2>3. u <= y /\ y <= t
    BY <1>7, <2>2
  <2>4. \A v \in TickIndexes : y < v /\ v <= t => netAt(cfg.liquidityNet, v) = 0
    BY <1>1, <1>7, <1>9, <1>10, <2>3 DEF netAt
  <2>5. LiquidityOf(cfg.liquidityNet, y) = LiquidityOf(cfg.liquidityNet, t)
    BY <1>1, <1>7, <1>9, <2>3, <2>4, LiquidityStays DEF D
  <2> QED
    BY <1>1, <1>6, <2>5 DEF LiquidityAt
<1>11. CASE ~z
  <2>1. sqrtPrices[y] < sqrtPrices[u] /\ sqrtPrices[t] < sqrtPrices[y + 1]
    BY <1>3, <1>5, <1>8, <1>11 DEF Pos
  <2>2. y < u /\ t < y + 1
    BY <1>1, <1>7, <2>1, PriceOrder
  <2>3. t <= y
    BY <1>7, <2>2
  <2>4. \A v \in TickIndexes : t < v /\ v <= y => netAt(cfg.liquidityNet, v) = 0
    BY <1>1, <1>7, <1>9, <1>11, <2>2 DEF netAt
  <2>5. LiquidityOf(cfg.liquidityNet, t) = LiquidityOf(cfg.liquidityNet, y)
    BY <1>1, <1>7, <1>9, <2>3, <2>4, LiquidityStays DEF D
  <2> QED
    BY <1>1, <1>6, <2>5 DEF LiquidityAt
<1> QED
  BY <1>10, <1>11

\* Since the trader began at one of the prices pools start from, he has paid for the way
\* to the pool's price; with the quote on its way settled, for that to the walk's price.
PaidSo(c, poolPrice, quoting, walkPrice, won, settled) ==
    \E start \in StartPrices :
        /\ PaidOn(c, start, poolPrice, won)
        /\ quoting => PaidOn(c, start, walkPrice, settled)

SettledNow == AfterTrade(trader, q.amountIn - s.amountRemaining, s.amountOut, q.aToB)

FairInv == PaidSo(cfg, pool.sqrtPrice, Quoting, s.sqrtPrice, trader, SettledNow)

\* Paying further and getting more out adds up.
LEMMA SettledTwice ==
    ASSUME NEW won \in [1 .. 2 -> Int], NEW in0 \in Int, NEW out0 \in Int, NEW in \in Int, NEW out \in Int,
           NEW paid \in Int, in0 + in <= paid, NEW z \in BOOLEAN
    PROVE  LET more == AfterTrade(won, paid, out0 + out, z)
               less == AfterTrade(AfterTrade(won, in0, out0, z), in, out, z)
           IN  /\ more \in [1 .. 2 -> Int] /\ more[1] <= less[1] /\ more[2] <= less[2]
<1>1. won[1] \in Int /\ won[2] \in Int
  OBVIOUS
<1>2. CASE z
  <2>1. AfterTrade(won, paid, out0 + out, z) = <<won[1] - paid, won[2] + (out0 + out)>>
    BY <1>2 DEF AfterTrade
  <2>2. AfterTrade(AfterTrade(won, in0, out0, z), in, out, z) = <<(won[1] - in0) - in, (won[2] + out0) + out>>
    BY <1>2 DEF AfterTrade
  <2>3. /\ won[1] - paid <= (won[1] - in0) - in /\ won[2] + (out0 + out) <= (won[2] + out0) + out
        /\ won[1] - paid \in Int /\ won[2] + (out0 + out) \in Int
    BY <1>1
  <2> QED
    BY <2>1, <2>2, <2>3
<1>3. CASE ~z
  <2>1. AfterTrade(won, paid, out0 + out, z) = <<won[1] + (out0 + out), won[2] - paid>>
    BY <1>3 DEF AfterTrade
  <2>2. AfterTrade(AfterTrade(won, in0, out0, z), in, out, z) = <<(won[1] + out0) + out, (won[2] - in0) - in>>
    BY <1>3 DEF AfterTrade
  <2>3. /\ won[2] - paid <= (won[2] - in0) - in /\ won[1] + (out0 + out) <= (won[1] + out0) + out
        /\ won[2] - paid \in Int /\ won[1] + (out0 + out) \in Int
    BY <1>1
  <2> QED
    BY <2>1, <2>2, <2>3
<1> QED
  BY <1>2, <1>3

LEMMA StartsAreIn ==
    ASSUME NEW a \in StartPrices
    PROVE  a \in MinSqrtPrice .. MaxSqrtPrice /\ a \in 0 .. MaxSqrtPrice
<1>1. a \in MinSqrtPrice .. MaxSqrtPrice
  BY PoolAssumption
<1> QED
  BY <1>1, LimitPrices DEF Pos

\* A step keeps the way paid: it takes and gives what the curve it runs along is worth,
\* rounded against the trader.
LEMMA StepKeepsPaid ==
    ASSUME SwapInv, pc = "step", StepResult.err = "none", NEW a \in StartPrices,
           trader \in [1 .. 2 -> Int],
           PaidOn(cfg, a, s.sqrtPrice, SettledNow)
    PROVE  PaidOn(cfg, a, StepResult.sqrtPrice,
                  AfterTrade(trader, q.amountIn - StepResult.amountRemaining, StepResult.amountOut, q.aToB))
<1> DEFINE z == q.aToB
           k == StepResult
           p == s.sqrtPrice
           m == k.sqrtPrice
           L == s.liquidity
           n == MaxSqrtPrice
           depth == DepthOf(cfg)
           target == sqrtPrices[b.tickIndex]
           low == IF z THEN m ELSE p
           high == IF z THEN p ELSE m
           paid == q.amountIn - k.amountRemaining
<1>1. /\ cfg \in Configs /\ z \in BOOLEAN /\ s \in States /\ p \in MinSqrtPrice .. MaxSqrtPrice
      /\ L \in Nat /\ q.amountIn \in 0 .. MaxU64 /\ target \in Pos
  BY StepFacts DEF SwapInv, Types
<1>2. /\ k \in States /\ m \in MinSqrtPrice .. MaxSqrtPrice
  BY StepLands
<1>3. Ahead(p, m, z) /\ Ahead(m, target, z)
  BY StepLands DEF TradedBy
<1>4. PICK in \in Nat, out \in Nat :
          /\ Traded(L, Q64, p, m, in, out, z)
          /\ k.amountRemaining <= s.amountRemaining - in
          /\ k.amountOut = s.amountOut + out
  BY StepLands DEF TradedBy
<1>5. /\ depth \in [0 .. n - 1 -> Nat] /\ n \in Nat /\ Q64 \in Pos /\ a \in 0 .. n
      /\ p \in 1 .. n /\ m \in 1 .. n /\ m \in 0 .. n /\ p \in Int /\ m \in Int
  <2> HIDE DEF n, depth, m, p
  <2> QED
    BY <1>1, <1>2, DepthIsNat, StartsAreIn DEF n, depth
<1> HIDE DEF k
<1>6. \A x \in low .. high - 1 : depth[x] = L
  <2> SUFFICES ASSUME NEW x \in low .. high - 1 PROVE depth[x] = L
    OBVIOUS
  <2>1. x \in Int /\ IF z THEN target <= x /\ x < p ELSE p <= x /\ x < target
    <3> HIDE DEF p, m, z, target
    <3>1. low \in Int /\ high \in Int /\ x \in Int /\ low <= x /\ x < high
      BY <1>5
    <3> QED
      BY <1>1, <1>3, <3>1 DEF Ahead, Pos
  <2> QED
    BY <2>1, DepthOnTheWay
<1>7. PaidTheWay(depth, n, Q64, a, m, AfterTrade(SettledNow, in, out, z))
  <2>1. PaidTheWay(depth, n, Q64, a, p, SettledNow)
    BY DEF PaidOn
  <2>2. IF z THEN m <= p ELSE p <= m
    BY <1>3 DEF Ahead
  <2> HIDE DEF depth, n, m, p, L, z
  <2> QED
    BY <1>1, <1>4, <1>5, <1>6, <2>1, <2>2, StepPaysTheWay
<1>8. LET more == AfterTrade(trader, paid, k.amountOut, z)
          less == AfterTrade(SettledNow, in, out, z)
      IN  more \in [1 .. 2 -> Int] /\ more[1] <= less[1] /\ more[2] <= less[2]
  <2> DEFINE in0 == q.amountIn - s.amountRemaining
             out0 == s.amountOut
  <2>1. /\ in0 \in Int /\ out0 \in Int /\ paid \in Int /\ in \in Int /\ out \in Int /\ in0 + in <= paid
        /\ k.amountOut = out0 + out
    <3>1. /\ k.amountRemaining \in Int /\ s.amountRemaining \in Int /\ s.amountOut \in Int
          /\ q.amountIn \in Int
      BY <1>1, <1>2, StateAmounts
    <3>2. k.amountRemaining <= s.amountRemaining - in /\ k.amountOut = s.amountOut + out
      BY <1>4
    <3> HIDE DEF L, z, p, m
    <3> QED
      BY <3>1, <3>2
  <2>2. SettledNow = AfterTrade(trader, in0, out0, z)
    BY DEF SettledNow
  <2> HIDE DEF in0, out0, paid, z
  <2>3. LET more == AfterTrade(trader, paid, out0 + out, z)
            less == AfterTrade(AfterTrade(trader, in0, out0, z), in, out, z)
        IN  more \in [1 .. 2 -> Int] /\ more[1] <= less[1] /\ more[2] <= less[2]
    BY <1>1, <2>1, SettledTwice
  <2> QED
    BY <2>1, <2>2, <2>3
<1>9. PaidTheWay(depth, n, Q64, a, m, AfterTrade(trader, paid, k.amountOut, z))
  <2>1. m \in 0 .. n
    BY <1>5
  <2> DEFINE more == AfterTrade(trader, paid, k.amountOut, z)
             less == AfterTrade(SettledNow, in, out, z)
  <2>2. more \in [1 .. 2 -> Int] /\ more[1] <= less[1] /\ more[2] <= less[2]
    BY <1>8
  <2>3. PaidTheWay(depth, n, Q64, a, m, less)
    BY <1>7
  <2> HIDE DEF depth, n, m, more, less
  <2>4. PaidTheWay(depth, n, Q64, a, m, more)
    BY <1>5, <2>1, <2>2, <2>3, MoreIsPaid
  <2> QED
    BY <2>4 DEF more
<1> QED
  BY <1>9 DEF PaidOn, k

LEMMA NothingPaid ==
    ASSUME cfg \in Configs, NEW a \in StartPrices
    PROVE  PaidOn(cfg, a, a, <<0, 0>>)
<1>1. DepthOf(cfg) \in [0 .. MaxSqrtPrice - 1 -> Nat] /\ MaxSqrtPrice \in Nat /\ Q64 \in Pos
      /\ a \in 0 .. MaxSqrtPrice
  BY DepthIsNat, StartsAreIn
<1> DEFINE y == yWorth(DepthOf(cfg), MaxSqrtPrice)[a]
           x == xWorth(DepthOf(cfg), MaxSqrtPrice)[a]
<1>2. x \in Int /\ y \in Int /\ common(MaxSqrtPrice) \in Pos
  BY <1>1, WorthsAreInts, InversesFall
<1> HIDE DEF x, y
<1>3. x - x = 0 /\ y - y = 0 /\ Q64 * 0 = 0 /\ common(MaxSqrtPrice) * 0 = 0
  BY <1>1, <1>2 DEF Pos
<1>4. /\ <<0, 0>> \in [1 .. 2 -> Int]
      /\ Q64 * 0 <= y - y /\ common(MaxSqrtPrice) * 0 <= Q64 * (x - x)
  BY <1>3
<1> QED
  BY <1>4 DEF PaidOn, PaidTheWay, x, y

LEMMA FairAtFirst ==
    Init => FairInv
<1> SUFFICES ASSUME Init
             PROVE  FairInv
  OBVIOUS
<1>1. cfg \in Configs /\ trader = <<0, 0>> /\ ~Quoting
  BY DEF Init, Quoting
<1>2. PICK p \in StartPrices : pool.sqrtPrice = p
  BY DEF Init
<1>3. PaidOn(cfg, p, pool.sqrtPrice, trader)
  BY <1>1, <1>2, NothingPaid
<1> QED
  BY <1>1, <1>3 DEF FairInv, PaidSo

\* Settling nothing changes nothing.
LEMMA SettledNothing ==
    ASSUME NEW won \in [1 .. 2 -> Int], NEW z \in BOOLEAN
    PROVE  AfterTrade(won, 0, 0, z) = won
<1>1. won[1] \in Int /\ won[2] \in Int /\ won = <<won[1], won[2]>>
  OBVIOUS
<1>2. AfterTrade(won, 0, 0, z) = <<won[1], won[2]>>
  <2>1. won[1] - 0 = won[1] /\ won[1] + 0 = won[1] /\ won[2] - 0 = won[2] /\ won[2] + 0 = won[2]
    BY <1>1
  <2> QED
    BY <2>1 DEF AfterTrade
<1> QED
  BY <1>1, <1>2

\* No step of a quote or of the pool gives the trader more than he paid for.
LEMMA FairKeeps ==
    ASSUME SwapInv, FairInv, [Next]_vars
    PROVE  FairInv'
<1>1. PICK a \in StartPrices :
          /\ PaidOn(cfg, a, pool.sqrtPrice, trader)
          /\ Quoting => PaidOn(cfg, a, s.sqrtPrice, SettledNow)
  BY DEF FairInv, PaidSo
<1>2. trader \in [1 .. 2 -> Int]
  BY <1>1 DEF PaidOn, PaidTheWay
<1>3. cfg \in Configs /\ q.aToB \in BOOLEAN /\ q.amountIn \in 0 .. MaxU64 /\ s \in States
  BY DEF SwapInv, Types
<1>4. ASSUME NEW z \in BOOLEAN, NEW amount \in Amounts, NEW lag \in Lags, QuoteExactIn(z, amount, lag)
      PROVE  FairInv'
  <2>1. pc = "idle" /\ cfg' = cfg /\ pool' = pool /\ trader' = trader
    BY <1>4 DEF QuoteExactIn
  <2>2. CASE pc' = "refused"
    <3>1. ~Quoting'
      BY <2>2 DEF Quoting
    <3> QED
      BY <1>1, <2>1, <3>1 DEF FairInv, PaidSo
  <2>3. CASE pc' # "refused"
    <3> DEFINE timestamp == bigMax(now - lag, 0)
    <3>1. s' = newState(amount, timestamp) /\ q' = [aToB |-> z, amountIn |-> amount, timestamp |-> timestamp]
      BY <1>4, <2>3 DEF QuoteExactIn
    <3>2. newState(amount, timestamp).sqrtPrice = pool.sqrtPrice
          /\ newState(amount, timestamp).amountRemaining = amount
          /\ newState(amount, timestamp).amountOut = 0
      BY DEF newState, NoState
    <3> HIDE DEF timestamp
    <3>3. s'.sqrtPrice = pool.sqrtPrice /\ s'.amountRemaining = amount /\ s'.amountOut = 0
          /\ q'.amountIn = amount /\ q'.aToB = z
      BY <3>1, <3>2
    <3>4. amount - amount = 0
      BY PoolAssumption
    <3>5. SettledNow' = trader
      BY <1>2, <2>1, <3>3, <3>4, SettledNothing DEF SettledNow
    <3>6. PaidOn(cfg, a, pool.sqrtPrice, trader)
      BY <1>1
    <3> QED
      BY <2>1, <3>3, <3>5, <3>6 DEF FairInv, PaidSo
  <2> QED
    BY <2>2, <2>3
<1>5. CASE NextBoundary \/ LoadFails \/ EndOfWalk \/ TimePasses \/ UNCHANGED vars
  <2>1. /\ cfg' = cfg /\ pool' = pool /\ trader' = trader /\ s' = s /\ q' = q
        /\ Quoting' => Quoting
    BY <1>5 DEF NextBoundary, LoadFails, EndOfWalk, TimePasses, vars, quoteVars, Quoting
  <2>2. SettledNow' = SettledNow
    BY <2>1 DEF SettledNow
  <2> QED
    BY <1>1, <2>1, <2>2 DEF FairInv, PaidSo
<1>6. CASE SwapStep
  <2>1. /\ pc = "step" /\ cfg' = cfg /\ pool' = pool /\ trader' = trader /\ q' = q
        /\ s' = StepResult /\ (s'.err # "none" => pc' = "failed")
    BY <1>6, Zenon DEF SwapStep, StepResult
  <2>2. CASE s'.err # "none"
    <3>1. ~Quoting'
      BY <2>1, <2>2 DEF Quoting
    <3> QED
      BY <1>1, <2>1, <3>1 DEF FairInv, PaidSo
  <2>3. CASE s'.err = "none"
    <3>1. PaidOn(cfg, a, s.sqrtPrice, SettledNow)
      BY <1>1, <2>1 DEF Quoting
    <3>2. PaidOn(cfg, a, StepResult.sqrtPrice,
                 AfterTrade(trader, q.amountIn - StepResult.amountRemaining, StepResult.amountOut, q.aToB))
      BY <1>2, <2>1, <2>3, <3>1, StepKeepsPaid
    <3>3. SettledNow' = AfterTrade(trader, q.amountIn - StepResult.amountRemaining, StepResult.amountOut, q.aToB)
      BY <2>1 DEF SettledNow
    <3>4. PaidOn(cfg, a, s'.sqrtPrice, SettledNow')
      BY <2>1, <3>2, <3>3
    <3>5. PaidOn(cfg, a, pool.sqrtPrice, trader)
      BY <1>1
    <3> QED
      BY <2>1, <3>4, <3>5 DEF FairInv, PaidSo
  <2> QED
    BY <2>2, <2>3
<1>7. CASE Forget
  <2>1. cfg' = cfg /\ pool' = pool /\ trader' = trader /\ pc' = "idle"
    BY <1>7 DEF Forget, Reset
  <2>2. ~Quoting'
    BY <2>1 DEF Quoting
  <2> QED
    BY <1>1, <2>1, <2>2 DEF FairInv, PaidSo
<1>8. CASE SwapLands
  <2>1. /\ pc = "done" /\ s.amountRemaining = 0 /\ cfg' = cfg /\ pool'.sqrtPrice = s.sqrtPrice
        /\ trader' = IF q.aToB THEN <<trader[1] - q.amountIn, trader[2] + s.amountOut>>
                               ELSE <<trader[1] + s.amountOut, trader[2] - q.amountIn>>
        /\ pc' = "idle"
    BY <1>8 DEF SwapLands, Reset
  <2>2. q.amountIn - s.amountRemaining = q.amountIn
    BY <1>3, <2>1, TicksAreInts
  <2>3. trader' = SettledNow
    BY <2>1, <2>2 DEF SettledNow, AfterTrade
  <2>4. PaidOn(cfg, a, s.sqrtPrice, SettledNow) /\ ~Quoting'
    BY <1>1, <2>1 DEF Quoting
  <2> QED
    BY <2>1, <2>3, <2>4 DEF FairInv, PaidSo
<1> QED
  BY <1>4, <1>5, <1>6, <1>7, <1>8 DEF Next, QuoteStep

LEMMA FairIsEnough ==
    SwapInv /\ FairInv => TraderNeverProfits
<1> SUFFICES ASSUME SwapInv, FairInv, trader[1] >= 0, trader[2] >= 0
             PROVE  trader = <<0, 0>>
  BY DEF TraderNeverProfits
<1>1. PICK a \in StartPrices : PaidOn(cfg, a, pool.sqrtPrice, trader)
  BY DEF FairInv, PaidSo
<1>2. /\ cfg \in Configs /\ pool.sqrtPrice \in MinSqrtPrice .. MaxSqrtPrice
      /\ trader \in [1 .. 2 -> Int]
  BY <1>1 DEF SwapInv, Types, PaidOn, PaidTheWay
<1> DEFINE depth == DepthOf(cfg)
           n == MaxSqrtPrice
           p == pool.sqrtPrice
<1>3. depth \in [0 .. n - 1 -> Nat] /\ n \in Nat /\ Q64 \in Pos /\ a \in 1 .. n /\ p \in 1 .. n
  BY <1>2, DepthIsNat, StartsAreIn
<1>4. PaidTheWay(depth, n, Q64, a, p, trader)
  BY <1>1 DEF PaidOn
<1> HIDE DEF depth, n, p
<1>5. trader[1] = 0 /\ trader[2] = 0
  BY <1>3, <1>4, PaidTheWayWinsNothing
<1> QED
  BY <1>2, <1>5

\* No sequence of quoted swaps that land, in either direction, across initialized ticks,
\* tick groups and tick arrays, leaves a trader with more of one token and no less of the
\* other (computeSwapStep, swap_quote.go, and the roundings of curve_math.go).
THEOREM TradersNeverProfit ==
    Spec => []TraderNeverProfits
<1>1. Init => FairInv
  BY FairAtFirst
<1>2. SwapInv /\ FairInv /\ [Next]_vars => FairInv'
  BY FairKeeps
<1>3. SwapInv /\ FairInv => TraderNeverProfits
  BY FairIsEnough
<1> QED
  BY <1>1, <1>2, <1>3, SwapInvariant, PTL DEF Spec

=============================================================================
