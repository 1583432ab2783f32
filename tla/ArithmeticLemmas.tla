--------------------------- MODULE ArithmeticLemmas ---------------------------
(***************************************************************************)
(* The arithmetic every quote is built from: a quotient rounded down is    *)
(* the greatest, and one rounded up the least, on its side of the exact    *)
(* one.  The solver gets one product at a time.  The loops of the code are *)
(* recursive functions; induction over a set of naturals, from their       *)
(* well-ordering, says what those compute.                                 *)
(***************************************************************************)
EXTENDS Integers, WellFoundedInduction, TLAPS

Pos == Nat \ {0}

\* A product is a natural number when its factors are.
LEMMA MulIsNat ==
    ASSUME NEW a \in Nat, NEW b \in Nat
    PROVE  a * b \in Nat /\ a * b = b * a
OBVIOUS

LEMMA MulMonotone ==
    ASSUME NEW a \in Int, NEW b \in Int, NEW d \in Nat, a <= b
    PROVE  a * d <= b * d
OBVIOUS

LEMMA MulStrict ==
    ASSUME NEW a \in Int, NEW b \in Int, NEW d \in Pos, a < b
    PROVE  a * d < b * d
BY DEF Pos

LEMMA DivFacts ==
    ASSUME NEW n \in Nat, NEW d \in Pos
    PROVE  /\ n \div d \in Nat
           /\ n % d \in 0 .. d - 1
           /\ n = d * (n \div d) + (n % d)
BY DEF Pos

\* The floor is the greatest quotient: m * d <= n exactly when m <= n \div d.
LEMMA FloorIsGreatest ==
    ASSUME NEW n \in Nat, NEW d \in Pos, NEW m \in Nat
    PROVE  m * d <= n <=> m <= n \div d
<1> DEFINE k == n \div d
<1>1. k \in Nat /\ n >= d * k /\ n < d * k + d
  BY DivFacts DEF Pos
<1>2. d * k = k * d /\ (k + 1) * d = d * k + d
  BY <1>1 DEF Pos
<1>3. ASSUME m <= k PROVE m * d <= n
  <2>1. m * d <= k * d
    BY <1>1, <1>3, MulMonotone DEF Pos
  <2> QED
    BY <2>1, <1>1, <1>2 DEF Pos
<1>4. ASSUME m > k PROVE m * d > n
  <2>1. (k + 1) * d <= m * d
    BY <1>1, <1>4, MulMonotone DEF Pos
  <2> QED
    BY <2>1, <1>1, <1>2 DEF Pos
<1> QED
  BY <1>1, <1>3, <1>4 DEF Pos

\* The quotient of n + d - 1 is the least that covers n: n <= m * d exactly when it is
\* at most m.
LEMMA CeilingIsLeast ==
    ASSUME NEW n \in Nat, NEW d \in Pos, NEW m \in Nat
    PROVE  /\ (n + d - 1) \div d \in Nat
           /\ n <= m * d <=> (n + d - 1) \div d <= m
<1>1. n + d - 1 \in Nat /\ m + 1 \in Nat
  BY DEF Pos
<1>2. (n + d - 1) \div d \in Nat
  BY <1>1, DivFacts
<1>3. (m + 1) * d <= n + d - 1 <=> m + 1 <= (n + d - 1) \div d
  BY <1>1, FloorIsGreatest
<1>4. (m + 1) * d = m * d + d /\ m * d \in Nat
  BY DEF Pos
<1> QED
  BY <1>2, <1>3, <1>4 DEF Pos

\* So is the floor, raised by one where the division leaves a remainder.
LEMMA RoundedUpIsLeast ==
    ASSUME NEW n \in Nat, NEW d \in Pos, NEW m \in Nat
    PROVE  LET c == (n \div d) + (IF n % d = 0 THEN 0 ELSE 1)
           IN  c \in Nat /\ (n <= m * d <=> c <= m)
<1> DEFINE k == n \div d
           r == n % d
<1> SUFFICES LET c == k + (IF r = 0 THEN 0 ELSE 1) IN c \in Nat /\ (n <= m * d <=> c <= m)
  OBVIOUS
<1>1. k \in Nat /\ r \in 0 .. d - 1 /\ n = d * k + r
  BY DivFacts
<1> HIDE DEF k, r
<1>3. (k + 1) * d = d * k + d /\ k * d = d * k
  BY <1>1 DEF Pos
<1>4. CASE r = 0
  <2>1. ASSUME k <= m PROVE n <= m * d
    <3>1. k * d <= m * d
      BY <1>1, <2>1, MulMonotone DEF Pos
    <3> QED
      BY <3>1, <1>1, <1>3, <1>4 DEF Pos
  <2>2. ASSUME m < k PROVE m * d < n
    <3>1. m * d < k * d
      BY <1>1, <2>2, MulStrict
    <3> QED
      BY <3>1, <1>1, <1>3, <1>4 DEF Pos
  <2> QED
    BY <2>1, <2>2, <1>1, <1>4 DEF Pos
<1>5. CASE r # 0
  <2>1. ASSUME k + 1 <= m PROVE n <= m * d
    <3>1. (k + 1) * d <= m * d
      BY <1>1, <2>1, MulMonotone DEF Pos
    <3> QED
      BY <3>1, <1>1, <1>3 DEF Pos
  <2>2. ASSUME m <= k PROVE m * d < n
    <3>1. m * d <= k * d
      BY <1>1, <2>2, MulMonotone DEF Pos
    <3> QED
      BY <3>1, <1>1, <1>3, <1>5 DEF Pos
  <2> QED
    BY <2>1, <2>2, <1>1, <1>5 DEF Pos
<1> QED
  BY <1>4, <1>5

\* Go's division truncates; lowered by one below zero when it is not exact, it is the floor.
LEMMA CorrectedTruncation ==
    ASSUME NEW b \in Int, NEW M \in Pos
    PROVE  LET n == IF b >= 0 THEN b \div M
                    ELSE IF b % M # 0 THEN -((-b) \div M) - 1 ELSE -((-b) \div M)
           IN  n \in Int /\ n * M <= b /\ b < (n + 1) * M
<1> DEFINE n == IF b >= 0 THEN b \div M
                ELSE IF b % M # 0 THEN -((-b) \div M) - 1 ELSE -((-b) \div M)
<1> SUFFICES n \in Int /\ n * M <= b /\ b < (n + 1) * M
  OBVIOUS
<1>1. CASE b >= 0
  <2>1. n = b \div M
    BY <1>1
  <2>2. b \div M \in Nat /\ b % M \in 0 .. M - 1 /\ b = M * (b \div M) + (b % M)
    BY <1>1, DivFacts
  <2> HIDE DEF n
  <2>3. n * M = M * n /\ (n + 1) * M = M * n + M
    BY <2>1, <2>2 DEF Pos
  <2> QED
    BY <2>1, <2>2, <2>3 DEF Pos
<1>2. CASE b < 0
  <2> DEFINE k == (-b) \div M
             r == (-b) % M
             j == b \div M
             t == b % M
  <2>1. k \in Nat /\ r \in 0 .. M - 1 /\ -b = M * k + r
    <3>1. -b \in Nat
      BY <1>2
    <3> QED
      BY <3>1, DivFacts
  <2>2. j \in Int /\ t \in 0 .. M - 1 /\ b = M * j + t
    BY DEF Pos
  <2>3. n = IF t # 0 THEN -k - 1 ELSE -k
    BY <1>2, <2>1
  <2> HIDE DEF n, k, r, j, t
  <2>4. t # 0 <=> r # 0
    <3>1. M * (j + k) = -(r + t)
      <4>1. M * (j + k) = M * j + M * k /\ M * j \in Int /\ M * k \in Int
        BY <2>1, <2>2 DEF Pos
      <4> QED
        BY <4>1, <2>1, <2>2 DEF Pos
    <3>2. j + k \in Int /\ M * (j + k) = (j + k) * M
      BY <2>1, <2>2 DEF Pos
    <3>3. CASE j + k >= 1
      <4>1. 1 * M <= (j + k) * M
        BY <3>2, <3>3, MulMonotone DEF Pos
      <4> QED
        BY <4>1, <3>1, <3>2, <2>1, <2>2 DEF Pos
    <3>4. CASE j + k <= -2
      <4>1. (j + k) * M <= (-2) * M
        BY <3>2, <3>4, MulMonotone DEF Pos
      <4> QED
        BY <4>1, <3>1, <3>2, <2>1, <2>2 DEF Pos
    <3>5. CASE j + k = 0
      BY <3>5, <3>1, <2>1, <2>2 DEF Pos
    <3>6. CASE j + k = -1
      BY <3>6, <3>1, <2>1, <2>2 DEF Pos
    <3> QED
      BY <3>2, <3>3, <3>4, <3>5, <3>6
  <2>5. /\ (-k) * M = -(M * k) /\ (-k + 1) * M = -(M * k) + M
        /\ (-k - 1) * M = -(M * k) - M /\ M * k \in Nat
    BY <2>1 DEF Pos
  <2>6. CASE r = 0
    <3>1. n = -k
      BY <2>3, <2>4, <2>6
    <3> QED
      BY <3>1, <2>6, <2>1, <2>5 DEF Pos
  <2>7. CASE r # 0
    <3>1. n = -k - 1 /\ n + 1 = -k
      BY <2>1, <2>3, <2>4, <2>7
    <3> QED
      BY <3>1, <2>7, <2>1, <2>5 DEF Pos
  <2> QED
    BY <2>6, <2>7
<1> QED
  BY <1>1, <1>2

-----------------------------------------------------------------------------

\* A set of natural numbers that is not empty has a least member.
LEMMA LeastNatural ==
    ASSUME NEW T \in SUBSET Nat, T # {}
    PROVE  \E n \in T : \A m \in T : n <= m
<1> DEFINE R == OpToRel(<, Nat)
<1>1. IsWellFoundedOn(R, Nat)
  BY NatLessThanWellFounded
<1>2. ASSUME NEW x \in Nat, NEW y \in Nat, x < y
      PROVE  <<x, y>> \in R
  BY <1>2 DEF OpToRel
<1> HIDE DEF R
<1>3. PICK x \in T : \A y \in T : ~(<<y, x>> \in R)
  BY <1>1, WFMin, Zenon
<1>4. ASSUME NEW y \in T
      PROVE  x <= y
  <2>1. ~(y < x)
    BY <1>2, <1>3, <1>4
  <2> QED
    BY <2>1
<1> QED
  BY <1>4

\* A set that has 0, and n + 1 with every n below a bound, has all up to the bound.
LEMMA Induction ==
    ASSUME NEW S, NEW bound \in Nat, 0 \in S,
           \A n \in 0 .. bound - 1 : n \in S => n + 1 \in S
    PROVE  0 .. bound \subseteq S
<1> SUFFICES ASSUME (0 .. bound) \ S # {} PROVE FALSE
  OBVIOUS
<1>1. PICK n \in (0 .. bound) \ S : \A m \in (0 .. bound) \ S : n <= m
  <2>1. (0 .. bound) \ S \in SUBSET Nat
    OBVIOUS
  <2> QED
    BY <2>1, LeastNatural, Zenon
<1>2. n # 0
  OBVIOUS
<1>3. n - 1 \in 0 .. bound - 1 /\ n - 1 \in S
  BY <1>1, <1>2
<1>4. n - 1 + 1 \in S
  BY <1>3
<1>5. n - 1 + 1 = n
  OBVIOUS
<1> QED
  BY <1>4, <1>5

\* The values g a loop goes through: step[k][v] is the value after turn k, from the
\* value v before it.
Trace(g, V, start, n, step) ==
    /\ g \in [0 .. n -> V]
    /\ g[0] = start
    /\ \A k \in 1 .. n : g[k] = step[k][g[k - 1]]

\* A loop that keeps its value in V computes something.
LEMMA LoopHasTrace ==
    ASSUME NEW V, NEW start \in V, NEW bound \in Nat, NEW step \in [1 .. bound -> [V -> V]]
    PROVE  \E g : Trace(g, V, start, bound, step)
<1> DEFINE S == {n \in 0 .. bound : \E g : Trace(g, V, start, n, step)}
<1>1. 0 \in S
  <2>1. Trace([k \in 0 .. 0 |-> start], V, start, 0, step)
    BY DEF Trace
  <2>2. 0 \in 0 .. bound
    OBVIOUS
  <2> QED
    BY <2>1, <2>2, Zenon
<1>2. ASSUME NEW n \in 0 .. bound - 1, n \in S
      PROVE  n + 1 \in S
  <2>1. PICK g : Trace(g, V, start, n, step)
    BY <1>2
  <2> DEFINE h == [k \in 0 .. n + 1 |-> IF k <= n THEN g[k] ELSE step[n + 1][g[n]]]
  <2>2. g[n] \in V /\ n + 1 \in 1 .. bound
    BY <1>2, <2>1 DEF Trace
  <2>3. step[n + 1][g[n]] \in V
    BY <2>2
  <2>4. h \in [0 .. n + 1 -> V]
    BY <2>1, <2>3 DEF Trace
  <2>5. Trace(h, V, start, n + 1, step)
    <3>1. h[0] = start
      BY <2>1 DEF Trace
    <3>2. ASSUME NEW k \in 1 .. n + 1
          PROVE  h[k] = step[k][h[k - 1]]
      <4>1. CASE k <= n
        BY <2>1, <4>1 DEF Trace
      <4>2. CASE k = n + 1
        <5>1. h[k] = step[n + 1][g[n]] /\ h[k - 1] = g[n]
          BY <4>2
        <5> QED
          BY <4>2, <5>1
      <4> QED
        BY <4>1, <4>2
    <3> HIDE DEF h
    <3> QED
      BY <2>4, <3>1, <3>2 DEF Trace
  <2>6. n + 1 \in 0 .. bound
    BY <1>2
  <2> HIDE DEF h
  <2> QED
    BY <2>5, <2>6, Zenon
<1> HIDE DEF S
<1>3. 0 .. bound \subseteq S
  BY <1>1, <1>2, Induction
<1>4. bound \in S
  BY <1>3
<1> QED
  BY <1>4 DEF S

-----------------------------------------------------------------------------
\* Sums of a function

\* t[k] is the sum of f over the numbers below k.
IsSum(t, f, n) ==
    /\ t \in [0 .. n -> Int] /\ t[0] = 0
    /\ \A k \in 0 .. n - 1 : t[k + 1] = t[k] + f[k]

sumTable(f, n) == CHOOSE t : IsSum(t, f, n)

LEMMA SumIsTabled ==
    ASSUME NEW n \in Nat, NEW f \in [0 .. n - 1 -> Int]
    PROVE  IsSum(sumTable(f, n), f, n)
<1> DEFINE step == [k \in 1 .. n |-> [v \in Int |-> v + f[k - 1]]]
<1>1. step \in [1 .. n -> [Int -> Int]]
  <2>1. \A k \in 1 .. n : k - 1 \in 0 .. n - 1
    OBVIOUS
  <2>2. \A k \in 1 .. n : f[k - 1] \in Int
    BY <2>1
  <2> QED
    BY <2>2
<1>2. PICK g : Trace(g, Int, 0, n, step)
  <2> HIDE DEF step
  <2> QED
    BY <1>1, 0 \in Int, LoopHasTrace, Zenon
<1>3. ASSUME NEW k \in 0 .. n - 1 PROVE g[k + 1] = g[k] + f[k]
  <2>1. k + 1 \in 1 .. n /\ (k + 1) - 1 = k /\ k \in 0 .. n
    OBVIOUS
  <2>2. g[k + 1] = step[k + 1][g[k]]
    <3> HIDE DEF step
    <3> QED
      BY <1>2, <2>1 DEF Trace
  <2>3. g[k] \in Int
    BY <1>2, <2>1 DEF Trace
  <2> QED
    BY <2>1, <2>2, <2>3
<1>4. IsSum(g, f, n)
  BY <1>2, <1>3 DEF IsSum, Trace
<1> QED
  BY <1>4 DEF sumTable

\* What holds at i and carries on to the next number holds up to j.
LEMMA CarriesOn ==
    ASSUME NEW S, NEW i \in Nat, NEW j \in Nat, i <= j, i \in S,
           \A k \in i .. j - 1 : k \in S => k + 1 \in S
    PROVE  j \in S
<1> DEFINE T == {k \in 0 .. j - i : i + k \in S}
<1>1. j - i \in Nat /\ 0 \in T
  OBVIOUS
<1>2. ASSUME NEW k \in 0 .. (j - i) - 1, k \in T PROVE k + 1 \in T
  <2>1. i + k \in i .. j - 1 /\ i + k \in S /\ (i + k) + 1 = i + (k + 1) /\ k + 1 \in 0 .. j - i
    BY <1>2
  <2> QED
    BY <2>1
<1> HIDE DEF T
<1>3. 0 .. j - i \subseteq T
  BY <1>1, <1>2, Induction
<1>4. j - i \in T /\ i + (j - i) = j
  BY <1>1, <1>3
<1> QED
  BY <1>4 DEF T

LEMMA NextDifference ==
    ASSUME NEW r \in Int, NEW u \in Int, NEW A \in Int, NEW B \in Int, r - u = A
    PROVE  (r + B) - u = A + B
OBVIOUS

\* Between i and j each summand is c times a step of h.
FollowsSteps(f, c, h, i, j) == \A k \in i .. j - 1 : f[k] = c * (h[k] - h[k + 1])

GrowsAs(t, c, h, i, j) == t[j] - t[i] = c * (h[i] - h[j])

\* There the sum grows by c times what h falls by.
LEMMA SumFollows ==
    ASSUME NEW n \in Nat, NEW f \in [0 .. n - 1 -> Int], NEW t, IsSum(t, f, n),
           NEW i \in 0 .. n, NEW j \in 0 .. n, i <= j, NEW c \in Int, NEW h \in [0 .. n -> Int],
           FollowsSteps(f, c, h, i, j)
    PROVE  GrowsAs(t, c, h, i, j)
<1> DEFINE S == {k \in i .. j : t[k] - t[i] = c * (h[i] - h[k])}
<1>1. \A k \in 0 .. n : t[k] \in Int /\ h[k] \in Int
  BY DEF IsSum
<1>2. i \in S
  <2>1. c * (h[i] - h[i]) = 0
    BY <1>1
  <2> QED
    BY <1>1, <2>1
<1>3. ASSUME NEW k \in i .. j - 1, k \in S PROVE k + 1 \in S
  <2>1. k \in 0 .. n - 1 /\ k \in 0 .. n /\ k + 1 \in 0 .. n /\ k + 1 \in i .. j
    OBVIOUS
  <2>2. t[k + 1] = t[k] + f[k] /\ f[k] = c * (h[k] - h[k + 1]) /\ t[k] - t[i] = c * (h[i] - h[k])
    BY <1>3, <2>1 DEF IsSum, FollowsSteps
  <2> DEFINE x == h[i]
             y == h[k]
             z == h[k + 1]
  <2>3. /\ x \in Int /\ y \in Int /\ z \in Int /\ t[k] \in Int /\ t[i] \in Int
        /\ f[k] = c * (y - z) /\ t[k] - t[i] = c * (x - y)
    BY <1>1, <2>1, <2>2
  <2> HIDE DEF x, y, z
  <2>4. c * (x - y) + c * (y - z) = c * (x - z) /\ c * (x - y) \in Int /\ c * (y - z) \in Int
    BY <2>3
  <2>5. t[k + 1] = t[k] + f[k]
    BY <2>2
  <2> DEFINE A == c * (x - y)
             B == c * (y - z)
             r == t[k]
             u == t[i]
  <2>6. c * (x - z) = A + B /\ t[k + 1] = r + B
    BY <2>3, <2>4, <2>5, Zenon
  <2>7. r \in Int /\ u \in Int /\ A \in Int /\ B \in Int /\ r - u = A
    BY <2>3, <2>4, Zenon
  <2> HIDE DEF A, B, r, u
  <2>8. (r + B) - u = A + B
    BY <2>7, NextDifference
  <2>9. t[k + 1] - t[i] = c * (x - z)
    BY <2>6, <2>8, Zenon DEF u
  <2> QED
    BY <2>1, <2>9 DEF x, z
<1> HIDE DEF S
<1>4. j \in S
  BY <1>2, <1>3, CarriesOn
<1> QED
  BY <1>4 DEF S, GrowsAs

\* Where a function is at least zero its sum never falls; where it is at most zero the sum never rises.
LEMMA SumGoesOneWay ==
    ASSUME NEW n \in Nat, NEW f \in [0 .. n - 1 -> Int], NEW t, IsSum(t, f, n),
           NEW i \in 0 .. n, NEW j \in 0 .. n, i <= j
    PROVE  /\ t[i] \in Int /\ t[j] \in Int
           /\ (\A k \in i .. j - 1 : 0 <= f[k]) => t[i] <= t[j]
           /\ (\A k \in i .. j - 1 : f[k] <= 0) => t[j] <= t[i]
<1> DEFINE up   == {k \in i .. j : t[i] <= t[k]}
           down == {k \in i .. j : t[k] <= t[i]}
<1>1. \A k \in 0 .. n : t[k] \in Int
  BY DEF IsSum
<1>2. i \in up /\ i \in down
  BY <1>1
<1>3. ASSUME NEW k \in i .. j - 1
      PROVE  /\ 0 <= f[k] /\ k \in up => k + 1 \in up
             /\ f[k] <= 0 /\ k \in down => k + 1 \in down
  <2>1. k \in 0 .. n - 1 /\ k \in 0 .. n /\ k + 1 \in 0 .. n /\ k + 1 \in i .. j /\ k \in i .. j
    OBVIOUS
  <2>2. t[k + 1] = t[k] + f[k] /\ f[k] \in Int
    BY <2>1 DEF IsSum
  <2>3. t[i] \in Int /\ t[k] \in Int /\ t[k + 1] \in Int
    BY <1>1, <2>1
  <2> QED
    BY <2>1, <2>2, <2>3
<1> HIDE DEF up, down
<1>4. ASSUME \A k \in i .. j - 1 : 0 <= f[k] PROVE j \in up
  BY <1>2, <1>3, <1>4, CarriesOn
<1>5. ASSUME \A k \in i .. j - 1 : f[k] <= 0 PROVE j \in down
  BY <1>2, <1>3, <1>5, CarriesOn
<1> QED
  BY <1>1, <1>4, <1>5 DEF up, down

-----------------------------------------------------------------------------
\* A common multiple

IsCommon(d, n) == d \in Pos /\ \A k \in 1 .. n : \E m \in Pos : d = m * k

common(n) == CHOOSE d : IsCommon(d, n)

LEMMA CommonExists ==
    ASSUME NEW n \in Nat
    PROVE  IsCommon(common(n), n)
<1> DEFINE S == {k \in 0 .. n : \E d : IsCommon(d, k)}
<1>1. 0 \in S
  <2>1. IsCommon(1, 0)
    BY DEF IsCommon, Pos
  <2> QED
    BY <2>1
<1>2. ASSUME NEW k \in 0 .. n - 1, k \in S PROVE k + 1 \in S
  <2>1. PICK d : IsCommon(d, k)
    BY <1>2
  <2> DEFINE e == d * (k + 1)
  <2>2. d \in Pos /\ k + 1 \in Pos /\ e \in Pos
    BY <2>1 DEF IsCommon, Pos
  <2>3. ASSUME NEW i \in 1 .. k + 1 PROVE \E m \in Pos : e = m * i
    <3>1. CASE i = k + 1
      BY <2>2, <3>1
    <3>2. CASE i # k + 1
      <4>1. PICK m \in Pos : d = m * i
        BY <2>1, <3>2 DEF IsCommon
      <4>2. e = (m * (k + 1)) * i /\ m * (k + 1) \in Pos
        BY <4>1, <2>2 DEF Pos
      <4> QED
        BY <4>2
    <3> QED
      BY <3>1, <3>2
  <2>4. IsCommon(e, k + 1)
    BY <2>2, <2>3 DEF IsCommon
  <2> QED
    BY <2>4
<1> HIDE DEF S
<1>3. n \in S
  BY <1>1, <1>2, CarriesOn
<1> QED
  BY <1>3 DEF S, common

-----------------------------------------------------------------------------
\* A curve of liquidity over the prices 0 .. n: depth[k] of it between k and k + 1.  What
\* is paid along it in the one token is counted by yWorth, in the other by xWorth.

\* common(n) \div k, exactly; the price 0 is below all.
inverses(n) == [k \in 0 .. n |-> IF k = 0 THEN common(n) + 1 ELSE common(n) \div k]

yWorth(depth, n) == sumTable(depth, n)

xParts(depth, n) == [k \in 0 .. n - 1 |-> depth[k] * (inverses(n)[k] - inverses(n)[k + 1])]
xWorth(depth, n) == sumTable(xParts(depth, n), n)

LEMMA InversesFall ==
    ASSUME NEW n \in Nat
    PROVE  /\ inverses(n) \in [0 .. n -> Int] /\ common(n) \in Pos
           /\ \A k \in 1 .. n : inverses(n)[k] \in Pos /\ inverses(n)[k] * k = common(n)
           /\ \A k \in 0 .. n - 1 : inverses(n)[k] - inverses(n)[k + 1] \in Pos
<1> DEFINE d == common(n)
           h == inverses(n)
<1>1. IsCommon(d, n)
  BY CommonExists
<1>2. d \in Pos
  BY <1>1 DEF IsCommon
<1>3. ASSUME NEW k \in 1 .. n PROVE h[k] \in Pos /\ h[k] * k = d
  <2>1. PICK m \in Pos : d = m * k
    BY <1>1 DEF IsCommon
  <2>2. h[k] = d \div k /\ k \in Pos
    BY DEF inverses, Pos
  <2> HIDE DEF d, h
  <2>3. m <= d \div k /\ d \div k \in Nat
    BY <1>2, <2>1, <2>2, FloorIsGreatest, DivFacts DEF Pos
  <2>4. ~(m + 1 <= d \div k)
    <3>1. ~((m + 1) * k <= m * k)
      BY <2>2, MulStrict DEF Pos
    <3> QED
      BY <1>2, <2>1, <2>2, <3>1, FloorIsGreatest DEF Pos
  <2>5. d \div k = m
    BY <2>3, <2>4 DEF Pos
  <2> QED
    BY <2>1, <2>2, <2>5
<1>4. h[0] = d + 1
  BY DEF inverses
<1>5. h \in [0 .. n -> Int]
  <2>1. \A k \in 0 .. n : h[k] \in Int
    <3> HIDE DEF h
    <3>1. \A k \in 0 .. n : k = 0 \/ k \in 1 .. n
      OBVIOUS
    <3> QED
      BY <1>2, <1>3, <1>4, <3>1 DEF Pos
  <2> QED
    BY <2>1 DEF inverses
<1> HIDE DEF d, h
<1>6. ASSUME NEW k \in 0 .. n - 1 PROVE h[k] - h[k + 1] \in Pos
  <2>1. k + 1 \in 1 .. n /\ h[k + 1] \in Pos /\ h[k + 1] * (k + 1) = d
    BY <1>3
  <2>2. CASE k = 0
    BY <1>2, <1>4, <2>1, <2>2 DEF Pos
  <2>3. CASE k # 0
    <3> DEFINE i == h[k]
               j == h[k + 1]
    <3>1. i \in Pos /\ i * k = d /\ j \in Pos /\ j * (k + 1) = d /\ k \in Pos
      BY <1>3, <2>1, <2>3 DEF Pos
    <3> HIDE DEF i, j
    <3>2. j * (k + 1) = j * k + j /\ j * k \in Int /\ i * k \in Int
      BY <3>1 DEF Pos
    <3>3. ~(i <= j)
      <4> SUFFICES ASSUME i <= j PROVE FALSE
        OBVIOUS
      <4>1. i * k <= j * k
        BY <3>1, MulMonotone DEF Pos
      <4> QED
        BY <3>1, <3>2, <4>1 DEF Pos
    <3>4. i - j \in Pos
      BY <3>1, <3>3 DEF Pos
    <3> QED
      BY <3>4 DEF i, j
  <2> QED
    BY <2>2, <2>3
<1> QED
  BY <1>2, <1>3, <1>5, <1>6 DEF d, h

LEMMA WorthsAreSums ==
    ASSUME NEW n \in Nat, NEW depth \in [0 .. n - 1 -> Nat]
    PROVE  /\ IsSum(yWorth(depth, n), depth, n)
           /\ xParts(depth, n) \in [0 .. n - 1 -> Nat]
           /\ IsSum(xWorth(depth, n), xParts(depth, n), n)
<1>1. IsSum(yWorth(depth, n), depth, n)
  <2>1. depth \in [0 .. n - 1 -> Int]
    OBVIOUS
  <2> QED
    BY <2>1, SumIsTabled DEF yWorth
<1> DEFINE f == xParts(depth, n)
<1>2. ASSUME NEW k \in 0 .. n - 1
      PROVE  f[k] \in Nat
  <2> DEFINE a == depth[k]
             c == inverses(n)[k] - inverses(n)[k + 1]
  <2>1. a \in Nat /\ c \in Pos
    BY InversesFall
  <2>2. f[k] = a * c
    BY DEF xParts
  <2> HIDE DEF a, c, f
  <2> QED
    BY <2>1, <2>2 DEF Pos
<1>3. f \in [0 .. n - 1 -> Nat]
  BY <1>2 DEF xParts
<1>4. f \in [0 .. n - 1 -> Int]
  BY <1>3
<1>5. IsSum(xWorth(depth, n), f, n)
  <2> HIDE DEF f
  <2> QED
    BY <1>4, SumIsTabled DEF xWorth, f
<1> QED
  BY <1>1, <1>2, <1>3, <1>5

\* A trader who moved the price from a to p paid at least what lies between: won[1] counts
\* the token of xWorth, won[2] that of yWorth, in units of which one price unit has one.
PaidTheWay(depth, n, one, a, p, won) ==
    /\ won \in [1 .. 2 -> Int]
    /\ one * won[2] <= yWorth(depth, n)[a] - yWorth(depth, n)[p]
    /\ common(n) * won[1] <= one * (xWorth(depth, n)[p] - xWorth(depth, n)[a])

\* One step of price k is worth as much in either token at a price s between k and k + 1.
LEMMA UnitIsWorth ==
    ASSUME NEW D \in Pos, NEW k \in Pos, NEW h \in Pos, NEW g \in Pos, h * k = D, g * (k + 1) = D,
           NEW s \in Nat
    PROVE  /\ s <= k * (k + 1) => s * (h - g) <= D
           /\ k * (k + 1) <= s => D <= s * (h - g)
<1> DEFINE e == h - g
           m == k * (k + 1)
<1>1. m \in Nat /\ m * e = D /\ e \in Int
  <2>1. m * e = (h * k) * (k + 1) - (g * (k + 1)) * k
    BY DEF Pos
  <2>2. D * (k + 1) - D * k = D
    BY DEF Pos
  <2> QED
    BY <2>1, <2>2 DEF Pos
<1> HIDE DEF e, m
<1>2. e \in Nat
  <2> SUFFICES ASSUME ~(0 <= e) PROVE FALSE
    BY <1>1
  <2> DEFINE c == -e
  <2>1. c \in Nat /\ e = -c
    BY <1>1
  <2> HIDE DEF c
  <2>2. m * c \in Nat /\ m * e = -(m * c)
    BY <1>1, <2>1
  <2> QED
    BY <1>1, <2>2 DEF Pos
<1>3. s <= m => s * e <= m * e
  BY <1>1, <1>2, MulMonotone
<1>4. m <= s => m * e <= s * e
  BY <1>1, <1>2, MulMonotone
<1> QED
  BY <1>1, <1>3, <1>4 DEF e, m

LEMMA WorthMoves ==
    ASSUME NEW D \in Int, NEW s \in Int, NEW y \in Int, NEW x \in Int, NEW d \in Int, NEW e \in Int
    PROVE  D * (y + d) - s * (x + d * e) = (D * y - s * x) + d * (D - s * e)
<1>1. D * (y + d) = D * y + D * d /\ s * (x + d * e) = s * x + s * (d * e)
  OBVIOUS
<1>2. d * (D - s * e) = D * d - s * (d * e)
  OBVIOUS
<1> QED
  BY <1>1, <1>2

LEMMA SignOfProduct ==
    ASSUME NEW d \in Nat, NEW c \in Int
    PROVE  (0 <= c => 0 <= d * c) /\ (c <= 0 => d * c <= 0)
<1>1. 0 <= c => d * c \in Nat
  OBVIOUS
<1>2. ASSUME c <= 0 PROVE d * c <= 0
  <2>1. -c \in Nat /\ d * (-c) \in Nat /\ d * (-c) = -(d * c) /\ d * c \in Int
    BY <1>2
  <2> QED
    BY <2>1
<1> QED
  BY <1>1, <1>2

\* At the price a, what lies between a and p is worth no less in the token one gets for it
\* than in the one it costs.
LEMMA WayCostsItsWorth ==
    ASSUME NEW n \in Nat, NEW depth \in [0 .. n - 1 -> Nat], NEW a \in 1 .. n, NEW p \in 1 .. n
    PROVE  common(n) * (yWorth(depth, n)[a] - yWorth(depth, n)[p])
               + (a * a) * (xWorth(depth, n)[p] - xWorth(depth, n)[a]) <= 0
<1> DEFINE D == common(n)
           Y == yWorth(depth, n)
           X == xWorth(depth, n)
           h == inverses(n)
           s == a * a
           t == [k \in 0 .. n |-> D * Y[k] - s * X[k]]
           f == [k \in 0 .. n - 1 |-> depth[k] * (D - s * (h[k] - h[k + 1]))]
<1>1. /\ Y \in [0 .. n -> Int] /\ Y[0] = 0 /\ X \in [0 .. n -> Int] /\ X[0] = 0
      /\ \A k \in 0 .. n - 1 : /\ Y[k + 1] = Y[k] + depth[k]
                               /\ X[k + 1] = X[k] + depth[k] * (h[k] - h[k + 1])
  BY WorthsAreSums DEF IsSum, xParts
<1>2. /\ h \in [0 .. n -> Int] /\ D \in Pos
      /\ \A k \in 1 .. n : h[k] \in Pos /\ h[k] * k = D
  BY InversesFall
<1>3. D \in Int /\ s \in Nat
  BY <1>2 DEF Pos
<1> HIDE DEF D, Y, X, h, s
<1>4. f \in [0 .. n - 1 -> Int]
  <2>1. ASSUME NEW k \in 0 .. n - 1 PROVE depth[k] * (D - s * (h[k] - h[k + 1])) \in Int
    <3>1. h[k] - h[k + 1] \in Int /\ depth[k] \in Int
      <4>1. k \in 0 .. n /\ k + 1 \in 0 .. n
        OBVIOUS
      <4> QED
        BY <1>2, <4>1
    <3> QED
      BY <1>3, <3>1
  <2> QED
    BY <2>1
<1>5. IsSum(t, f, n)
  <2>1. ASSUME NEW k \in 0 .. n PROVE D * Y[k] - s * X[k] \in Int
    <3>1. Y[k] \in Int /\ X[k] \in Int
      BY <1>1
    <3> QED
      BY <1>3, <3>1
  <2>2. t \in [0 .. n -> Int]
    BY <2>1
  <2>3. t[0] = 0
    <3>1. t[0] = D * Y[0] - s * X[0]
      OBVIOUS
    <3> QED
      BY <1>1, <1>3, <3>1
  <2>4. ASSUME NEW k \in 0 .. n - 1 PROVE t[k + 1] = t[k] + f[k]
    <3>1. k \in 0 .. n /\ k + 1 \in 0 .. n
      OBVIOUS
    <3> DEFINE y == Y[k]
               x == X[k]
               d == depth[k]
               e == h[k] - h[k + 1]
    <3>2. y \in Int /\ x \in Int /\ d \in Int /\ e \in Int
      <4>1. y \in Int /\ x \in Int
        BY <1>1, <3>1
      <4>2. h[k] \in Int /\ h[k + 1] \in Int
        BY <1>2, <3>1
      <4> QED
        BY <4>1, <4>2
    <3>3. t[k + 1] = D * Y[k + 1] - s * X[k + 1] /\ t[k] = D * y - s * x /\ f[k] = d * (D - s * e)
      BY <3>1
    <3>4. Y[k + 1] = y + d /\ X[k + 1] = x + d * e
      BY <1>1
    <3> HIDE DEF t, f, y, x, d, e
    <3>5. D * (y + d) - s * (x + d * e) = (D * y - s * x) + d * (D - s * e)
      BY <1>3, <3>2, WorthMoves
    <3> QED
      BY <3>3, <3>4, <3>5, Zenon
  <2> HIDE DEF t, f
  <2> QED
    BY <2>2, <2>3, <2>4 DEF IsSum
<1>6. ASSUME NEW k \in 1 .. n - 1
      PROVE  (a <= k => 0 <= f[k]) /\ (k + 1 <= a => f[k] <= 0)
  <2> DEFINE d == depth[k]
             c == D - s * (h[k] - h[k + 1])
  <2>1. k \in 0 .. n - 1 /\ k \in 1 .. n /\ k + 1 \in 1 .. n /\ k \in Pos /\ d \in Nat
    BY DEF Pos
  <2>2. f[k] = d * c
    BY <2>1
  <2>3. h[k] \in Pos /\ h[k + 1] \in Pos /\ h[k] * k = D /\ h[k + 1] * (k + 1) = D
    BY <1>2, <2>1
  <2>4. /\ s <= k * (k + 1) => s * (h[k] - h[k + 1]) <= D
        /\ k * (k + 1) <= s => D <= s * (h[k] - h[k + 1])
    BY <1>2, <1>3, <2>1, <2>3, UnitIsWorth
  <2>5. a <= k => s <= k * (k + 1)
    <3> SUFFICES ASSUME a <= k PROVE s <= k * (k + 1)
      OBVIOUS
    <3>1. a * a <= k * a /\ a * k <= (k + 1) * k
      BY <2>1, MulMonotone DEF Pos
    <3>2. k * a = a * k /\ (k + 1) * k = k * (k + 1) /\ a * a \in Int /\ a * k \in Int /\ k * (k + 1) \in Int
      BY <2>1 DEF Pos
    <3> QED
      BY <3>1, <3>2 DEF s
  <2>6. k + 1 <= a => k * (k + 1) <= s
    <3> SUFFICES ASSUME k + 1 <= a PROVE k * (k + 1) <= s
      OBVIOUS
    <3>1. k * (k + 1) <= a * (k + 1) /\ (k + 1) * a <= a * a
      BY <2>1, MulMonotone DEF Pos
    <3>2. a * (k + 1) = (k + 1) * a /\ a * a \in Int /\ a * (k + 1) \in Int /\ k * (k + 1) \in Int
      BY <2>1 DEF Pos
    <3> QED
      BY <3>1, <3>2 DEF s
  <2>7. s * (h[k] - h[k + 1]) \in Int /\ c \in Int
    <3>1. h[k] - h[k + 1] \in Int
      BY <2>3 DEF Pos
    <3> QED
      BY <1>3, <3>1
  <2>8. (a <= k => 0 <= c) /\ (k + 1 <= a => c <= 0)
    <3> DEFINE w == s * (h[k] - h[k + 1])
    <3>1. w \in Int /\ c = D - w /\ (a <= k => w <= D) /\ (k + 1 <= a => D <= w)
      BY <2>4, <2>5, <2>6, <2>7
    <3> HIDE DEF w, c
    <3> QED
      BY <1>3, <3>1
  <2> HIDE DEF d, c, f
  <2>9. (0 <= c => 0 <= d * c) /\ (c <= 0 => d * c <= 0)
    BY <2>1, <2>7, SignOfProduct
  <2> QED
    BY <2>2, <2>8, <2>9
<1>7. t[a] = D * Y[a] - s * X[a] /\ t[p] = D * Y[p] - s * X[p]
  OBVIOUS
<1> HIDE DEF t, f
<1>8. t[a] <= t[p]
  <2>1. CASE a <= p
    <3>1. \A k \in a .. p - 1 : 0 <= f[k]
      BY <1>6
    <3>2. a \in 0 .. n /\ p \in 0 .. n
      OBVIOUS
    <3> QED
      BY <1>4, <1>5, <2>1, <3>1, <3>2, SumGoesOneWay
  <2>2. CASE p <= a
    <3>1. \A k \in p .. a - 1 : f[k] <= 0
      BY <1>6
    <3>2. a \in 0 .. n /\ p \in 0 .. n
      OBVIOUS
    <3> QED
      BY <1>4, <1>5, <2>2, <3>1, <3>2, SumGoesOneWay
  <2> QED
    BY <2>1, <2>2
<1> DEFINE Ya == Y[a]
           Yp == Y[p]
           Xa == X[a]
           Xp == X[p]
<1>9. Ya \in Int /\ Yp \in Int /\ Xa \in Int /\ Xp \in Int /\ D * Ya - s * Xa <= D * Yp - s * Xp
  BY <1>1, <1>7, <1>8
<1> HIDE DEF Ya, Yp, Xa, Xp
<1>10. D * (Ya - Yp) + s * (Xp - Xa) = (D * Ya - s * Xa) - (D * Yp - s * Xp)
       /\ D * Ya - s * Xa \in Int /\ D * Yp - s * Xp \in Int
  BY <1>3, <1>9
<1>11. D * (Ya - Yp) + s * (Xp - Xa) <= 0
  BY <1>9, <1>10
<1> QED
  BY <1>11 DEF Ya, Yp, Xa, Xp, D, Y, X, s

LEMMA BoundsAddUp ==
    ASSUME NEW D \in Pos, NEW one \in Pos, NEW s \in Nat, NEW u \in Int, NEW v \in Int,
           NEW R \in Int, NEW T \in Int, D * u <= one * R, one * v <= T, D * T + s * R <= 0
    PROVE  s * u + (one * one) * v <= 0
<1> DEFINE g == s * u + (one * one) * v
<1>1. D * u \in Int /\ one * R \in Int /\ one * v \in Int /\ s * R \in Int /\ D * T \in Int
      /\ s * u \in Int /\ (one * one) * v \in Int /\ D * one \in Nat /\ D \in Int /\ one \in Int
  BY DEF Pos
<1>2. (D * u) * s <= (one * R) * s
  BY <1>1, MulMonotone
<1>3. (one * v) * (D * one) <= T * (D * one)
  BY <1>1, MulMonotone
<1>4. g * D = (D * u) * s + (one * v) * (D * one)
  <2>1. (s * u) * D = (D * u) * s
    BY <1>1
  <2>2. ((one * one) * v) * D = (one * v) * (D * one)
    BY <1>1
  <2>3. g * D = (s * u) * D + ((one * one) * v) * D
    BY <1>1
  <2> QED
    BY <2>1, <2>2, <2>3, Zenon
<1>5. (one * R) * s + T * (D * one) = (D * T + s * R) * one
  <2>1. (one * R) * s = (s * R) * one /\ T * (D * one) = (D * T) * one
    BY <1>1
  <2>2. (D * T + s * R) * one = (D * T) * one + (s * R) * one
    BY <1>1
  <2>3. (D * T) * one \in Int /\ (s * R) * one \in Int
    BY <1>1
  <2> QED
    BY <2>1, <2>2, <2>3
<1>6. (D * T + s * R) * one <= 0 * one /\ 0 * one = 0
  <2>1. D * T + s * R \in Int /\ 0 \in Int /\ one \in Nat
    BY <1>1 DEF Pos
  <2> QED
    BY <2>1, MulMonotone
<1>7. g \in Int
  BY <1>1
<1> HIDE DEF g
<1>8. g * D <= 0
  <2>1. /\ (D * u) * s \in Int /\ (one * v) * (D * one) \in Int /\ (one * R) * s \in Int
        /\ T * (D * one) \in Int /\ (D * T + s * R) * one \in Int
    BY <1>1
  <2> DEFINE A1 == (D * u) * s
             A2 == (one * v) * (D * one)
             B1 == (one * R) * s
             B2 == T * (D * one)
             C == (D * T + s * R) * one
  <2>2. A1 \in Int /\ A2 \in Int /\ B1 \in Int /\ B2 \in Int /\ A1 <= B1 /\ A2 <= B2
        /\ B1 + B2 = C /\ C <= 0 /\ g * D = A1 + A2
    BY <1>2, <1>3, <1>4, <1>5, <1>6, <2>1
  <2> HIDE DEF A1, A2, B1, B2, C
  <2> QED
    BY <2>2
<1>9. ~(0 < g)
  <2> SUFFICES ASSUME 0 < g PROVE FALSE
    OBVIOUS
  <2>1. 0 * D < g * D /\ 0 * D = 0
    BY <1>7, MulStrict DEF Pos
  <2> QED
    BY <1>7, <1>8, <2>1 DEF Pos
<1> QED
  BY <1>7, <1>9 DEF g

LEMMA WorthsAreInts ==
    ASSUME NEW n \in Nat, NEW depth \in [0 .. n - 1 -> Nat]
    PROVE  \A k \in 0 .. n : yWorth(depth, n)[k] \in Int /\ xWorth(depth, n)[k] \in Int
BY WorthsAreSums DEF IsSum

LEMMA DifferencesAreInts == \A x, y \in Int : x - y \in Int
OBVIOUS

\* Who paid the way has won nothing, at the price it started from.
LEMMA WayIsPaidFor ==
    ASSUME NEW n \in Nat, NEW depth \in [0 .. n - 1 -> Nat], NEW one \in Pos,
           NEW a \in 1 .. n, NEW p \in 1 .. n, NEW won, PaidTheWay(depth, n, one, a, p, won)
    PROVE  (a * a) * won[1] + (one * one) * won[2] <= 0
<1> DEFINE D == common(n)
           s == a * a
           u == won[1]
           v == won[2]
           R == xWorth(depth, n)[p] - xWorth(depth, n)[a]
           T == yWorth(depth, n)[a] - yWorth(depth, n)[p]
<1>1. D \in Pos /\ s \in Nat /\ u \in Int /\ v \in Int
  BY InversesFall DEF PaidTheWay
<1>2. R \in Int /\ T \in Int
  <2>1. \A k \in 0 .. n : yWorth(depth, n)[k] \in Int /\ xWorth(depth, n)[k] \in Int
    BY WorthsAreInts
  <2>2. /\ yWorth(depth, n)[a] \in Int /\ yWorth(depth, n)[p] \in Int
        /\ xWorth(depth, n)[p] \in Int /\ xWorth(depth, n)[a] \in Int
    BY <2>1
  <2> QED
    BY <2>2, DifferencesAreInts, Zenon
<1>3. D * u <= one * R /\ one * v <= T
  BY DEF PaidTheWay
<1>4. D * T + s * R <= 0
  BY WayCostsItsWorth
<1> HIDE DEF D, s, u, v, R, T
<1>5. s * u + (one * one) * v <= 0
  BY <1>1, <1>2, <1>3, <1>4, BoundsAddUp
<1> QED
  BY <1>5 DEF s, u, v

LEMMA NothingLeft ==
    ASSUME NEW c \in Pos, NEW d \in Pos, NEW u \in Nat, NEW v \in Nat, c * u + d * v <= 0
    PROVE  u = 0 /\ v = 0
<1>1. c * u \in Nat /\ d * v \in Nat /\ c * u = u * c /\ d * v = v * d /\ 0 * c = 0 /\ 0 * d = 0
  BY DEF Pos
<1>2. u * c <= 0 /\ v * d <= 0 /\ u * c \in Nat /\ v * d \in Nat
  BY <1>1
<1>3. ~(0 < u) /\ ~(0 < v)
  <2>1. 0 < u => 0 * c < u * c
    BY MulStrict
  <2>2. 0 < v => 0 * d < v * d
    BY MulStrict
  <2> QED
    BY <1>1, <1>2, <2>1, <2>2
<1> QED
  BY <1>3

\* Who paid the way and won some of both won nothing.
LEMMA PaidTheWayWinsNothing ==
    ASSUME NEW n \in Nat, NEW depth \in [0 .. n - 1 -> Nat], NEW one \in Pos,
           NEW a \in 1 .. n, NEW p \in 1 .. n, NEW won, PaidTheWay(depth, n, one, a, p, won),
           won[1] >= 0, won[2] >= 0
    PROVE  won[1] = 0 /\ won[2] = 0
<1>1. (a * a) * won[1] + (one * one) * won[2] <= 0
  BY WayIsPaidFor
<1>2. a * a \in Pos /\ one * one \in Pos /\ won[1] \in Nat /\ won[2] \in Nat
  BY DEF Pos, PaidTheWay
<1> QED
  BY <1>1, <1>2, NothingLeft

OneDepth(depth, L, i, j) == i <= j /\ \A k \in i .. j - 1 : depth[k] = L

WorthBetween(depth, n, L, i, j) ==
    /\ yWorth(depth, n)[j] - yWorth(depth, n)[i] = L * (j - i)
    /\ xWorth(depth, n)[j] - xWorth(depth, n)[i] = L * (inverses(n)[i] - inverses(n)[j])

\* What a stretch of one depth is worth in either token.
LEMMA StretchWorth ==
    ASSUME NEW n \in Nat, NEW depth \in [0 .. n - 1 -> Nat], NEW L \in Nat,
           NEW i \in 0 .. n, NEW j \in 0 .. n, OneDepth(depth, L, i, j)
    PROVE  WorthBetween(depth, n, L, i, j)
<1> DEFINE down == [k \in 0 .. n |-> -k]
           t == yWorth(depth, n)
           x == xWorth(depth, n)
           f == xParts(depth, n)
           h == inverses(n)
<1>0. i <= j /\ \A k \in i .. j - 1 : depth[k] = L
  BY DEF OneDepth
<1>1. IsSum(t, depth, n) /\ IsSum(x, f, n) /\ f \in [0 .. n - 1 -> Nat]
  BY WorthsAreSums
<1>2. down \in [0 .. n -> Int] /\ h \in [0 .. n -> Int] /\ L \in Int
  BY InversesFall
<1>3. FollowsSteps(depth, L, down, i, j)
  <2> SUFFICES ASSUME NEW k \in i .. j - 1 PROVE depth[k] = L * (down[k] - down[k + 1])
    BY DEF FollowsSteps
  <2>1. k \in 0 .. n /\ k + 1 \in 0 .. n /\ k \in Int
    BY <1>0
  <2>2. down[k] - down[k + 1] = 1
    BY <2>1
  <2> QED
    BY <1>0, <2>2
<1>4. FollowsSteps(f, L, h, i, j)
  <2> SUFFICES ASSUME NEW k \in i .. j - 1 PROVE f[k] = L * (h[k] - h[k + 1])
    BY DEF FollowsSteps
  <2>1. k \in 0 .. n - 1 /\ depth[k] = L
    BY <1>0
  <2> QED
    BY <2>1 DEF xParts
<1>5. depth \in [0 .. n - 1 -> Int] /\ f \in [0 .. n - 1 -> Int]
  BY <1>1
<1>6. down[i] - down[j] = j - i
  OBVIOUS
<1> HIDE DEF down, t, x, f, h
<1>7. GrowsAs(t, L, down, i, j)
  <2>1. IsSum(t, depth, n)
    BY <1>1
  <2> QED
    BY <1>0, <2>1, <1>2, <1>3, <1>5, SumFollows
<1>8. GrowsAs(x, L, h, i, j)
  <2>1. IsSum(x, f, n)
    BY <1>1
  <2> QED
    BY <1>0, <2>1, <1>2, <1>4, <1>5, SumFollows
<1> QED
  BY <1>6, <1>7, <1>8 DEF t, x, h, GrowsAs, WorthBetween

\* Amounts in units of the one token, as the curve's formula has them and as the inverses.
LEMMA InversesPrice ==
    ASSUME NEW D \in Pos, NEW p \in Pos, NEW m \in Pos, NEW hp \in Pos, NEW hm \in Pos,
           hp * p = D, hm * m = D, NEW L \in Nat, NEW one \in Pos, NEW A \in Nat
    PROVE  /\ L * (p - m) * one <= A * (p * m) => L * one * (hm - hp) <= A * D
           /\ A * (p * m) <= L * (p - m) * one => A * D <= L * one * (hm - hp)
<1> DEFINE K == hp * hm
           U == L * (p - m) * one
           V == A * (p * m)
           S == L * one * (hm - hp)
           T == A * D
<1>1. K \in Pos /\ U \in Int /\ V \in Int /\ S \in Int /\ T \in Int /\ D \in Pos
  <2>1. K \in Pos
    BY DEF Pos
  <2>2. U \in Int /\ S \in Int
    <3>1. p - m \in Int /\ hm - hp \in Int /\ one \in Int /\ L * one \in Int
      BY DEF Pos
    <3>2. L * (p - m) \in Int
      BY <3>1
    <3> QED
      BY <3>1, <3>2
  <2>3. V \in Int /\ T \in Int
    BY DEF Pos
  <2> QED
    BY <2>1, <2>2, <2>3
<1>2. U * K = S * D
  <2>1. U * K = (L * one) * ((hp * p) * hm - (hm * m) * hp)
    BY DEF Pos
  <2>2. (hp * p) * hm - (hm * m) * hp = D * (hm - hp)
    BY DEF Pos
  <2>3. (L * one) * (D * (hm - hp)) = S * D
    BY DEF Pos
  <2> QED
    BY <2>1, <2>2, <2>3
<1>3. V * K = T * D
  <2>1. V * K = A * ((hp * p) * (hm * m))
    BY DEF Pos
  <2>2. A * (D * D) = T * D
    BY DEF Pos
  <2> QED
    BY <2>1, <2>2
<1> HIDE DEF K, U, V, S, T
<1>4. U <= V => S <= T
  <2> SUFFICES ASSUME U <= V, T < S PROVE FALSE
    BY <1>1
  <2>1. U * K <= V * K
    BY <1>1, MulMonotone DEF Pos
  <2>2. T * D < S * D
    BY <1>1, MulStrict
  <2>3. U * K \in Int /\ V * K \in Int
    BY <1>1 DEF Pos
  <2> QED
    BY <1>2, <1>3, <2>1, <2>2, <2>3
<1>5. V <= U => T <= S
  <2> SUFFICES ASSUME V <= U, S < T PROVE FALSE
    BY <1>1
  <2>1. V * K <= U * K
    BY <1>1, MulMonotone DEF Pos
  <2>2. S * D < T * D
    BY <1>1, MulStrict
  <2>3. U * K \in Int /\ V * K \in Int
    BY <1>1 DEF Pos
  <2> QED
    BY <1>2, <1>3, <2>1, <2>2, <2>3
<1> QED
  BY <1>4, <1>5 DEF U, V, S, T

\* A step from the price p to m at the depth L takes in and gives out: no less, and no
\* more, than the curve says.  z: down, the token of xWorth for that of yWorth.
Traded(L, one, p, m, in, out, z) ==
    IF z THEN L * (p - m) * one <= in * (p * m) /\ out * one <= L * (p - m)
         ELSE L * (m - p) <= in * one /\ out * (p * m) <= L * (m - p) * one

\* What a trader with won has after paying in and getting out.
AfterTrade(won, in, out, z) ==
    IF z THEN <<won[1] - in, won[2] + out>> ELSE <<won[1] + out, won[2] - in>>

LEMMA GainAddsUp ==
    ASSUME NEW c \in Int, NEW w \in Int, NEW g \in Int, NEW R \in Int, NEW S \in Int,
           c * w <= R, g * c <= S
    PROVE  c * (w + g) <= R + S
<1>1. c * (w + g) = c * w + g * c /\ c * w \in Int /\ g * c \in Int
  OBVIOUS
<1> QED
  BY <1>1

\* A trader who moved the price further won at most what lies on the way.
LEMMA WayGoesOn ==
    ASSUME NEW n \in Nat, NEW depth \in [0 .. n - 1 -> Nat], NEW one \in Pos,
           NEW a \in 0 .. n, NEW p \in 0 .. n, NEW m \in 0 .. n,
           NEW g1 \in Int, NEW g2 \in Int,
           g2 * one <= yWorth(depth, n)[p] - yWorth(depth, n)[m],
           g1 * common(n) <= one * (xWorth(depth, n)[m] - xWorth(depth, n)[p]),
           NEW won, PaidTheWay(depth, n, one, a, p, won)
    PROVE  PaidTheWay(depth, n, one, a, m, <<won[1] + g1, won[2] + g2>>)
<1> DEFINE D == common(n)
           u == won[1]
           v == won[2]
           Ya == yWorth(depth, n)[a]
           Yp == yWorth(depth, n)[p]
           Ym == yWorth(depth, n)[m]
           Xa == xWorth(depth, n)[a]
           Xp == xWorth(depth, n)[p]
           Xm == xWorth(depth, n)[m]
<1>1. /\ Ya \in Int /\ Yp \in Int /\ Ym \in Int /\ Xa \in Int /\ Xp \in Int /\ Xm \in Int
  <2>1. \A k \in 0 .. n : yWorth(depth, n)[k] \in Int /\ xWorth(depth, n)[k] \in Int
    BY WorthsAreInts
  <2> QED
    BY <2>1
<1>2. D \in Int /\ one \in Int /\ u \in Int /\ v \in Int
  BY InversesFall DEF Pos, PaidTheWay
<1>3. one * v <= Ya - Yp /\ D * u <= one * (Xp - Xa)
  BY DEF PaidTheWay
<1>4. g2 * one <= Yp - Ym /\ g1 * D <= one * (Xm - Xp)
  OBVIOUS
<1> HIDE DEF D, u, v, Ya, Yp, Ym, Xa, Xp, Xm
<1>5. one * (v + g2) <= Ya - Ym
  <2>1. one * (v + g2) <= (Ya - Yp) + (Yp - Ym)
    <3>1. Ya - Yp \in Int /\ Yp - Ym \in Int
      BY <1>1
    <3> QED
      BY <1>2, <1>3, <1>4, <3>1, GainAddsUp
  <2> QED
    BY <1>1, <2>1
<1>6. D * (u + g1) <= one * (Xm - Xa)
  <2>1. one * (Xp - Xa) \in Int /\ one * (Xm - Xp) \in Int
        /\ one * (Xp - Xa) + one * (Xm - Xp) = one * (Xm - Xa)
    BY <1>1, <1>2
  <2>2. D * (u + g1) <= one * (Xp - Xa) + one * (Xm - Xp)
    BY <1>2, <1>3, <1>4, <2>1, GainAddsUp
  <2> QED
    BY <2>1, <2>2
<1>7. u + g1 \in Int /\ v + g2 \in Int
  BY <1>2
<1> QED
  BY <1>5, <1>6, <1>7 DEF PaidTheWay, D, u, v, Ya, Ym, Xa, Xm

LEMMA Reversed ==
    ASSUME NEW x \in Int, NEW y \in Int, NEW r \in Int, x - y = r
    PROVE  y - x = -r
OBVIOUS

LEMMA TakesAway ==
    ASSUME NEW b \in Int, NEW c \in Int, NEW S \in Int, S <= b * c
    PROVE  (-b) * c <= -S
<1>1. (-b) * c = -(b * c) /\ b * c \in Int
  OBVIOUS
<1> QED
  BY <1>1

\* Such a step leaves the way paid.
LEMMA StepPaysTheWay ==
    ASSUME NEW n \in Nat, NEW depth \in [0 .. n - 1 -> Nat], NEW one \in Pos,
           NEW a \in 0 .. n, NEW p \in 1 .. n, NEW m \in 1 .. n, NEW z \in BOOLEAN, NEW L \in Nat,
           IF z THEN m <= p ELSE p <= m,
           \A k \in (IF z THEN m ELSE p) .. (IF z THEN p ELSE m) - 1 : depth[k] = L,
           NEW in \in Nat, NEW out \in Nat, Traded(L, one, p, m, in, out, z),
           NEW won, PaidTheWay(depth, n, one, a, p, won)
    PROVE  PaidTheWay(depth, n, one, a, m, AfterTrade(won, in, out, z))
<1> DEFINE Y == yWorth(depth, n)
           X == xWorth(depth, n)
           D == common(n)
           h == inverses(n)
           hp == h[p]
           hm == h[m]
           i == IF z THEN m ELSE p
           j == IF z THEN p ELSE m
<1>1. h \in [0 .. n -> Int] /\ D \in Pos /\ (\A k \in 1 .. n : h[k] \in Pos /\ h[k] * k = D)
  BY InversesFall
<1>2. p \in Pos /\ m \in Pos /\ p \in 0 .. n /\ m \in 0 .. n
  BY DEF Pos
<1>3. hp \in Pos /\ hm \in Pos /\ hp * p = D /\ hm * m = D
  <2> HIDE DEF h, D
  <2> QED
    BY <1>1
<1>4. Y[j] - Y[i] = L * (j - i) /\ X[j] - X[i] = L * (h[i] - h[j])
  <2>1. i \in 0 .. n /\ j \in 0 .. n /\ i <= j
    BY <1>2
  <2>2. OneDepth(depth, L, i, j)
    BY <1>2 DEF OneDepth
  <2> HIDE DEF i, j, D, hp, hm
  <2>3. WorthBetween(depth, n, L, i, j)
    <3> HIDE DEF Y, X, h
    <3> QED
      BY <2>1, <2>2, StretchWorth
  <2> QED
    BY <2>3, Zenon DEF WorthBetween
<1>5. D \in Int /\ hp \in Int /\ hm \in Int /\ p \in Int /\ m \in Int /\ one \in Int
  BY <1>1, <1>3 DEF Pos
<1> HIDE DEF h, hp, hm, D, i, j
<1>8. Y[m] \in Int /\ Y[p] \in Int /\ X[m] \in Int /\ X[p] \in Int
  <2>1. \A k \in 0 .. n : Y[k] \in Int /\ X[k] \in Int
    BY WorthsAreInts
  <2> HIDE DEF Y, X
  <2> QED
    BY <1>2, <2>1
<1> USE DEF hp, hm, i, j
<1> HIDE DEF Y, X
<1>6. CASE z
  <2>1. Y[p] - Y[m] = L * (p - m) /\ X[p] - X[m] = L * (hm - hp)
    BY <1>4, <1>6
  <2>2. L * (p - m) * one <= in * (p * m) /\ out * one <= L * (p - m)
    BY <1>6 DEF Traded
  <2> HIDE DEF hp, hm
  <2>3. L * one * (hm - hp) <= in * D
    BY <1>1, <1>2, <1>3, <2>2, InversesPrice
  <2>4. L * one * (hm - hp) = one * (L * (hm - hp)) /\ L * (hm - hp) \in Int
        /\ one * (L * (hm - hp)) \in Int
    BY <1>5
  <2>5. (-in) * D <= -(one * (L * (hm - hp)))
    BY <1>5, <2>3, <2>4, TakesAway
  <2>6. (-in) * D <= one * (X[m] - X[p])
    <3>1. X[m] \in Int /\ X[p] \in Int
      BY <1>8
    <3>2. X[m] - X[p] = -(L * (hm - hp))
      <4> DEFINE w == L * (hm - hp)
      <4>1. w \in Int /\ X[p] - X[m] = w
        BY <2>1, <2>4
      <4> HIDE DEF w
      <4> DEFINE xm == X[m]
                 xp == X[p]
      <4>2. xm \in Int /\ xp \in Int /\ w \in Int /\ xp - xm = w
        BY <3>1, <4>1
      <4> HIDE DEF xm, xp
      <4>3. xm - xp = -w
        BY <4>2, Reversed
      <4>4. X[m] - X[p] = -w
        BY <4>3 DEF xm, xp
      <4> QED
        BY <4>4, Zenon DEF w
    <3>3. one * (-(L * (hm - hp))) = -(one * (L * (hm - hp)))
      <4> DEFINE w == L * (hm - hp)
      <4>1. w \in Int
        BY <2>4
      <4> HIDE DEF w
      <4>2. one * (-w) = -(one * w)
        BY <1>5, <4>1
      <4> QED
        BY <4>2 DEF w
    <3> QED
      BY <2>5, <3>2, <3>3
  <2>7. PaidTheWay(depth, n, one, a, m, <<won[1] + (-in), won[2] + out>>)
    <3>1. out * one <= Y[p] - Y[m]
      BY <2>1, <2>2
    <3>2. -in \in Int /\ out \in Int
      OBVIOUS
    <3> QED
      BY <1>2, <2>6, <3>1, <3>2, WayGoesOn DEF Y, X, D
  <2>8. won[1] + (-in) = won[1] - in
    BY DEF PaidTheWay
  <2> QED
    BY <1>6, <2>7, <2>8 DEF AfterTrade
<1>7. CASE ~z
  <2>1. Y[m] - Y[p] = L * (m - p) /\ X[m] - X[p] = L * (hp - hm)
    BY <1>4, <1>7
  <2>2. L * (m - p) <= in * one /\ out * (p * m) <= L * (m - p) * one
    BY <1>7 DEF Traded
  <2> HIDE DEF hp, hm
  <2>3. out * D <= L * one * (hp - hm)
    <3>1. out * (m * p) <= L * (m - p) * one
      <4>1. m * p = p * m
        BY <1>5
      <4> QED
        BY <2>2, <4>1
    <3> QED
      BY <1>1, <1>2, <1>3, <3>1, InversesPrice
  <2>4. L * one * (hp - hm) = one * (L * (hp - hm))
    BY <1>5
  <2>5. out * D <= one * (X[m] - X[p])
    BY <2>1, <2>3, <2>4
  <2>6. (-in) * one <= Y[p] - Y[m]
    <3> DEFINE w == L * (m - p)
    <3>1. w \in Int /\ w <= in * one /\ Y[m] - Y[p] = w
      BY <1>5, <2>1, <2>2
    <3>2. Y[m] \in Int /\ Y[p] \in Int
      BY <1>8
    <3> HIDE DEF w
    <3>3. (-in) * one <= -w
      BY <1>5, <3>1, TakesAway
    <3> DEFINE ym == Y[m]
               yp == Y[p]
    <3>4. ym \in Int /\ yp \in Int /\ w \in Int /\ ym - yp = w
      BY <3>1, <3>2
    <3> HIDE DEF ym, yp
    <3>5. yp - ym = -w
      BY <3>4, Reversed
    <3> QED
      BY <3>3, <3>5 DEF ym, yp
  <2>7. PaidTheWay(depth, n, one, a, m, <<won[1] + out, won[2] + (-in)>>)
    <3>1. -in \in Int /\ out \in Int
      OBVIOUS
    <3> QED
      BY <1>2, <2>5, <2>6, <3>1, WayGoesOn DEF Y, X, D
  <2>8. won[2] + (-in) = won[2] - in
    BY DEF PaidTheWay
  <2> QED
    BY <1>7, <2>7, <2>8 DEF AfterTrade
<1> QED
  BY <1>6, <1>7

\* To pay more, or to get less, leaves it paid as well.
LEMMA MoreIsPaid ==
    ASSUME NEW n \in Nat, NEW depth \in [0 .. n - 1 -> Nat], NEW one \in Pos,
           NEW a \in 0 .. n, NEW p \in 0 .. n, NEW won, PaidTheWay(depth, n, one, a, p, won),
           NEW less \in [1 .. 2 -> Int], less[1] <= won[1], less[2] <= won[2]
    PROVE  PaidTheWay(depth, n, one, a, p, less)
<1>1. common(n) \in Pos /\ won[1] \in Int /\ won[2] \in Int /\ less[1] \in Int /\ less[2] \in Int
  BY InversesFall DEF PaidTheWay
<1> DEFINE D == common(n)
           u == won[1]
           v == won[2]
           i == less[1]
           j == less[2]
           R == yWorth(depth, n)[a] - yWorth(depth, n)[p]
           T == one * (xWorth(depth, n)[p] - xWorth(depth, n)[a])
<1>2. one * v <= R /\ D * u <= T
  BY DEF PaidTheWay
<1>3. R \in Int /\ T \in Int
  <2>1. \A k \in 0 .. n : yWorth(depth, n)[k] \in Int /\ xWorth(depth, n)[k] \in Int
    BY WorthsAreInts
  <2>2. /\ yWorth(depth, n)[a] \in Int /\ yWorth(depth, n)[p] \in Int
        /\ xWorth(depth, n)[p] \in Int /\ xWorth(depth, n)[a] \in Int
    BY <2>1
  <2> DEFINE d == xWorth(depth, n)[p] - xWorth(depth, n)[a]
  <2>3. R \in Int /\ d \in Int
    BY <2>2, DifferencesAreInts, Zenon
  <2>4. T = one * d
    OBVIOUS
  <2> HIDE DEF R, T, d
  <2> QED
    BY <2>3, <2>4 DEF Pos
<1>4. D \in Pos /\ u \in Int /\ v \in Int /\ i \in Int /\ j \in Int /\ i <= u /\ j <= v
  BY <1>1
<1> HIDE DEF D, u, v, i, j, R, T
<1>5. one * j <= R /\ D * i <= T
  <2>1. i * D <= u * D /\ j * one <= v * one
    BY <1>4, MulMonotone DEF Pos
  <2>2. /\ i * D = D * i /\ u * D = D * u /\ j * one = one * j /\ v * one = one * v
        /\ i * D \in Int /\ u * D \in Int /\ j * one \in Int /\ v * one \in Int
    BY <1>4 DEF Pos
  <2> QED
    BY <1>2, <1>3, <2>1, <2>2
<1> QED
  BY <1>5 DEF D, i, j, R, T, PaidTheWay

=============================================================================
