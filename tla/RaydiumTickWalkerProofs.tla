------------------------ MODULE RaydiumTickWalkerProofs ------------------------
(***************************************************************************)
(* The tick walker for every array width, spacing, pool and bound: what it *)
(* has loaded is always a prefix of the arrays the swap is given, what it  *)
(* has left behind holds nothing the swap still wants, so a search of one  *)
(* array at a time answers like a search of all of them.                   *)
(***************************************************************************)
EXTENDS RaydiumTickWalker, ArithmeticLemmas, FiniteSetTheorems, SequenceTheorems

-----------------------------------------------------------------------------
\* Arrays are span apart and hold the ticks of their span

LEMMA SpanIsPositive == span \in Pos /\ TickSpacing \in Pos /\ TicksPerArray \in Pos
<1>1. TickSpacing \in Pos /\ TicksPerArray \in Pos
  BY WalkerAssumption DEF Pos
<1>2. 0 * TicksPerArray < TickSpacing * TicksPerArray
  BY <1>1, MulStrict DEF Pos
<1> QED
  BY <1>1, <1>2 DEF span, Pos

\* Distinct multiples of span are at least span apart.
LEMMA StartsAreApart ==
    ASSUME NEW a \in Int, NEW b \in Int, a % span = 0, b % span = 0, a < b
    PROVE  a + span <= b
<1> DEFINE d == span
           j == a \div d
           k == b \div d
<1>1. d \in Pos /\ a % d = 0 /\ b % d = 0
  BY SpanIsPositive
<1> HIDE DEF d
<1>2. j \in Int /\ k \in Int /\ a = d * j + (a % d) /\ b = d * k + (b % d)
  BY <1>1 DEF Pos
<1>3. a = d * j /\ b = d * k
  <2>1. d * j \in Int /\ d * k \in Int
    BY <1>1, <1>2 DEF Pos
  <2> HIDE DEF j, k
  <2> QED
    BY <1>1, <1>2, <2>1
<1> HIDE DEF j, k
<1>4. d * j = j * d /\ d * k = k * d /\ (j + 1) * d = j * d + d
  BY <1>1, <1>2 DEF Pos
<1>5. j < k
  <2> SUFFICES ASSUME k <= j PROVE FALSE
    BY <1>2
  <2>1. k * d <= j * d
    BY <1>1, <1>2, MulMonotone DEF Pos
  <2> QED
    BY <2>1, <1>3, <1>4
<1>6. (j + 1) * d <= k * d
  BY <1>1, <1>2, <1>5, MulMonotone DEF Pos
<1> QED
  BY <1>1, <1>3, <1>4, <1>6 DEF d, Pos

\* The ticks of an array lie in its span.
LEMMA SlotsInSpan ==
    ASSUME NEW a \in Int, NEW t \in Slots(a)
    PROVE  t \in Int /\ a <= t /\ t < a + span
<1>1. PICK i \in 0 .. TicksPerArray - 1 : t = a + i * TickSpacing
  BY DEF Slots
<1>2. TickSpacing \in Pos /\ TicksPerArray \in Pos /\ i \in Int
  BY <1>1, SpanIsPositive
<1>3. i * TickSpacing < TicksPerArray * TickSpacing
  BY <1>1, <1>2, MulStrict DEF Pos
<1>4. 0 * TickSpacing <= i * TickSpacing
  BY <1>1, <1>2, MulMonotone DEF Pos
<1>5. TicksPerArray * TickSpacing = span /\ 0 * TickSpacing = 0 /\ i * TickSpacing \in Int
  BY <1>2 DEF span, Pos
<1>6. span \in Int
  BY SpanIsPositive DEF Pos
<1> QED
  BY <1>1, <1>3, <1>4, <1>5, <1>6

\* RaydiumTickArrayStartIndex is the start of the array that holds the tick.
LEMMA StartIndexHolds ==
    ASSUME NEW t \in Int
    PROVE  LET f == RaydiumTickArrayStartIndex(t)
           IN  f \in Int /\ f % span = 0 /\ f <= t /\ t < f + span
<1> DEFINE start == RaydiumTickArrayStartIndex(t)
           n == IF t >= 0 THEN t \div span
                ELSE IF t % span # 0 THEN -((-t) \div span) - 1 ELSE -((-t) \div span)
<1>1. span \in Pos
  BY SpanIsPositive
<1>2. start = n * span
  BY DEF RaydiumTickArrayStartIndex
<1>3. n \in Int /\ n * span <= t /\ t < (n + 1) * span
  BY <1>1, CorrectedTruncation
<1> HIDE DEF n
<1>4. (n + 1) * span = n * span + span /\ n * span \in Int
  BY <1>1, <1>3 DEF Pos
<1>5. (n * span) % span = 0
  <2> DEFINE d == span
             m == n * d
             q == m \div d
             r == m % d
  <2>1. d \in Pos /\ m \in Int
    BY <1>1, <1>4
  <2> HIDE DEF d
  <2>2. n * d = m /\ m = n * d
    OBVIOUS
  <2> HIDE DEF m
  <2>3. q \in Int /\ r \in 0 .. d - 1 /\ m = d * q + r
    BY <2>1 DEF Pos
  <2> HIDE DEF q, r
  <2>4. d * q = q * d /\ (q + 1) * d = q * d + d /\ q * d \in Int
    BY <2>1, <2>3 DEF Pos
  <2>5. ~(n > q)
    <3> SUFFICES ASSUME n > q PROVE FALSE
      OBVIOUS
    <3>1. (q + 1) * d <= n * d
      BY <2>1, <2>3, <1>3, MulMonotone DEF Pos
    <3> QED
      BY <3>1, <2>1, <2>2, <2>3, <2>4 DEF Pos
  <2>6. n * d <= q * d
    BY <2>1, <2>3, <2>5, <1>3, MulMonotone DEF Pos
  <2>7. r = 0
    BY <2>2, <2>3, <2>4, <2>6
  <2> QED
    BY <2>7 DEF r, m, d
<1>6. start \in Int /\ start % span = 0 /\ start <= t /\ t < start + span
  <2> HIDE DEF start
  <2> QED
    BY <1>1, <1>2, <1>3, <1>4, <1>5 DEF Pos
<1> QED
  BY <1>6

-----------------------------------------------------------------------------
\* The arrays of a swap

\* a comes before b in the swap direction.
Before(a, b) == NoFurther(a, b) /\ a # b

\* The array of the current tick, and the initialized arrays from there on.
Home  == RaydiumTickArrayStartIndex(tickCurrent)
Ahead == {a \in initialized : NoFurther(Home, a)}

\* Where the load after array a starts.
Beyond(a) == IF zeroForOne THEN a - span ELSE a + span

Loaded == {arrays[i] : i \in 1 .. Len(arrays)}

WalkerTypes ==
    /\ stops \in SUBSET Int /\ initialized \in SUBSET Starts
    /\ tickCurrent \in Ticks /\ maxArrays \in Nat /\ zeroForOne \in BOOLEAN
    /\ arrays \in Seq(Int) /\ loads \in Seq(Int)
    /\ current \in Nat /\ done \in BOOLEAN /\ err \in BOOLEAN
    /\ pc \in {"idle", "search", "collect", "collected"}
    /\ fromTick \in Int /\ asked \in BOOLEAN

\* What is loaded is a prefix, in order, of the arrays ahead; all of them once the loader
\* has said that there are no more.
PrefixInv ==
    /\ Len(arrays) <= maxArrays
    /\ \A i \in 1 .. Len(arrays) : arrays[i] \in Ahead
    /\ \A i, j \in 1 .. Len(arrays) : i < j => Before(arrays[i], arrays[j])
    /\ \A b \in Ahead : b \in Loaded \/ (~done /\ \A i \in 1 .. Len(arrays) : Before(arrays[i], b))
    /\ done \/ err => Len(arrays) < maxArrays

\* Each load starts where the array before it ends.
LoadInv ==
    /\ Len(loads) = Len(arrays) + (IF done \/ err THEN 1 ELSE 0)
    /\ \A i \in 1 .. Len(loads) : loads[i] = IF i = 1 THEN Home ELSE Beyond(arrays[i - 1])

\* The ticks a call of Next is after.
Wants(t) == IF zeroForOne THEN t <= fromTick ELSE t > fromTick

\* The arrays that have been left hold nothing a call will want.
SearchInv ==
    /\ current \in 1 .. Len(arrays) + 1
    /\ \A k \in 1 .. current - 1 : \A t \in Slots(arrays[k]) \cap stops : ~Wants(t)
    /\ ~asked => fromTick = tickCurrent
    /\ pc = "collected" => done \/ err \/ Len(arrays) = maxArrays
    /\ NextIsNearest

WalkerInv == WalkerTypes /\ PrefixInv /\ LoadInv /\ SearchInv

LEMMA StartsAreInts ==
    /\ Starts \in SUBSET Int /\ \A a \in Starts : a % span = 0
    /\ Ticks \in SUBSET Int /\ IsFiniteSet(Starts)
<1>1. span \in Int /\ LowTick \in Int /\ HighTick \in Int
  BY WalkerAssumption, SpanIsPositive DEF Pos
<1>2. Starts \in SUBSET (LowTick - span .. HighTick)
  BY DEF Starts
<1>3. IsFiniteSet(LowTick - span .. HighTick)
  BY <1>1, FS_Interval
<1>4. IsFiniteSet(Starts)
  BY <1>2, <1>3, FS_Subset
<1> QED
  BY <1>1, <1>2, <1>4 DEF Starts, Ticks

\* What Ahead holds.
LEMMA AheadFacts ==
    ASSUME WalkerTypes
    PROVE  /\ Home \in Int /\ Home % span = 0 /\ Home <= tickCurrent /\ tickCurrent < Home + span
           /\ Ahead \in SUBSET Int /\ IsFiniteSet(Ahead)
           /\ \A a \in Ahead : a % span = 0 /\ NoFurther(Home, a)
<1>1. tickCurrent \in Int
  BY StartsAreInts DEF WalkerTypes
<1>2. Ahead \in SUBSET Starts
  BY DEF Ahead, WalkerTypes
<1>3. IsFiniteSet(Ahead)
  BY <1>2, StartsAreInts, FS_Subset
<1> QED
  BY <1>1, <1>2, <1>3, StartsAreInts, StartIndexHolds DEF Home, Ahead

\* Two arrays ahead, one before the other, are span apart.
LEMMA NextArrayIsBeyond ==
    ASSUME WalkerTypes, NEW a \in Int, NEW b \in Int, a % span = 0, b % span = 0
    PROVE  Before(a, b) <=> NoFurther(Beyond(a), b)
<1>1. span \in Int /\ span > 0
  BY SpanIsPositive DEF Pos
<1>2. zeroForOne \in BOOLEAN
  BY DEF WalkerTypes
<1>3. a < b => a + span <= b
  BY StartsAreApart
<1>4. b < a => b + span <= a
  BY StartsAreApart
<1> QED
  BY <1>1, <1>2, <1>3, <1>4 DEF Before, NoFurther, Beyond

\* Reachable, with its first array named.
LEMMA ReachableIs ==
    ASSUME WalkerTypes
    PROVE  Reachable = {a \in Ahead : Cardinality({b \in Ahead \ {a} : NoFurther(b, a)}) < maxArrays}
<1> DEFINE holds(a) == a <= tickCurrent /\ tickCurrent < a + span
           first == CHOOSE a \in LowTick - span .. HighTick : a % span = 0 /\ holds(a)
<1>1. span \in Int /\ span > 0 /\ LowTick \in Int /\ HighTick \in Int
  BY WalkerAssumption, SpanIsPositive DEF Pos
<1>2. tickCurrent \in LowTick .. HighTick
  BY DEF WalkerTypes, Ticks
<1>3. Home \in LowTick - span .. HighTick /\ Home % span = 0 /\ holds(Home)
  BY <1>1, <1>2, AheadFacts
<1>4. first \in LowTick - span .. HighTick /\ first % span = 0 /\ holds(first)
  BY <1>3
<1> HIDE DEF first
<1>5. first \in Int /\ Home \in Int
  BY <1>1, <1>3, <1>4
<1>6. first = Home
  <2>1. first < Home => first + span <= Home
    BY <1>3, <1>4, <1>5, StartsAreApart
  <2>2. Home < first => Home + span <= first
    BY <1>3, <1>4, <1>5, StartsAreApart
  <2> QED
    BY <1>1, <1>2, <1>3, <1>4, <1>5, <2>1, <2>2
<1>7. Reachable = LET ahead == {a \in initialized : NoFurther(first, a)}
                  IN  {a \in ahead : Cardinality({b \in ahead \ {a} : NoFurther(b, a)}) < maxArrays}
  BY DEF Reachable, first
<1> QED
  BY <1>6, <1>7 DEF Ahead

\* The loaded arrays, in order, are as many as their count says.
LEMMA CountsLoaded ==
    ASSUME WalkerTypes, PrefixInv, NEW n \in 0 .. Len(arrays)
    PROVE  LET S == {arrays[i] : i \in 1 .. n}
           IN  IsFiniteSet(S) /\ Cardinality(S) = n
<1> DEFINE S == {arrays[i] : i \in 1 .. n}
           f == [i \in 1 .. n |-> arrays[i]]
<1>1. arrays \in Seq(Int) /\ Len(arrays) \in Nat /\ n \in Int
  BY DEF WalkerTypes
<1>2. \A i, j \in 1 .. n : f[i] = f[j] => i = j
  <2> SUFFICES ASSUME NEW i \in 1 .. n, NEW j \in 1 .. n, arrays[i] = arrays[j] PROVE i = j
    OBVIOUS
  <2>1. i \in 1 .. Len(arrays) /\ j \in 1 .. Len(arrays)
    BY <1>1
  <2> QED
    BY <2>1 DEF PrefixInv, Before
<1>3. f \in Bijection(1 .. n, S)
  <2>1. f \in [1 .. n -> S] /\ DOMAIN f = 1 .. n
    OBVIOUS
  <2>2. \A x \in S : \E i \in 1 .. n : f[i] = x
    OBVIOUS
  <2> HIDE DEF f, S
  <2> QED
    BY <1>2, <2>1, <2>2, Zenon DEF Bijection, Injection, Surjection, IsInjective
<1>4. IsFiniteSet(1 .. n) /\ Cardinality(1 .. n) = n
  BY <1>1, FS_Interval
<1>5. IsFiniteSet(S) /\ Cardinality(S) = Cardinality(1 .. n)
  BY <1>3, <1>4, FS_Bijection DEF ExistsBijection
<1> QED
  BY <1>4, <1>5

\* Every loaded array is one the swap is given.
LEMMA LoadedIsReachable ==
    ASSUME WalkerTypes, PrefixInv, NEW i \in 1 .. Len(arrays)
    PROVE  arrays[i] \in Reachable
<1> DEFINE a == arrays[i]
           S == {b \in Ahead \ {a} : NoFurther(b, a)}
           T == {arrays[k] : k \in 1 .. i - 1}
<1>1. arrays \in Seq(Int) /\ Len(arrays) \in Nat /\ maxArrays \in Nat
  BY DEF WalkerTypes
<1>2. a \in Ahead /\ Ahead \in SUBSET Int
  BY AheadFacts DEF PrefixInv
<1>3. S \in SUBSET T
  <2> SUFFICES ASSUME NEW b \in Ahead, b # a, NoFurther(b, a) PROVE b \in T
    OBVIOUS
  <2>1. ~Before(a, b)
    BY <1>2 DEF Before, NoFurther, WalkerTypes
  <2>2. b \in Loaded
    BY <2>1 DEF PrefixInv
  <2>3. PICK k \in 1 .. Len(arrays) : b = arrays[k]
    BY <2>2 DEF Loaded
  <2>4. ~(i < k) /\ i # k
    BY <2>1, <2>3 DEF PrefixInv
  <2> QED
    BY <1>1, <2>3, <2>4
<1>4. i - 1 \in 0 .. Len(arrays) /\ i - 1 < maxArrays
  BY <1>1 DEF PrefixInv
<1>5. IsFiniteSet(T) /\ Cardinality(T) = i - 1
  BY <1>4, CountsLoaded
<1>6. Cardinality(S) <= i - 1 /\ Cardinality(S) \in Nat
  <2> HIDE DEF S, T
  <2> QED
    BY <1>3, <1>5, FS_Subset, FS_CardinalityType
<1>7. Cardinality(S) < maxArrays
  <2> HIDE DEF S
  <2> QED
    BY <1>1, <1>4, <1>6
<1> HIDE DEF S, a
<1> QED
  BY <1>2, <1>7, ReachableIs DEF S, a

\* When nothing more can be loaded, nothing else is reachable.
LEMMA ExhaustedIsReachable ==
    ASSUME WalkerTypes, PrefixInv, done \/ Len(arrays) = maxArrays
    PROVE  Reachable = Loaded
<1>1. arrays \in Seq(Int) /\ Len(arrays) \in Nat /\ maxArrays \in Nat
  BY DEF WalkerTypes
<1>2. Loaded \in SUBSET Reachable
  BY LoadedIsReachable DEF Loaded
<1>3. ASSUME NEW b \in Reachable PROVE b \in Loaded
  <2> SUFFICES ASSUME b \notin Loaded PROVE FALSE
    OBVIOUS
  <2> DEFINE S == {c \in Ahead \ {b} : NoFurther(c, b)}
  <2>1. b \in Ahead /\ Cardinality(S) < maxArrays
    BY <1>3, ReachableIs
  <2>2. ~done /\ \A i \in 1 .. Len(arrays) : Before(arrays[i], b)
    BY <2>1 DEF PrefixInv
  <2>3. Loaded \in SUBSET S
    BY <2>2 DEF Loaded, PrefixInv, Before
  <2>4. IsFiniteSet(S)
    BY AheadFacts, FS_Subset
  <2>5. Cardinality(Loaded) = maxArrays
    <3>1. Len(arrays) \in 0 .. Len(arrays) /\ Len(arrays) = maxArrays
      BY <1>1, <2>2
    <3> QED
      BY <3>1, CountsLoaded DEF Loaded
  <2> HIDE DEF S
  <2>6. Cardinality(Loaded) <= Cardinality(S) /\ Cardinality(S) \in Nat
    BY <2>3, <2>4, FS_Subset, FS_CardinalityType
  <2> QED
    BY <1>1, <2>1, <2>5, <2>6
<1> QED
  BY <1>2, <1>3

\* A load starts past all that is loaded and before all that is not.
LEMMA NextStartSplits ==
    ASSUME WalkerTypes, PrefixInv, NEW b \in initialized
    PROVE  NoFurther(nextStart, b) <=> b \in Ahead /\ \A i \in 1 .. Len(arrays) : Before(arrays[i], b)
<1>1. arrays \in Seq(Int) /\ Len(arrays) \in Nat /\ zeroForOne \in BOOLEAN
  BY DEF WalkerTypes
<1>2. b \in Int /\ b % span = 0
  BY StartsAreInts DEF WalkerTypes
<1>3. CASE arrays = <<>>
  <2>1. Len(arrays) = 0 /\ nextStart = Home
    BY <1>3 DEF nextStart, Home
  <2> QED
    BY <2>1 DEF Ahead
<1>4. CASE arrays # <<>>
  <2> DEFINE n == Len(arrays)
             a == arrays[n]
  <2>1. n \in 1 .. n
    BY <1>1, <1>4, EmptySeq
  <2>2. nextStart = Beyond(a)
    BY <1>4 DEF nextStart, Beyond
  <2>3. a \in Ahead
    BY <2>1 DEF PrefixInv
  <2>4. a \in Int /\ a % span = 0 /\ NoFurther(Home, a) /\ Home \in Int
    BY <2>3, AheadFacts
  <2>5. NoFurther(nextStart, b) <=> Before(a, b)
    BY <1>2, <2>2, <2>4, NextArrayIsBeyond
  <2>6. \A i \in 1 .. n : arrays[i] \in Int /\ (i = n \/ Before(arrays[i], a))
    BY <1>1, <2>1 DEF PrefixInv
  <2>7. ASSUME Before(a, b) PROVE b \in Ahead /\ \A i \in 1 .. n : Before(arrays[i], b)
    <3>1. NoFurther(Home, b)
      BY <1>1, <1>2, <2>4, <2>7 DEF Before, NoFurther
    <3>2. ASSUME NEW i \in 1 .. n PROVE Before(arrays[i], b)
      <4> DEFINE c == arrays[i]
      <4>1. c \in Int /\ (c = a \/ Before(c, a))
        BY <2>6
      <4> HIDE DEF c
      <4>2. Before(c, b)
        BY <1>1, <1>2, <2>4, <2>7, <4>1 DEF Before, NoFurther
      <4> QED
        BY <4>2 DEF c
    <3> QED
      BY <3>1, <3>2 DEF Ahead
  <2> QED
    BY <2>1, <2>5, <2>7
<1> QED
  BY <1>3, <1>4

\* A set of array starts has a nearest one.
LEMMA NearestExists ==
    ASSUME NEW S \in SUBSET Starts, S # {}, zeroForOne \in BOOLEAN
    PROVE  Nearest(S) # {}
<1> DEFINE lo == LowTick - span
           hi == HighTick
           T == {t \in Nat : \E a \in S : t = IF zeroForOne THEN hi - a ELSE a - lo}
<1>1. lo \in Int /\ hi \in Int
  BY WalkerAssumption, SpanIsPositive DEF Pos
<1>2. \A a \in S : a \in lo .. hi
  BY DEF Starts
<1> HIDE DEF lo, hi
<1>3. \A a \in S : (IF zeroForOne THEN hi - a ELSE a - lo) \in T
  BY <1>1, <1>2
<1>4. T \in SUBSET Nat /\ T # {}
  BY <1>3
<1>5. PICK n \in T : \A k \in T : n <= k
  BY <1>4, LeastNatural
<1>6. PICK a \in S : n = IF zeroForOne THEN hi - a ELSE a - lo
  BY <1>5
<1>7. ASSUME NEW b \in S PROVE NoFurther(a, b)
  <2>1. n <= IF zeroForOne THEN hi - b ELSE b - lo
    BY <1>3, <1>5
  <2> QED
    BY <1>1, <1>2, <1>6, <2>1 DEF NoFurther
<1> QED
  BY <1>6, <1>7 DEF Nearest

-----------------------------------------------------------------------------
\* What a call answers

\* The stops a call may answer with.
Good == {t \in stops : (\E a \in Reachable : t \in Slots(a)) /\ Wants(t)}

Answered == pc = "idle" /\ asked => answer = Nearest(Good) \/ (err /\ answer = {})

LEMMA NextIsNearestGood == NextIsNearest <=> Answered
BY DEF NextIsNearest, Answered, Good, Wants

\* The nearest stop of the array being searched is the nearest of all.
LEMMA HitIsNearest ==
    ASSUME WalkerTypes, PrefixInv, SearchInv, current <= Len(arrays), found # {}
    PROVE  Nearest(found) = Nearest(Good)
<1> DEFINE c == arrays[current]
<1>1. arrays \in Seq(Int) /\ Len(arrays) \in Nat /\ zeroForOne \in BOOLEAN /\ stops \in SUBSET Int
  BY DEF WalkerTypes
<1>2. current \in 1 .. Len(arrays)
  BY <1>1 DEF SearchInv
<1>3. c \in Reachable
  BY <1>2, LoadedIsReachable
<1>4. found = {t \in Slots(c) \cap stops : Wants(t)}
  BY DEF found, Wants
<1>5. c \in Ahead /\ c \in Int /\ c % span = 0
  BY <1>2, AheadFacts DEF PrefixInv
<1>6. found \in SUBSET Good
  BY <1>3, <1>4 DEF Good
<1>7. ASSUME NEW t \in found, NEW u \in Good, u \notin found PROVE NoFurther(t, u) /\ ~NoFurther(u, t)
  <2>1. u \in stops /\ Wants(u)
    BY DEF Good
  <2>2. PICK a \in Reachable : u \in Slots(a)
    BY DEF Good
  <2>3. a \in Ahead
    BY ReachableIs
  <2>4. a \in Int /\ a % span = 0
    BY <2>3, AheadFacts
  <2>5. a # c
    BY <1>4, <1>7, <2>1, <2>2
  <2>6. Before(c, a)
    <3>1. CASE a \in Loaded
      <4>1. PICK k \in 1 .. Len(arrays) : a = arrays[k]
        BY <3>1 DEF Loaded
      <4>2. ~(k \in 1 .. current - 1)
        BY <4>1, <2>1, <2>2 DEF SearchInv
      <4>3. current < k
        BY <1>1, <1>2, <2>5, <4>1, <4>2
      <4> QED
        BY <1>2, <4>1, <4>3 DEF PrefixInv
    <3>2. CASE a \notin Loaded
      BY <1>2, <2>3, <3>2 DEF PrefixInv
    <3> QED
      BY <3>1, <3>2
  <2>7. NoFurther(Beyond(c), a)
    BY <1>5, <2>4, <2>6, NextArrayIsBeyond
  <2>8. t \in Int /\ c <= t /\ t < c + span
    BY <1>4, <1>5, SlotsInSpan
  <2>9. u \in Int /\ a <= u /\ u < a + span
    BY <2>2, <2>4, SlotsInSpan
  <2>10. span \in Int /\ span > 0
    BY SpanIsPositive DEF Pos
  <2> HIDE DEF c
  <2> QED
    BY <1>1, <1>5, <2>4, <2>7, <2>8, <2>9, <2>10 DEF NoFurther, Beyond
<1> HIDE DEF c
<1> QED
  BY <1>6, <1>7 DEF Nearest

\* Once every array the swap is given has been left, there is nothing to answer with.
LEMMA NothingIsLeft ==
    ASSUME WalkerTypes, PrefixInv, SearchInv, current > Len(arrays), Reachable = Loaded
    PROVE  Good = {}
<1>1. Len(arrays) \in Nat /\ current = Len(arrays) + 1
  BY DEF WalkerTypes, SearchInv
<1> SUFFICES ASSUME NEW t \in Good PROVE FALSE
  OBVIOUS
<1>2. t \in stops /\ Wants(t)
  BY DEF Good
<1>3. PICK i \in 1 .. Len(arrays) : t \in Slots(arrays[i])
  BY DEF Good, Loaded
<1> QED
  BY <1>1, <1>2, <1>3 DEF SearchInv

LEMMA NearestOfNothing == Nearest({}) = {}
BY DEF Nearest

-----------------------------------------------------------------------------
\* Every step keeps the invariant

\* While the pool and the walker's arguments stay, so does what they say.
LEMMA Frame ==
    ASSUME UNCHANGED <<chain, given>>
    PROVE  /\ Home' = Home /\ Ahead' = Ahead /\ Reachable' = Reachable
           /\ \A a, b : Before(a, b)' <=> Before(a, b)
           /\ \A a : Beyond(a)' = Beyond(a)
           /\ fromTick' = fromTick => Good' = Good /\ \A t : Wants(t)' <=> Wants(t)
           /\ Nearest(Good)' = Nearest(Good')
<1>1. zeroForOne' = zeroForOne /\ stops' = stops /\ initialized' = initialized
      /\ tickCurrent' = tickCurrent /\ maxArrays' = maxArrays
  BY DEF chain, given
<1>2. Home' = Home /\ Ahead' = Ahead
  BY <1>1 DEF Home, Ahead, NoFurther, RaydiumTickArrayStartIndex
<1>3. Reachable' = Reachable
  BY <1>1, Zenon DEF Reachable, NoFurther
<1>4. \A a, b : Before(a, b)' <=> Before(a, b)
  BY <1>1 DEF Before, NoFurther
<1>5. \A a : Beyond(a)' = Beyond(a)
  BY <1>1 DEF Beyond
<1>6. ASSUME fromTick' = fromTick PROVE Good' = Good /\ \A t : Wants(t)' <=> Wants(t)
  BY <1>1, <1>3, <1>6 DEF Good, Wants
<1>7. Nearest(Good)' = Nearest(Good')
  BY <1>1 DEF Nearest, NoFurther
<1> QED
  BY <1>2, <1>3, <1>4, <1>5, <1>6, <1>7

\* A step that loads nothing keeps what is known of the arrays.
LEMMA NoLoad ==
    ASSUME PrefixInv, LoadInv, UNCHANGED <<chain, given, arrays, done, err, loads>>
    PROVE  PrefixInv' /\ LoadInv'
<1>1. arrays' = arrays /\ done' = done /\ err' = err /\ loads' = loads /\ maxArrays' = maxArrays
      /\ zeroForOne' = zeroForOne
  BY DEF given
<1>2. Home' = Home /\ Ahead' = Ahead
  BY Frame
<1>5. Loaded' = Loaded
  BY <1>1 DEF Loaded
<1>6. PrefixInv'
  BY <1>1, <1>2, <1>5 DEF PrefixInv, Before, NoFurther
<1>7. LoadInv'
  BY <1>1, <1>2 DEF LoadInv, Beyond
<1> QED
  BY <1>6, <1>7

LEMMA NewWalkerStep ==
    ASSUME WalkerTypes, UNCHANGED chain, tickCurrent' = tickCurrent, maxArrays' = maxArrays,
           zeroForOne' \in BOOLEAN, arrays' = <<>>, current' = 1, done' = FALSE, err' = FALSE,
           pc' = "idle", fromTick' = tickCurrent, asked' = FALSE, loads' = <<>>
    PROVE  WalkerInv'
<1>1. WalkerTypes'
  <2>1. tickCurrent \in Int /\ <<>> \in Seq(Int)
    BY StartsAreInts DEF WalkerTypes
  <2>2. stops' = stops /\ initialized' = initialized
    BY DEF chain
  <2> QED
    BY <2>1, <2>2 DEF WalkerTypes
<1>2. Len(arrays') = 0 /\ Len(loads') = 0 /\ maxArrays' \in Nat
  BY DEF WalkerTypes
<1>3. PrefixInv'
  BY <1>2 DEF PrefixInv
<1>4. LoadInv'
  BY <1>2 DEF LoadInv
<1>5. SearchInv'
  BY <1>2 DEF SearchInv, NextIsNearest
<1> QED
  BY <1>1, <1>3, <1>4, <1>5 DEF WalkerInv

LEMMA InitWalkerInv == Init => WalkerInv
<1> SUFFICES ASSUME Init PROVE WalkerInv
  OBVIOUS
<1>1. WalkerTypes
  <2>1. stops \in SUBSET Int /\ tickCurrent \in Int
    BY StartsAreInts DEF Init, Aligned
  <2>2. maxArrays \in Nat
    BY WalkerAssumption DEF Init
  <2>3. <<>> \in Seq(Int)
    OBVIOUS
  <2>4. initialized \in SUBSET Starts /\ tickCurrent \in Ticks /\ zeroForOne \in BOOLEAN
    BY DEF Init
  <2>5. /\ arrays = <<>> /\ loads = <<>> /\ current = 1 /\ done = FALSE /\ err = FALSE
        /\ pc = "idle" /\ fromTick = tickCurrent /\ asked = FALSE
    BY DEF Init
  <2> QED
    BY <2>1, <2>2, <2>3, <2>4, <2>5 DEF WalkerTypes
<1>2. Len(arrays) = 0 /\ Len(loads) = 0 /\ maxArrays \in Nat
  BY <1>1 DEF Init, WalkerTypes
<1>3. PrefixInv
  BY <1>2 DEF PrefixInv, Init
<1>4. LoadInv
  BY <1>2 DEF LoadInv, Init
<1>5. SearchInv
  BY <1>2 DEF SearchInv, NextIsNearest, Init
<1> QED
  BY <1>1, <1>3, <1>4, <1>5 DEF WalkerInv

\* A caller that never turns back wants nothing of what has been left.
LEMMA NextStep ==
    ASSUME WalkerInv, NEW from \in Ticks, Next(from)
    PROVE  WalkerInv'
<1>1. WalkerTypes /\ PrefixInv /\ LoadInv /\ SearchInv
  BY DEF WalkerInv
<1>2. UNCHANGED <<chain, given, arrays, current, done, err, asked, loads>> /\ pc' = "search" /\ fromTick' = from
  BY DEF Next, walker
<1>3. from \in Int /\ fromTick \in Int /\ zeroForOne \in BOOLEAN /\ stops \in SUBSET Int
  BY <1>1, StartsAreInts DEF WalkerTypes
<1>4. WalkerTypes'
  BY <1>1, <1>2, <1>3 DEF WalkerTypes, chain, given, Starts, Ticks
<1>5. PrefixInv' /\ LoadInv'
  BY <1>1, <1>2, NoLoad
<1>6. NoFurther(fromTick, from) /\ (~asked => from = tickCurrent)
  BY <1>1, <1>3 DEF Next, SearchInv, NoFurther
<1>7. stops' = stops /\ zeroForOne' = zeroForOne /\ tickCurrent' = tickCurrent /\ maxArrays' = maxArrays
  BY <1>2 DEF chain, given
<1>8. ASSUME NEW k \in 1 .. current - 1, NEW t \in Slots(arrays[k]) \cap stops PROVE ~Wants(t)'
  <2>1. ~Wants(t) /\ t \in Int
    BY <1>1, <1>3 DEF SearchInv
  <2> QED
    BY <1>2, <1>3, <1>6, <1>7, <2>1 DEF Wants, NoFurther
<1>9. SearchInv'
  BY <1>1, <1>2, <1>6, <1>7, <1>8 DEF SearchInv, NextIsNearest
<1> QED
  BY <1>4, <1>5, <1>9 DEF WalkerInv

LEMMA CollectStep ==
    ASSUME WalkerInv, SwapTickArrayStarts
    PROVE  WalkerInv'
<1>1. WalkerTypes /\ PrefixInv /\ LoadInv /\ SearchInv
  BY DEF WalkerInv
<1>2. UNCHANGED <<chain, given, arrays, current, done, err, fromTick, asked, loads>> /\ pc' = "collect"
  BY DEF SwapTickArrayStarts, walker
<1>4. WalkerTypes'
  BY <1>1, <1>2 DEF WalkerTypes, chain, given, Starts, Ticks
<1>5. PrefixInv' /\ LoadInv'
  BY <1>1, <1>2, NoLoad
<1>6. stops' = stops /\ tickCurrent' = tickCurrent /\ maxArrays' = maxArrays
  BY <1>2 DEF chain, given
<1>7. \A t : Wants(t)' <=> Wants(t)
  BY <1>2, Frame
<1>8. SearchInv'
  BY <1>1, <1>2, <1>6, <1>7 DEF SearchInv, NextIsNearest
<1> QED
  BY <1>4, <1>5, <1>8 DEF WalkerInv

-----------------------------------------------------------------------------
\* The steps of a call

LEMMA HitStep ==
    ASSUME WalkerInv, SearchHit
    PROVE  WalkerInv'
<1>1. WalkerTypes /\ PrefixInv /\ LoadInv /\ SearchInv
  BY DEF WalkerInv
<1>2. UNCHANGED <<chain, given, arrays, current, done, err, fromTick, loads>>
  BY DEF SearchHit, walker
<1>3. pc' = "idle" /\ asked' = TRUE /\ answer' = Nearest(found)
  BY DEF SearchHit, Return
<1>4. answer' = Nearest(Good)
  BY <1>1, <1>3, HitIsNearest DEF SearchHit
<1>5. WalkerTypes'
  BY <1>1, <1>2, <1>3 DEF WalkerTypes, chain, given, Starts, Ticks
<1>6. PrefixInv' /\ LoadInv'
  BY <1>1, <1>2, NoLoad
<1>7. /\ \A t : Wants(t)' <=> Wants(t)
      /\ Good' = Good /\ Nearest(Good)' = Nearest(Good')
  BY <1>2, Frame
<1>8. NextIsNearest'
  <2>1. Answered'
    BY <1>4, <1>7 DEF Answered
  <2> QED
    BY <2>1, NextIsNearestGood, PTL
<1>9. SearchInv'
  BY <1>1, <1>2, <1>3, <1>7, <1>8 DEF SearchInv, chain, given
<1> QED
  BY <1>5, <1>6, <1>9 DEF WalkerInv

LEMMA MissStep ==
    ASSUME WalkerInv, SearchMiss
    PROVE  WalkerInv'
<1>1. WalkerTypes /\ PrefixInv /\ LoadInv /\ SearchInv
  BY DEF WalkerInv
<1>2. UNCHANGED <<chain, given, arrays, done, err, pc, fromTick, asked, loads>> /\ current' = current + 1
  BY DEF SearchMiss
<1>3. current \in Nat /\ Len(arrays) \in Nat /\ current <= Len(arrays) /\ pc = "search"
  BY <1>1 DEF SearchMiss, WalkerTypes
<1>4. WalkerTypes'
  BY <1>1, <1>2 DEF WalkerTypes, chain, given, Starts, Ticks
<1>5. PrefixInv' /\ LoadInv'
  BY <1>1, <1>2, NoLoad
<1>6. \A t : Wants(t)' <=> Wants(t)
  BY <1>2, Frame
<1>7. ASSUME NEW k \in 1 .. current, NEW t \in Slots(arrays[k]) \cap stops PROVE ~Wants(t)
  <2>1. CASE k = current
    BY <1>7, <2>1 DEF SearchMiss, found, Wants
  <2>2. CASE k # current
    <3>1. k \in 1 .. current - 1
      BY <1>3, <2>2
    <3> QED
      BY <1>1, <1>7, <3>1 DEF SearchInv
  <2> QED
    BY <2>1, <2>2
<1>8. current' - 1 = current /\ current' \in 1 .. Len(arrays) + 1
  BY <1>2, <1>3
<1>9. SearchInv'
  BY <1>1, <1>2, <1>3, <1>6, <1>7, <1>8 DEF SearchInv, NextIsNearest, chain, given
<1> QED
  BY <1>4, <1>5, <1>9 DEF WalkerInv

\* A call that finds no array answers nothing, and rightly so.
LEMMA EmptyAnswer ==
    ASSUME WalkerInv, Return({}), UNCHANGED <<chain, given, arrays, current, fromTick>>,
           pc \in {"search", "collect"}, pc = "search" => current > Len(arrays),
           err' \/ Reachable = Loaded, done' \/ err' \/ Len(arrays) = maxArrays
    PROVE  SearchInv'
<1>1. WalkerTypes /\ PrefixInv /\ SearchInv
  BY DEF WalkerInv
<1>2. pc' = (IF pc = "search" THEN "idle" ELSE "collected") /\ asked' = TRUE /\ answer' = {}
  BY DEF Return
<1>3. /\ \A t : Wants(t)' <=> Wants(t)
      /\ Good' = Good /\ Nearest(Good)' = Nearest(Good')
  BY Frame
<1>4. stops' = stops /\ tickCurrent' = tickCurrent /\ maxArrays' = maxArrays
  BY DEF chain, given
<1>5. NextIsNearest'
  <2>1. CASE err'
    <3>1. Answered'
      BY <1>2, <2>1 DEF Answered
    <3> QED
      BY <3>1, NextIsNearestGood, PTL
  <2>2. CASE pc = "collect"
    <3>1. pc' = "collected"
      BY <1>2, <2>2
    <3> QED
      BY <3>1 DEF NextIsNearest
  <2>3. CASE pc = "search" /\ ~err'
    <3>1. Good = {}
      BY <1>1, <2>3, NothingIsLeft
    <3>2. Nearest(Good)' = Nearest({})
      <4>1. Good' = {}
        BY <1>3, <3>1
      <4> QED
        BY <4>1 DEF Nearest
    <3>3. Answered'
      BY <1>2, <3>2, NearestOfNothing DEF Answered
    <3> QED
      BY <3>3, NextIsNearestGood, PTL
  <2> QED
    BY <2>1, <2>2, <2>3
<1> QED
  BY <1>1, <1>2, <1>3, <1>4, <1>5 DEF SearchInv

LEMMA NoArrayStep ==
    ASSUME WalkerInv, NoArray
    PROVE  WalkerInv'
<1>1. WalkerTypes /\ PrefixInv /\ LoadInv
  BY DEF WalkerInv
<1>2. UNCHANGED <<chain, given, arrays, current, done, err, fromTick, loads>> /\ Return({})
  BY DEF NoArray, walker
<1>3. pc' \in {"idle", "collected"} /\ asked' = TRUE
  BY <1>2 DEF Return
<1>4. WalkerTypes'
  BY <1>1, <1>2, <1>3 DEF WalkerTypes, chain, given, Starts, Ticks
<1>5. PrefixInv' /\ LoadInv'
  BY <1>1, <1>2, NoLoad
<1>6. /\ pc \in {"search", "collect"} /\ (pc = "search" => current > Len(arrays))
      /\ done \/ err \/ Len(arrays) = maxArrays
  BY DEF NoArray, Wanted, Exhausted
<1>7. err \/ Reachable = Loaded
  BY <1>1, <1>6, ExhaustedIsReachable
<1>8. SearchInv'
  BY <1>2, <1>6, <1>7, EmptyAnswer
<1> QED
  BY <1>4, <1>5, <1>8 DEF WalkerInv

LEMMA CollectedStep ==
    ASSUME WalkerInv, Collected
    PROVE  WalkerInv'
<1>1. WalkerTypes /\ PrefixInv /\ LoadInv
  BY DEF WalkerInv
<1>2. UNCHANGED <<chain, given, arrays, current, done, err, fromTick, loads>> /\ Return({})
  BY DEF Collected, walker
<1>3. pc = "collect" /\ Len(arrays) = maxArrays /\ pc' = "collected" /\ asked' = TRUE
  BY <1>2 DEF Collected, Return
<1>4. WalkerTypes'
  BY <1>1, <1>2, <1>3 DEF WalkerTypes, chain, given, Starts, Ticks
<1>5. PrefixInv' /\ LoadInv'
  BY <1>1, <1>2, NoLoad
<1>6. Reachable = Loaded
  BY <1>1, <1>3, ExhaustedIsReachable
<1>7. SearchInv'
  BY <1>2, <1>3, <1>6, EmptyAnswer
<1> QED
  BY <1>4, <1>5, <1>7 DEF WalkerInv

\* The load is recorded where it started.
LEMMA LoadIsRecorded ==
    ASSUME WalkerTypes, PrefixInv, LoadInv, ~Exhausted
    PROVE  LET more == Append(loads, nextStart)
           IN  /\ more \in Seq(Int) /\ Len(more) = Len(arrays) + 1
               /\ \A i \in 1 .. Len(more) : more[i] = IF i = 1 THEN Home ELSE Beyond(arrays[i - 1])
<1> DEFINE n == Len(arrays)
<1>1. arrays \in Seq(Int) /\ n \in Nat /\ loads \in Seq(Int) /\ Len(loads) = n
  BY DEF WalkerTypes, LoadInv, Exhausted
<1>2. nextStart = IF n = 0 THEN Home ELSE Beyond(arrays[n])
  BY <1>1, EmptySeq DEF nextStart, Home, Beyond
<1>3. nextStart \in Int
  <2>1. Home \in Int /\ span \in Int
    BY AheadFacts, SpanIsPositive DEF Pos
  <2>2. n > 0 => arrays[n] \in Int
    BY <1>1
  <2> QED
    BY <1>1, <1>2, <2>1, <2>2 DEF Beyond
<1>4. /\ Append(loads, nextStart) \in Seq(Int) /\ Len(Append(loads, nextStart)) = n + 1
      /\ \A i \in 1 .. n + 1 : Append(loads, nextStart)[i] = IF i = n + 1 THEN nextStart ELSE loads[i]
  BY <1>1, <1>3
<1>5. \A i \in 1 .. n : loads[i] = IF i = 1 THEN Home ELSE Beyond(arrays[i - 1])
  BY <1>1 DEF LoadInv
<1> QED
  BY <1>1, <1>2, <1>4, <1>5

LEMMA LoadFailsStep ==
    ASSUME WalkerInv, LoadFails
    PROVE  WalkerInv'
<1>1. WalkerTypes /\ PrefixInv /\ LoadInv
  BY DEF WalkerInv
<1>2. /\ UNCHANGED <<chain, given, arrays, current, done, fromTick>> /\ Return({})
      /\ err' = TRUE /\ loads' = Append(loads, nextStart)
  BY DEF LoadFails
<1>3. /\ pc \in {"search", "collect"} /\ (pc = "search" => current > Len(arrays)) /\ ~Exhausted
      /\ pc' \in {"idle", "collected"} /\ asked' = TRUE
  BY <1>2 DEF LoadFails, Wanted, Return
<1>4. LET more == Append(loads, nextStart)
      IN  /\ more \in Seq(Int) /\ Len(more) = Len(arrays) + 1
          /\ \A i \in 1 .. Len(more) : more[i] = IF i = 1 THEN Home ELSE Beyond(arrays[i - 1])
  BY <1>1, <1>3, LoadIsRecorded
<1>5. WalkerTypes'
  BY <1>1, <1>2, <1>3, <1>4 DEF WalkerTypes, chain, given, Starts, Ticks
<1>6. /\ arrays' = arrays /\ done' = done /\ maxArrays' = maxArrays /\ zeroForOne' = zeroForOne
      /\ Home' = Home /\ Ahead' = Ahead
  BY <1>2, Frame DEF given
<1>7. PrefixInv'
  <2>1. Loaded' = Loaded
    BY <1>6 DEF Loaded
  <2>2. Len(arrays) < maxArrays
    BY <1>1, <1>3 DEF PrefixInv, WalkerTypes, Exhausted
  <2> QED
    BY <1>1, <1>6, <2>1, <2>2 DEF PrefixInv, Before, NoFurther
<1>8. LoadInv'
  BY <1>2, <1>4, <1>6 DEF LoadInv, Beyond
<1>9. SearchInv'
  BY <1>2, <1>3, EmptyAnswer
<1> QED
  BY <1>5, <1>7, <1>8, <1>9 DEF WalkerInv

LEMMA LoadNotFoundStep ==
    ASSUME WalkerInv, LoadNotFound
    PROVE  WalkerInv'
<1>1. WalkerTypes /\ PrefixInv /\ LoadInv
  BY DEF WalkerInv
<1>2. /\ UNCHANGED <<chain, given, arrays, current, err, fromTick>> /\ Return({})
      /\ done' = TRUE /\ loads' = Append(loads, nextStart)
  BY DEF LoadNotFound
<1>3. /\ pc \in {"search", "collect"} /\ (pc = "search" => current > Len(arrays)) /\ ~Exhausted
      /\ pc' \in {"idle", "collected"} /\ asked' = TRUE
  BY <1>2 DEF LoadNotFound, Wanted, Return
<1>4. LET more == Append(loads, nextStart)
      IN  /\ more \in Seq(Int) /\ Len(more) = Len(arrays) + 1
          /\ \A i \in 1 .. Len(more) : more[i] = IF i = 1 THEN Home ELSE Beyond(arrays[i - 1])
  BY <1>1, <1>3, LoadIsRecorded
<1>5. WalkerTypes'
  BY <1>1, <1>2, <1>3, <1>4 DEF WalkerTypes, chain, given, Starts, Ticks
<1>6. /\ arrays' = arrays /\ err' = err /\ maxArrays' = maxArrays /\ zeroForOne' = zeroForOne
      /\ Home' = Home /\ Ahead' = Ahead
  BY <1>2, Frame DEF given
<1>7. Ahead \in SUBSET Loaded
  <2> SUFFICES ASSUME NEW b \in Ahead, b \notin Loaded PROVE FALSE
    OBVIOUS
  <2>1. \A i \in 1 .. Len(arrays) : Before(arrays[i], b)
    BY <1>1 DEF PrefixInv
  <2> DEFINE S == {a \in initialized : NoFurther(nextStart, a)}
  <2>2. b \in S
    BY <1>1, <2>1, NextStartSplits DEF Ahead
  <2>3. S \in SUBSET Starts /\ zeroForOne \in BOOLEAN
    BY <1>1 DEF WalkerTypes
  <2>4. Nearest(S) = {}
    BY DEF LoadNotFound, TickArrayLoader
  <2> HIDE DEF S
  <2> QED
    BY <2>2, <2>3, <2>4, NearestExists
<1>8. PrefixInv'
  <2>1. Loaded' = Loaded
    BY <1>6 DEF Loaded
  <2>2. Len(arrays) < maxArrays
    BY <1>1, <1>3 DEF PrefixInv, WalkerTypes, Exhausted
  <2> QED
    BY <1>1, <1>6, <1>7, <2>1, <2>2 DEF PrefixInv, Before, NoFurther
<1>9. LoadInv'
  BY <1>2, <1>4, <1>6 DEF LoadInv, Beyond
<1>10. Reachable = Loaded
  <2>1. Reachable \in SUBSET Ahead
    BY <1>1, ReachableIs
  <2>2. Loaded \in SUBSET Reachable
    BY <1>1, LoadedIsReachable DEF Loaded
  <2> QED
    BY <1>7, <2>1, <2>2
<1>11. SearchInv'
  BY <1>2, <1>3, <1>10, EmptyAnswer
<1> QED
  BY <1>5, <1>8, <1>9, <1>11 DEF WalkerInv

\* A load brings the next array ahead: what is loaded stays a prefix.
LEMMA LoadFoundStep ==
    ASSUME WalkerInv, LoadFound
    PROVE  WalkerInv'
<1>1. WalkerTypes /\ PrefixInv /\ LoadInv /\ SearchInv
  BY DEF WalkerInv
<1>2. PICK a \in TickArrayLoader(nextStart) : arrays' = Append(arrays, a)
  BY DEF LoadFound
<1>3. /\ UNCHANGED <<chain, given, current, done, err, pc, fromTick, asked>>
      /\ loads' = Append(loads, nextStart)
      /\ pc \in {"search", "collect"} /\ ~Exhausted
  BY DEF LoadFound, Wanted
<1> DEFINE n == Len(arrays)
<1>4. arrays \in Seq(Int) /\ n \in Nat /\ zeroForOne \in BOOLEAN
  BY <1>1 DEF WalkerTypes
<1>5. /\ a \in initialized /\ NoFurther(nextStart, a)
      /\ \A b \in initialized : NoFurther(nextStart, b) => NoFurther(a, b)
  BY <1>2 DEF TickArrayLoader, Nearest
<1>6. a \in Int
  BY <1>1, <1>5, StartsAreInts DEF WalkerTypes
<1>7. /\ arrays' \in Seq(Int) /\ Len(arrays') = n + 1 /\ arrays'[n + 1] = a
      /\ \A i \in 1 .. n : arrays'[i] = arrays[i]
  BY <1>2, <1>4, <1>6
<1>8. LET more == Append(loads, nextStart)
      IN  /\ more \in Seq(Int) /\ Len(more) = n + 1
          /\ \A i \in 1 .. Len(more) : more[i] = IF i = 1 THEN Home ELSE Beyond(arrays[i - 1])
  BY <1>1, <1>3, LoadIsRecorded
<1>9. WalkerTypes'
  BY <1>1, <1>3, <1>7, <1>8 DEF WalkerTypes, chain, given, Starts, Ticks
<1>10. /\ done' = done /\ err' = err /\ maxArrays' = maxArrays /\ zeroForOne' = zeroForOne
       /\ stops' = stops /\ tickCurrent' = tickCurrent /\ ~done /\ ~err
       /\ Home' = Home /\ Ahead' = Ahead
  BY <1>3, Frame DEF given, chain, Exhausted
<1>11. a \in Ahead /\ \A i \in 1 .. n : Before(arrays[i], a)
  BY <1>1, <1>5, NextStartSplits
<1>12. n + 1 <= maxArrays
  BY <1>1, <1>3, <1>4 DEF PrefixInv, WalkerTypes, Exhausted
<1>13. ASSUME NEW b \in Ahead
       PROVE  b \in Loaded' \/ \A i \in 1 .. n + 1 : Before(arrays'[i], b)
  <2>1. CASE b \in Loaded
    <3>1. PICK i \in 1 .. n : b = arrays[i]
      BY <2>1 DEF Loaded
    <3>2. i \in 1 .. Len(arrays') /\ b = arrays'[i]
      BY <1>4, <1>7, <3>1
    <3> QED
      BY <3>2 DEF Loaded
  <2>2. CASE b \notin Loaded
    <3>1. \A i \in 1 .. n : Before(arrays[i], b)
      BY <1>1, <2>2 DEF PrefixInv
    <3>2. NoFurther(a, b)
      BY <1>1, <1>5, <3>1, NextStartSplits DEF Ahead
    <3>3. CASE b = a
      <4>1. n + 1 \in 1 .. Len(arrays')
        BY <1>4, <1>7
      <4> QED
        BY <1>7, <3>3, <4>1 DEF Loaded
    <3>4. CASE b # a
      <4>1. Before(a, b)
        BY <3>2, <3>4 DEF Before
      <4>2. ASSUME NEW i \in 1 .. n + 1 PROVE Before(arrays'[i], b)
        <5>1. i \in 1 .. n \/ i = n + 1
          BY <1>4
        <5> QED
          BY <1>7, <3>1, <4>1, <5>1
      <4> QED
        BY <4>2
    <3> QED
      BY <3>3, <3>4
  <2> QED
    BY <2>1, <2>2
<1>14. PrefixInv'
  <2>1. ASSUME NEW i \in 1 .. n + 1, NEW j \in 1 .. n + 1, i < j
        PROVE  Before(arrays'[i], arrays'[j])
    <3>1. i \in 1 .. n
      BY <1>4, <2>1
    <3>2. j \in 1 .. n \/ j = n + 1
      BY <1>4
    <3> QED
      BY <1>1, <1>7, <1>11, <2>1, <3>1, <3>2 DEF PrefixInv
  <2>2. ASSUME NEW i \in 1 .. n + 1 PROVE arrays'[i] \in Ahead
    <3>1. i \in 1 .. n \/ i = n + 1
      BY <1>4
    <3> QED
      BY <1>1, <1>7, <1>11, <3>1 DEF PrefixInv
  <2>3. /\ Len(arrays') <= maxArrays'
        /\ \A i \in 1 .. Len(arrays') : arrays'[i] \in Ahead'
        /\ ~done' /\ ~err'
    BY <1>7, <1>10, <1>12, <2>2
  <2>4. \A i, j \in 1 .. Len(arrays') : i < j => Before(arrays[i], arrays[j])'
    BY <1>7, <1>10, <2>1 DEF Before, NoFurther
  <2>5. \A b \in Ahead' : b \in Loaded' \/ \A i \in 1 .. Len(arrays') : Before(arrays[i], b)'
    BY <1>7, <1>10, <1>13 DEF Before, NoFurther
  <2> QED
    BY <2>3, <2>4, <2>5 DEF PrefixInv
<1>15. LoadInv'
  <2> SUFFICES /\ Len(loads') = n + 1
               /\ \A i \in 1 .. n + 1 : loads'[i] = IF i = 1 THEN Home ELSE Beyond(arrays'[i - 1])
    BY <1>7, <1>10 DEF LoadInv, Beyond
  <2>1. Len(loads') = n + 1 /\ \A i \in 1 .. n + 1 : loads'[i] = IF i = 1 THEN Home ELSE Beyond(arrays[i - 1])
    BY <1>3, <1>8
  <2>2. ASSUME NEW i \in 1 .. n + 1, i # 1 PROVE arrays'[i - 1] = arrays[i - 1]
    <3>1. i - 1 \in 1 .. n
      BY <1>4, <2>2
    <3> QED
      BY <1>7, <3>1
  <2> QED
    BY <2>1, <2>2
<1>16. SearchInv'
  <2>1. \A t : Wants(t)' <=> Wants(t)
    BY <1>3, Frame
  <2>2. current \in 1 .. n + 1 /\ \A k \in 1 .. current - 1 : arrays'[k] = arrays[k]
    <3>1. current \in 1 .. n + 1
      BY <1>1 DEF SearchInv
    <3>2. ASSUME NEW k \in 1 .. current - 1 PROVE k \in 1 .. n
      BY <1>4, <3>1
    <3> QED
      BY <1>7, <3>1, <3>2
  <2>3. current' \in 1 .. Len(arrays') + 1
    BY <1>3, <1>4, <1>7, <2>2
  <2>4. \A k \in 1 .. current' - 1 : \A t \in Slots(arrays'[k]) \cap stops' : ~Wants(t)'
    BY <1>1, <1>3, <1>10, <2>1, <2>2 DEF SearchInv
  <2> QED
    BY <1>1, <1>3, <1>10, <2>3, <2>4 DEF SearchInv, NextIsNearest
<1> QED
  BY <1>9, <1>14, <1>15, <1>16 DEF WalkerInv

-----------------------------------------------------------------------------
\* The invariant and what it says

LEMMA WalkerInvStep == WalkerInv /\ [WalkerNext]_vars => WalkerInv'
<1> SUFFICES ASSUME WalkerInv, [WalkerNext]_vars PROVE WalkerInv'
  OBVIOUS
<1>1. CASE NewTickArrayWalker
  BY <1>1, NewWalkerStep DEF NewTickArrayWalker, WalkerInv
<1>2. CASE \E from \in Ticks : Next(from)
  BY <1>2, NextStep
<1>3. CASE SwapTickArrayStarts
  BY <1>3, CollectStep
<1>4. CASE SearchHit
  BY <1>4, HitStep
<1>5. CASE SearchMiss
  BY <1>5, MissStep
<1>6. CASE NoArray
  BY <1>6, NoArrayStep
<1>7. CASE Collected
  BY <1>7, CollectedStep
<1>8. CASE LoadFound
  BY <1>8, LoadFoundStep
<1>9. CASE LoadNotFound
  BY <1>9, LoadNotFoundStep
<1>10. CASE LoadFails
  BY <1>10, LoadFailsStep
<1>11. CASE UNCHANGED vars
  <2>1. UNCHANGED <<chain, given, arrays, current, done, err, pc, fromTick, asked, answer, loads>>
    BY <1>11 DEF vars, walker
  <2>2. WalkerTypes /\ PrefixInv /\ LoadInv /\ SearchInv
    BY DEF WalkerInv
  <2>3. WalkerTypes'
    BY <2>1, <2>2 DEF WalkerTypes, chain, given, Starts, Ticks
  <2>4. PrefixInv' /\ LoadInv'
    BY <2>1, <2>2, NoLoad
  <2>5. /\ \A t : Wants(t)' <=> Wants(t)
        /\ Good' = Good /\ Nearest(Good)' = Nearest(Good')
    BY <2>1, Frame
  <2>6. Nearest(Good') = Nearest(Good)
    BY <2>5
  <2>7. Answered'
    BY <2>1, <2>2, <2>5, <2>6, NextIsNearestGood DEF Answered, SearchInv
  <2>8. NextIsNearest'
    BY <2>7, NextIsNearestGood, PTL
  <2>9. SearchInv'
    BY <2>1, <2>2, <2>5, <2>8 DEF SearchInv, chain, given
  <2> QED
    BY <2>3, <2>4, <2>9 DEF WalkerInv
<1> QED
  BY <1>1, <1>2, <1>3, <1>4, <1>5, <1>6, <1>7, <1>8, <1>9, <1>10, <1>11 DEF WalkerNext, WalkerStep

LEMMA WalkerIsSound == Spec => []WalkerInv
BY InitWalkerInv, WalkerInvStep, PTL DEF Spec

\* For every pool, array width, bound and sequence of calls that never turns back, with
\* loads that may fail at any point, a call answers like a search of all the arrays the
\* swap is given (tick_array.go:85-98).
THEOREM AnswersAreNearest == Spec => []NextIsNearest
<1>1. WalkerInv => NextIsNearest
  BY DEF WalkerInv, SearchInv
<1> QED
  BY <1>1, WalkerIsSound, PTL

\* Two of m loads, of which at most the last one found no array, both follow n arrays.
LEMMA LoadsFollowArrays ==
    ASSUME NEW n \in Nat, NEW m \in Nat, m <= n + 1, NEW i \in 1 .. m, NEW j \in 1 .. m, i < j
    PROVE  i \in 1 .. n /\ j - 1 \in 1 .. n /\ j # 1 /\ i <= j - 1
OBVIOUS

\* The loader is called at most once for each array of the swap, ever further along, and
\* SwapTickArrayStarts returns exactly the arrays the swap is given or an error
\* (tick_array.go:39-52, 137-143).
THEOREM LoadsOnlyAdvance == Spec => []LoadsAdvance
<1>1. WalkerInv => LoadsAdvance
  <2> SUFFICES ASSUME WalkerInv PROVE LoadsAdvance
    OBVIOUS
  <2> DEFINE n == Len(arrays)
             m == Len(loads)
  <2>1. WalkerTypes /\ PrefixInv /\ LoadInv /\ SearchInv
    BY DEF WalkerInv
  <2>2. /\ arrays \in Seq(Int) /\ n \in Nat /\ maxArrays \in Nat /\ zeroForOne \in BOOLEAN
        /\ loads \in Seq(Int) /\ m \in Nat /\ DOMAIN loads = 1 .. m /\ DOMAIN arrays = 1 .. n
    BY <2>1 DEF WalkerTypes
  <2>3. m = n + (IF done \/ err THEN 1 ELSE 0) /\ m <= maxArrays
    BY <2>1, <2>2 DEF LoadInv, PrefixInv
  <2>4. \A i, j \in 1 .. n : i < j => arrays[i] # arrays[j] /\ NoFurther(arrays[i], arrays[j])
    BY <2>1 DEF PrefixInv, Before
  <2>5. ASSUME NEW i \in 1 .. m, NEW j \in 1 .. m, i < j
        PROVE  loads[i] # loads[j] /\ NoFurther(loads[i], loads[j])
    <3> DEFINE a == arrays[i]
               b == arrays[j - 1]
               c == arrays[i - 1]
    <3>1. i \in 1 .. n /\ j - 1 \in 1 .. n /\ j # 1 /\ i <= j - 1
      <4>1. n \in Nat /\ m \in Nat /\ m <= n + 1
        <5> HIDE DEF n, m
        <5> QED
          BY <2>2, <2>3
      <4> HIDE DEF n, m
      <4> QED
        BY <4>1, <2>5, LoadsFollowArrays
    <3>2. loads[j] = Beyond(b) /\ loads[i] = IF i = 1 THEN Home ELSE Beyond(c)
      BY <2>1, <3>1 DEF LoadInv
    <3>3. a \in Int /\ b \in Int /\ Home \in Int /\ NoFurther(Home, a) /\ span \in Int /\ span > 0
      BY <2>1, <3>1, AheadFacts, SpanIsPositive DEF PrefixInv, Pos
    <3>4. NoFurther(a, b)
      <4>1. i = j - 1 \/ NoFurther(arrays[i], arrays[j - 1])
        BY <2>2, <2>4, <3>1
      <4>2. NoFurther(b, b)
        BY <3>3 DEF NoFurther
      <4> QED
        BY <4>1, <4>2
    <3>5. i # 1 => c \in Int /\ NoFurther(Beyond(c), a)
      <4> SUFFICES ASSUME i # 1 PROVE c \in Int /\ NoFurther(Beyond(c), a)
        OBVIOUS
      <4>1. i - 1 \in 1 .. n /\ i - 1 < i
        BY <2>2, <3>1
      <4>2. c \in Ahead /\ a \in Ahead /\ Before(c, a)
        BY <2>1, <3>1, <4>1 DEF PrefixInv
      <4> HIDE DEF a, c
      <4>3. c \in Int /\ c % span = 0 /\ a \in Int /\ a % span = 0
        BY <2>1, <4>2, AheadFacts
      <4> QED
        BY <2>1, <4>2, <4>3, NextArrayIsBeyond
    <3> HIDE DEF a, b, c
    <3>6. loads[i] \in Int /\ NoFurther(loads[i], a)
      BY <2>2, <3>2, <3>3, <3>5 DEF Beyond
    <3>7. loads[i] \in Int /\ loads[j] = Beyond(b)
      BY <3>2, <3>6
    <3> HIDE DEF n, m
    <3> QED
      BY <2>2, <3>3, <3>4, <3>6, <3>7 DEF NoFurther, Beyond
  <2>6. ASSUME pc = "collected"
        PROVE  /\ \A i \in 1 .. n : arrays[i] \in Reachable
               /\ n = Cardinality(Reachable) \/ err
    <3>1. done \/ err \/ n = maxArrays
      BY <2>1, <2>6 DEF SearchInv
    <3>2. ASSUME ~err PROVE n = Cardinality(Reachable)
      <4>1. Reachable = Loaded
        BY <2>1, <3>1, <3>2, ExhaustedIsReachable
      <4>2. n \in 0 .. Len(arrays)
        BY <2>2
      <4> QED
        BY <2>1, <4>1, <4>2, CountsLoaded DEF Loaded
    <3> QED
      BY <2>1, <3>2, LoadedIsReachable
  <2> QED
    BY <2>2, <2>3, <2>4, <2>5, <2>6 DEF LoadsAdvance
<1> QED
  BY <1>1, WalkerIsSound, PTL

=============================================================================
