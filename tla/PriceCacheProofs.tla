-------------------------- MODULE PriceCacheProofs --------------------------
(***************************************************************************)
(* The price cache is correct for any number of goroutines, slots, inputs  *)
(* and heap objects: CacheInv is inductive, and PriceCache implements      *)
(* PriceOracle.                                                            *)
(***************************************************************************)
EXTENDS PriceCache, TLAPS

\* priceKey loses nothing: two different inputs never share a key.
LEMMA KeyInjective ==
    ASSUME NEW a \in Inputs, NEW b \in Inputs, priceKey(a) = priceKey(b)
    PROVE  a = b
<1> DEFINE W == 2 * HalfInt32
           lo(in) == IF in.activeID < 0 THEN in.activeID + W ELSE in.activeID
<1>1. /\ HalfInt32 \in Nat /\ HalfInt32 > 0
      /\ a \in [activeID : -HalfInt32 .. HalfInt32 - 1, binStep : 0 .. MaxStep - 1]
      /\ b \in [activeID : -HalfInt32 .. HalfInt32 - 1, binStep : 0 .. MaxStep - 1]
      /\ MaxStep \in Nat
  BY CacheAssumption
<1>2. /\ W \in Nat
      /\ lo(a) \in 0 .. W - 1 /\ lo(b) \in 0 .. W - 1
      /\ a.binStep \in Nat /\ b.binStep \in Nat
  BY <1>1
<1>3. lo(a) + a.binStep * W = lo(b) + b.binStep * W
  BY DEF priceKey
<1> HIDE DEF W, lo
<1>4. ASSUME NEW x \in Nat, NEW y \in Nat, NEW p \in 0 .. W - 1, NEW q \in 0 .. W - 1,
             p + x * W = q + y * W
      PROVE  ~(x < y)
  <2> SUFFICES ASSUME x < y PROVE FALSE
    OBVIOUS
  <2>1. y * W >= (x + 1) * W
    BY <1>2, SMT
  <2>2. (x + 1) * W = x * W + W
    BY <1>2, SMT
  <2>3. x * W \in Nat /\ y * W \in Nat /\ (x + 1) * W \in Nat
    BY <1>2
  <2> QED
    BY <1>2, <1>4, <2>1, <2>2, <2>3
<1>5. a.binStep = b.binStep
  <2>1. ~(a.binStep < b.binStep)
    BY <1>2, <1>3, <1>4
  <2>2. ~(b.binStep < a.binStep)
    BY <1>2, <1>3, <1>4
  <2> QED
    BY <1>2, <2>1, <2>2
<1>6. lo(a) = lo(b)
  <2>1. a.binStep * W \in Nat
    BY <1>2
  <2> QED
    BY <1>2, <1>3, <1>5, <2>1
<1>7. a.activeID = b.activeID
  BY <1>1, <1>6 DEF lo, W
<1> QED
  BY <1>1, <1>5, <1>7

\* A key of an input addresses a slot and is storable in one.
LEMMA KeyTypes ==
    ASSUME NEW in \in Inputs
    PROVE  priceKey(in) \in Keys /\ priceSlot(priceKey(in)) \in Slots
BY DEF Keys, Slots

\* new(big.Int) returns an object no live pointer reaches, so filling it leaves
\* every object in use as it was.
LEMMA AllocateFresh ==
    ASSUME TypeOK, NEW o \in Objects, NEW p \in Prices, Allocate(o, p)
    PROVE  /\ o \in Objects
           /\ \A s \in Slots : slotValue[s] # o
           /\ \A g \in Goroutines : src[g] # o /\ result[g] # o
           /\ heap' \in [Objects -> Prices]
           /\ heap'[o] = p
           /\ \A u \in Objects \ {o} : heap'[u] = heap[u]
BY DEF Allocate, Unused, Reachable, TypeOK

LEMMA InitCacheInv == Init => CacheInv
<1> SUFFICES ASSUME Init PROVE CacheInv
  OBVIOUS
<1> USE CacheAssumption DEF Init
<1>1. TypeOK
  BY DEF TypeOK, Locations, Keys
<1>2. LockInv
  BY DEF LockInv
<1>3. CallInv
  BY DEF CallInv
<1>4. SlotHoldsItsPrice
  BY DEF SlotHoldsItsPrice
<1>5. ResultsUnaliased
  BY DEF ResultsUnaliased
<1> QED
  BY <1>1, <1>2, <1>3, <1>4, <1>5 DEF CacheInv

\* Every step of a call, of the lock and of a caller keeps the invariant.
LEMMA CacheInvStep == CacheInv /\ [Next]_vars => CacheInv'
<1> SUFFICES ASSUME CacheInv, [Next]_vars PROVE CacheInv'
  OBVIOUS
<1> USE CacheAssumption, KeyTypes DEF CacheInv
<1>1. ASSUME NEW g \in Goroutines, NEW in \in Inputs, Call(g, in) PROVE CacheInv'
  <2> USE <1>1 DEF Call, Goto, slotVars, lockVars, slotOf
  <2>1. TypeOK'
    BY DEF TypeOK, Locations
  <2>2. LockInv'
    BY DEF TypeOK, LockInv
  <2>3. CallInv'
    BY DEF TypeOK, CallInv
  <2>4. SlotHoldsItsPrice'
    BY DEF TypeOK, SlotHoldsItsPrice, Torn
  <2>5. ResultsUnaliased'
    BY DEF TypeOK, CallInv, ResultsUnaliased
  <2> QED
    BY <2>1, <2>2, <2>3, <2>4, <2>5
<1>2. ASSUME NEW g \in Goroutines, RLock(g) PROVE CacheInv'
  <2> USE <1>2 DEF RLock, Goto, slotVars, lockVars, slotOf
  <2>1. TypeOK'
    BY DEF TypeOK, Locations
  <2>2. LockInv'
    BY DEF TypeOK, LockInv
  <2>3. CallInv'
    BY DEF TypeOK, CallInv
  <2>4. SlotHoldsItsPrice'
    BY DEF TypeOK, SlotHoldsItsPrice, Torn
  <2>5. ResultsUnaliased'
    BY DEF TypeOK, CallInv, ResultsUnaliased
  <2> QED
    BY <2>1, <2>2, <2>3, <2>4, <2>5
<1>3. ASSUME NEW g \in Goroutines, ReadKey(g) PROVE CacheInv'
  <2> USE <1>3 DEF ReadKey, Goto, slotVars, lockVars, slotOf
  <2>1. TypeOK'
    BY DEF TypeOK, Locations
  <2>2. LockInv'
    BY DEF TypeOK, LockInv
  <2>3. CallInv'
    BY DEF TypeOK, CallInv
  <2>4. SlotHoldsItsPrice'
    BY DEF TypeOK, SlotHoldsItsPrice, Torn
  <2>5. ResultsUnaliased'
    BY DEF TypeOK, CallInv, ResultsUnaliased
  <2> QED
    BY <2>1, <2>2, <2>3, <2>4, <2>5
<1>4. ASSUME NEW g \in Goroutines, ReadValue(g) PROVE CacheInv'
  <2> USE <1>4 DEF ReadValue, Goto, slotVars, lockVars, slotOf
  <2>1. TypeOK'
    BY DEF TypeOK, Locations
  <2>2. LockInv'
    BY DEF TypeOK, LockInv
  <2>3. CallInv'
    BY DEF TypeOK, CallInv
  <2>4. SlotHoldsItsPrice'
    BY DEF TypeOK, SlotHoldsItsPrice, Torn
  <2>5. ResultsUnaliased'
    BY DEF TypeOK, CallInv, ResultsUnaliased
  <2> QED
    BY <2>1, <2>2, <2>3, <2>4, <2>5
<1>5. ASSUME NEW g \in Goroutines, RUnlock(g) PROVE CacheInv'
  <2> USE <1>5 DEF RUnlock, Hit, Goto, slotVars, lockVars, slotOf
  <2>1. TypeOK'
    BY DEF TypeOK, Locations, Keys
  <2>2. LockInv'
    BY DEF TypeOK, LockInv
  <2>3. CallInv'
    BY KeyInjective DEF TypeOK, CallInv, LockInv, SlotHoldsItsPrice, Torn
  <2>4. SlotHoldsItsPrice'
    BY DEF TypeOK, SlotHoldsItsPrice, Torn
  <2>5. ResultsUnaliased'
    BY DEF TypeOK, CallInv, ResultsUnaliased
  <2> QED
    BY <2>1, <2>2, <2>3, <2>4, <2>5
<1>6. ASSUME NEW g \in Goroutines, Compute(g) PROVE CacheInv'
  <2> USE <1>6 DEF Compute, Goto, slotVars, lockVars, slotOf
  <2>1. ComputePrice[input[g]] \in Prices
    BY DEF TypeOK
  <2>2. PICK o \in Objects : Allocate(o, ComputePrice[input[g]]) /\ src' = [src EXCEPT ![g] = o]
    OBVIOUS
  <2>3. /\ \A s \in Slots : slotValue[s] # o
        /\ \A h \in Goroutines : src[h] # o /\ result[h] # o
        /\ heap' \in [Objects -> Prices] /\ heap'[o] = ComputePrice[input[g]]
        /\ \A u \in Objects \ {o} : heap'[u] = heap[u]
    BY <2>1, <2>2, AllocateFresh
  <2>4. TypeOK'
    BY <2>2, <2>3 DEF TypeOK, Locations
  <2>5. LockInv'
    BY <2>2, <2>3 DEF TypeOK, LockInv
  <2>6. CallInv'
    BY <2>2, <2>3 DEF TypeOK, CallInv
  <2>7. SlotHoldsItsPrice'
    BY <2>2, <2>3 DEF TypeOK, SlotHoldsItsPrice, Torn
  <2>8. ResultsUnaliased'
    BY <2>2, <2>3 DEF TypeOK, CallInv, ResultsUnaliased
  <2> QED
    BY <2>4, <2>5, <2>6, <2>7, <2>8
<1>7. ASSUME NEW g \in Goroutines, ComputeFails(g) PROVE CacheInv'
  <2> USE <1>7 DEF ComputeFails, Goto, slotVars, lockVars, slotOf
  <2>1. TypeOK'
    BY DEF TypeOK, Locations
  <2>2. LockInv'
    BY DEF TypeOK, LockInv
  <2>3. CallInv'
    BY DEF TypeOK, CallInv
  <2>4. SlotHoldsItsPrice'
    BY DEF TypeOK, SlotHoldsItsPrice, Torn
  <2>5. ResultsUnaliased'
    BY DEF TypeOK, CallInv, ResultsUnaliased
  <2> QED
    BY <2>1, <2>2, <2>3, <2>4, <2>5
<1>8. ASSUME NEW g \in Goroutines, LockAnnounce(g) PROVE CacheInv'
  <2> USE <1>8 DEF LockAnnounce, Goto, slotVars, lockVars, slotOf
  <2>1. TypeOK'
    BY DEF TypeOK, Locations
  <2>2. LockInv'
    BY DEF TypeOK, LockInv
  <2>3. CallInv'
    BY DEF TypeOK, CallInv
  <2>4. SlotHoldsItsPrice'
    BY DEF TypeOK, SlotHoldsItsPrice, Torn
  <2>5. ResultsUnaliased'
    BY DEF TypeOK, CallInv, ResultsUnaliased
  <2> QED
    BY <2>1, <2>2, <2>3, <2>4, <2>5
<1>9. ASSUME NEW g \in Goroutines, LockAcquire(g) PROVE CacheInv'
  <2> USE <1>9 DEF LockAcquire, Goto, slotVars, lockVars, slotOf
  <2>1. TypeOK'
    BY DEF TypeOK, Locations
  <2>2. LockInv'
    BY DEF TypeOK, LockInv
  <2>3. CallInv'
    BY DEF TypeOK, CallInv
  <2>4. SlotHoldsItsPrice'
    BY DEF TypeOK, SlotHoldsItsPrice, Torn
  <2>5. ResultsUnaliased'
    BY DEF TypeOK, CallInv, ResultsUnaliased
  <2> QED
    BY <2>1, <2>2, <2>3, <2>4, <2>5
<1>10. ASSUME NEW g \in Goroutines, StoreKey(g) PROVE CacheInv'
  <2> USE <1>10 DEF StoreKey, Goto, slotVars, lockVars, slotOf
  <2>1. TypeOK'
    BY DEF TypeOK, Locations
  <2>2. LockInv'
    BY DEF TypeOK, LockInv
  <2>3. CallInv'
    BY DEF TypeOK, CallInv, LockInv
  <2>4. SlotHoldsItsPrice'
    BY DEF TypeOK, SlotHoldsItsPrice, Torn, LockInv, CallInv
  <2>5. ResultsUnaliased'
    BY DEF TypeOK, CallInv, ResultsUnaliased
  <2> QED
    BY <2>1, <2>2, <2>3, <2>4, <2>5
<1>11. ASSUME NEW g \in Goroutines, StoreValue(g) PROVE CacheInv'
  <2> USE <1>11 DEF StoreValue, Goto, slotVars, lockVars, slotOf
  <2>1. TypeOK'
    BY DEF TypeOK, Locations
  <2>2. LockInv'
    BY DEF TypeOK, LockInv
  <2>3. CallInv'
    BY DEF TypeOK, CallInv, LockInv
  <2>4. SlotHoldsItsPrice'
    BY DEF TypeOK, SlotHoldsItsPrice, Torn, LockInv, CallInv
  <2>5. ResultsUnaliased'
    BY DEF TypeOK, CallInv, ResultsUnaliased
  <2> QED
    BY <2>1, <2>2, <2>3, <2>4, <2>5
<1>12. ASSUME NEW g \in Goroutines, Unlock(g) PROVE CacheInv'
  <2> USE <1>12 DEF Unlock, Goto, slotVars, lockVars, slotOf
  <2>1. TypeOK'
    BY DEF TypeOK, Locations
  <2>2. LockInv'
    BY DEF TypeOK, LockInv
  <2>3. CallInv'
    BY DEF TypeOK, CallInv
  <2>4. SlotHoldsItsPrice'
    BY DEF TypeOK, SlotHoldsItsPrice, Torn
  <2>5. ResultsUnaliased'
    BY DEF TypeOK, CallInv, ResultsUnaliased
  <2> QED
    BY <2>1, <2>2, <2>3, <2>4, <2>5
<1>13. ASSUME NEW g \in Goroutines, Clone(g) PROVE CacheInv'
  <2> USE <1>13 DEF Clone, Goto, slotVars, lockVars, slotOf
  <2>1. heap[src[g]] \in Prices
    BY DEF TypeOK, CallInv
  <2>2. PICK o \in Objects : Allocate(o, heap[src[g]]) /\ result' = [result EXCEPT ![g] = o]
    OBVIOUS
  <2>3. /\ \A s \in Slots : slotValue[s] # o
        /\ \A h \in Goroutines : src[h] # o /\ result[h] # o
        /\ heap' \in [Objects -> Prices] /\ heap'[o] = heap[src[g]]
        /\ \A u \in Objects \ {o} : heap'[u] = heap[u]
    BY <2>1, <2>2, AllocateFresh
  <2>4. TypeOK'
    BY <2>2, <2>3 DEF TypeOK, Locations
  <2>5. LockInv'
    BY <2>2, <2>3 DEF TypeOK, LockInv
  <2>6. CallInv'
    BY <2>2, <2>3 DEF TypeOK, CallInv
  <2>7. SlotHoldsItsPrice'
    BY <2>2, <2>3 DEF TypeOK, SlotHoldsItsPrice, Torn
  <2>8. ResultsUnaliased'
    BY <2>2, <2>3 DEF TypeOK, CallInv, ResultsUnaliased
  <2> QED
    BY <2>4, <2>5, <2>6, <2>7, <2>8
<1>14. ASSUME NEW g \in Goroutines, NEW p \in Prices, CallerWrites(g, p) PROVE CacheInv'
  <2> USE <1>14 DEF CallerWrites, callVars, Goto, slotVars, lockVars, slotOf
  <2>1. TypeOK'
    BY DEF TypeOK, Locations
  <2>2. LockInv'
    BY DEF TypeOK, LockInv
  <2>3. CallInv'
    BY DEF TypeOK, CallInv, ResultsUnaliased
  <2>4. SlotHoldsItsPrice'
    BY DEF TypeOK, SlotHoldsItsPrice, Torn, ResultsUnaliased
  <2>5. ResultsUnaliased'
    BY DEF TypeOK, CallInv, ResultsUnaliased
  <2> QED
    BY <2>1, <2>2, <2>3, <2>4, <2>5
<1>15. ASSUME NEW g \in Goroutines, CallerDrops(g) PROVE CacheInv'
  <2> USE <1>15 DEF CallerDrops, Goto, slotVars, lockVars, slotOf
  <2>1. TypeOK'
    BY DEF TypeOK, Locations
  <2>2. LockInv'
    BY DEF TypeOK, LockInv
  <2>3. CallInv'
    BY DEF TypeOK, CallInv
  <2>4. SlotHoldsItsPrice'
    BY DEF TypeOK, SlotHoldsItsPrice, Torn
  <2>5. ResultsUnaliased'
    BY DEF TypeOK, CallInv, ResultsUnaliased
  <2> QED
    BY <2>1, <2>2, <2>3, <2>4, <2>5
<1>16. CASE UNCHANGED vars
  BY <1>16 DEF vars, callVars, slotVars, lockVars, TypeOK, LockInv, CallInv, slotOf,
       SlotHoldsItsPrice, Torn, ResultsUnaliased
<1> QED
  BY <1>1, <1>2, <1>3, <1>4, <1>5, <1>6, <1>7, <1>8, <1>9, <1>10, <1>11, <1>12, <1>13, <1>14, <1>15, <1>16 DEF Next, Step

\* CacheInv, and with it type correctness, holds in every reachable state.
THEOREM CacheCorrect == Spec => []CacheInv
<1>1. Init => CacheInv
  BY InitCacheInv
<1>2. CacheInv /\ [Next]_vars => CacheInv'
  BY CacheInvStep
<1> QED
  BY <1>1, <1>2, PTL DEF Spec

\* A filled slot always pairs a key with the price of that key.
THEOREM SlotsAreConsistent == Spec => []SlotHoldsItsPrice
<1>1. CacheInv => SlotHoldsItsPrice
  BY DEF CacheInv
<1> QED
  BY <1>1, CacheCorrect, PTL

\* Every variable keeps its type: in particular each pointer the memo or a call holds is
\* an object on the heap or nil (price.go).
THEOREM CacheIsTyped == Spec => []TypeOK
<1>1. CacheInv => TypeOK
  BY DEF CacheInv
<1> QED
  BY <1>1, CacheCorrect, PTL

\* No caller ever shares its price with the cache, a call or another caller.
THEOREM NoAliasing == Spec => []ResultsUnaliased
<1>1. CacheInv => ResultsUnaliased
  BY DEF CacheInv
<1> QED
  BY <1>1, CacheCorrect, PTL

-----------------------------------------------------------------------------

AnswerOf(g) == CASE pc[g] = "idle"     -> <<"idle">>
                 [] pc[g] = "failed"   -> <<"answered", Overflow>>
                 [] pc[g] = "returned" -> <<"answered", heap[result[g]]>>
                 [] OTHER              -> <<"pending">>

\* A step that leaves a goroutine's location kind and its own object alone leaves
\* its answer alone.
LEMMA AnswerKept ==
    ASSUME NEW h \in Goroutines,
           \/ pc'[h] = pc[h]
           \/ pc[h] \notin {"idle", "failed", "returned"}
              /\ pc'[h] \notin {"idle", "failed", "returned"},
           pc[h] = "returned" => result'[h] = result[h] /\ heap'[result[h]] = heap[result[h]]
    PROVE  AnswerOf(h)' = AnswerOf(h)
BY DEF AnswerOf

\* The initial states of the cache are initial states of the oracle.
LEMMA InitImplements == Init => Oracle!OracleInit
BY DEF Init, Oracle!OracleInit, Oracle!Idle

\* The answer function the refinement mapping substitutes.
Answers == [g \in Goroutines |-> AnswerOf(g)]

\* A step that changes the answer of g alone changes the mapped function at g.
LEMMA AnswersExcept ==
    ASSUME NEW g \in Goroutines, NEW a, AnswerOf(g)' = a,
           \A h \in Goroutines \ {g} : AnswerOf(h)' = AnswerOf(h)
    PROVE  Answers' = [Answers EXCEPT ![g] = a]
BY DEF Answers

\* Every step of the cache is a step of the oracle or leaves it unchanged.
LEMMA StepImplements ==
    CacheInv /\ [Next]_vars => [Oracle!OracleNext]_(Oracle!oracleVars)
<1> SUFFICES ASSUME CacheInv, [Next]_vars
             PROVE  Oracle!OracleNext \/ UNCHANGED Oracle!oracleVars
  OBVIOUS
<1> USE CacheAssumption DEF CacheInv
<1>a. ASSUME input' = input, \A h \in Goroutines : AnswerOf(h)' = AnswerOf(h)
      PROVE  UNCHANGED Oracle!oracleVars
  BY <1>a DEF Oracle!oracleVars, AnswerOf
<1>1. ASSUME NEW g \in Goroutines, RLock(g) PROVE UNCHANGED Oracle!oracleVars
  <2>1. ASSUME NEW h \in Goroutines PROVE AnswerOf(h)' = AnswerOf(h)
    BY <1>1, <2>1, AnswerKept DEF RLock, Goto, TypeOK
  <2> QED
    BY <1>1, <2>1, <1>a DEF RLock
<1>2. ASSUME NEW g \in Goroutines, ReadKey(g) PROVE UNCHANGED Oracle!oracleVars
  <2>1. ASSUME NEW h \in Goroutines PROVE AnswerOf(h)' = AnswerOf(h)
    BY <1>2, <2>1, AnswerKept DEF ReadKey, Goto, TypeOK
  <2> QED
    BY <1>2, <2>1, <1>a DEF ReadKey
<1>3. ASSUME NEW g \in Goroutines, ReadValue(g) PROVE UNCHANGED Oracle!oracleVars
  <2>1. ASSUME NEW h \in Goroutines PROVE AnswerOf(h)' = AnswerOf(h)
    BY <1>3, <2>1, AnswerKept DEF ReadValue, Goto, TypeOK
  <2> QED
    BY <1>3, <2>1, <1>a DEF ReadValue
<1>4. ASSUME NEW g \in Goroutines, RUnlock(g) PROVE UNCHANGED Oracle!oracleVars
  <2>1. ASSUME NEW h \in Goroutines PROVE AnswerOf(h)' = AnswerOf(h)
    BY <1>4, <2>1, AnswerKept DEF RUnlock, Goto, TypeOK
  <2> QED
    BY <1>4, <2>1, <1>a DEF RUnlock
<1>5. ASSUME NEW g \in Goroutines, LockAnnounce(g) PROVE UNCHANGED Oracle!oracleVars
  <2>1. ASSUME NEW h \in Goroutines PROVE AnswerOf(h)' = AnswerOf(h)
    BY <1>5, <2>1, AnswerKept DEF LockAnnounce, Goto, TypeOK
  <2> QED
    BY <1>5, <2>1, <1>a DEF LockAnnounce
<1>6. ASSUME NEW g \in Goroutines, LockAcquire(g) PROVE UNCHANGED Oracle!oracleVars
  <2>1. ASSUME NEW h \in Goroutines PROVE AnswerOf(h)' = AnswerOf(h)
    BY <1>6, <2>1, AnswerKept DEF LockAcquire, Goto, TypeOK
  <2> QED
    BY <1>6, <2>1, <1>a DEF LockAcquire
<1>7. ASSUME NEW g \in Goroutines, StoreKey(g) PROVE UNCHANGED Oracle!oracleVars
  <2>1. ASSUME NEW h \in Goroutines PROVE AnswerOf(h)' = AnswerOf(h)
    BY <1>7, <2>1, AnswerKept DEF StoreKey, Goto, TypeOK
  <2> QED
    BY <1>7, <2>1, <1>a DEF StoreKey
<1>8. ASSUME NEW g \in Goroutines, StoreValue(g) PROVE UNCHANGED Oracle!oracleVars
  <2>1. ASSUME NEW h \in Goroutines PROVE AnswerOf(h)' = AnswerOf(h)
    BY <1>8, <2>1, AnswerKept DEF StoreValue, Goto, TypeOK
  <2> QED
    BY <1>8, <2>1, <1>a DEF StoreValue
<1>9. ASSUME NEW g \in Goroutines, Unlock(g) PROVE UNCHANGED Oracle!oracleVars
  <2>1. ASSUME NEW h \in Goroutines PROVE AnswerOf(h)' = AnswerOf(h)
    BY <1>9, <2>1, AnswerKept DEF Unlock, Goto, TypeOK
  <2> QED
    BY <1>9, <2>1, <1>a DEF Unlock
<1>10. ASSUME NEW g \in Goroutines, Compute(g) PROVE UNCHANGED Oracle!oracleVars
  <2>1. ComputePrice[input[g]] \in Prices
    BY <1>10 DEF Compute, TypeOK
  <2>2. PICK o \in Objects : Allocate(o, ComputePrice[input[g]])
    BY <1>10 DEF Compute
  <2>3. /\ \A h \in Goroutines : result[h] # o
        /\ \A u \in Objects \ {o} : heap'[u] = heap[u]
    BY <2>1, <2>2, AllocateFresh
  <2>4. ASSUME NEW h \in Goroutines PROVE AnswerOf(h)' = AnswerOf(h)
    BY <1>10, <2>3, <2>4, AnswerKept DEF Compute, Goto, TypeOK, ResultsUnaliased
  <2> QED
    BY <1>10, <2>4, <1>a DEF Compute
<1>11. ASSUME NEW g \in Goroutines, NEW in \in Inputs, Call(g, in) PROVE Oracle!OracleNext
  <2>8. \A h \in Goroutines \ {g} : AnswerOf(h)' = AnswerOf(h)
    BY <1>11, AnswerKept DEF Call, Goto, callVars, TypeOK, ResultsUnaliased
  <2>9. AnswerOf(g)' = <<"pending">>
    BY <1>11 DEF AnswerOf, Call, Goto, callVars, TypeOK, ResultsUnaliased
  <2>10. Answers' = [Answers EXCEPT ![g] = <<"pending">>]
    BY <2>8, <2>9, AnswersExcept
  <2>11. Oracle!Ask(g, in)
    BY <1>11, <2>10 DEF Oracle!Ask, Oracle!Idle, Oracle!Pending, Answers, AnswerOf, Call,
         Goto, callVars, TypeOK, CallInv, ResultsUnaliased
  <2> QED
    BY <1>11, <2>11 DEF Oracle!OracleNext
<1>12. ASSUME NEW g \in Goroutines, ComputeFails(g) PROVE Oracle!OracleNext
  <2>8. \A h \in Goroutines \ {g} : AnswerOf(h)' = AnswerOf(h)
    BY <1>12, AnswerKept DEF ComputeFails, Goto, callVars, TypeOK, ResultsUnaliased
  <2>9. AnswerOf(g)' = <<"answered", ComputePrice[input[g]]>>
    BY <1>12 DEF AnswerOf, ComputeFails, Goto, callVars, TypeOK, ResultsUnaliased
  <2>10. Answers' = [Answers EXCEPT ![g] = <<"answered", ComputePrice[input[g]]>>]
    BY <2>8, <2>9, AnswersExcept
  <2>11. Oracle!Answer(g)
    BY <1>12, <2>10 DEF Oracle!Answer, Oracle!Idle, Oracle!Pending, Answers, AnswerOf, ComputeFails,
         Goto, callVars, TypeOK, CallInv, ResultsUnaliased
  <2> QED
    BY <2>11 DEF Oracle!OracleNext
<1>13. ASSUME NEW g \in Goroutines, Clone(g) PROVE Oracle!OracleNext
  <2>1. heap[src[g]] \in Prices /\ heap[src[g]] = ComputePrice[input[g]]
    BY <1>13 DEF Clone, Goto, TypeOK, CallInv
  <2>2. PICK o \in Objects :
            Allocate(o, heap[src[g]]) /\ result' = [result EXCEPT ![g] = o]
    BY <1>13 DEF Clone
  <2>3. /\ \A h \in Goroutines : result[h] # o
        /\ heap'[o] = ComputePrice[input[g]]
        /\ \A u \in Objects \ {o} : heap'[u] = heap[u]
    BY <2>1, <2>2, AllocateFresh
  <2>8. \A h \in Goroutines \ {g} : AnswerOf(h)' = AnswerOf(h)
    BY <1>13, <2>2, <2>3, AnswerKept DEF Clone, Goto, callVars, TypeOK, ResultsUnaliased
  <2>9. AnswerOf(g)' = <<"answered", ComputePrice[input[g]]>>
    BY <1>13, <2>2, <2>3 DEF AnswerOf, Clone, Goto, callVars, TypeOK, ResultsUnaliased
  <2>10. Answers' = [Answers EXCEPT ![g] = <<"answered", ComputePrice[input[g]]>>]
    BY <2>8, <2>9, AnswersExcept
  <2>11. Oracle!Answer(g)
    BY <1>13, <2>2, <2>3, <2>10 DEF Oracle!Answer, Oracle!Idle, Oracle!Pending, Answers, AnswerOf, Clone,
         Goto, callVars, TypeOK, CallInv, ResultsUnaliased
  <2> QED
    BY <2>11 DEF Oracle!OracleNext
<1>14. ASSUME NEW g \in Goroutines, NEW p \in Prices, CallerWrites(g, p) PROVE Oracle!OracleNext
  <2>8. \A h \in Goroutines \ {g} : AnswerOf(h)' = AnswerOf(h)
    BY <1>14, AnswerKept DEF CallerWrites, Goto, callVars, TypeOK, ResultsUnaliased
  <2>9. AnswerOf(g)' = <<"answered", p>>
    BY <1>14 DEF AnswerOf, CallerWrites, Goto, callVars, TypeOK, ResultsUnaliased
  <2>10. Answers' = [Answers EXCEPT ![g] = <<"answered", p>>]
    BY <2>8, <2>9, AnswersExcept
  <2>11. Oracle!Overwrite(g, p)
    BY <1>14, <2>10 DEF Oracle!Overwrite, Oracle!Idle, Oracle!Pending, Answers, AnswerOf, CallerWrites,
         Goto, callVars, TypeOK, CallInv, ResultsUnaliased
  <2> QED
    BY <1>14, <2>11 DEF Oracle!OracleNext
<1>15. ASSUME NEW g \in Goroutines, CallerDrops(g) PROVE Oracle!OracleNext
  <2>8. \A h \in Goroutines \ {g} : AnswerOf(h)' = AnswerOf(h)
    BY <1>15, AnswerKept DEF CallerDrops, Goto, callVars, TypeOK, ResultsUnaliased
  <2>9. AnswerOf(g)' = <<"idle">>
    BY <1>15 DEF AnswerOf, CallerDrops, Goto, callVars, TypeOK, ResultsUnaliased
  <2>10. Answers' = [Answers EXCEPT ![g] = <<"idle">>]
    BY <2>8, <2>9, AnswersExcept
  <2>11. Oracle!Forget(g)
    BY <1>15, <2>10 DEF Oracle!Forget, Oracle!Idle, Oracle!Pending, Answers, AnswerOf, CallerDrops,
         Goto, callVars, TypeOK, CallInv, ResultsUnaliased
  <2> QED
    BY <2>11 DEF Oracle!OracleNext
<1>16. CASE UNCHANGED vars
  BY <1>16 DEF vars, callVars, Oracle!oracleVars
<1> QED
  BY <1>1, <1>2, <1>3, <1>4, <1>5, <1>6, <1>7, <1>8, <1>9,
     <1>10, <1>11, <1>12, <1>13, <1>14, <1>15, <1>16
     DEF Next, Step

\* GetPriceFromID, memo, lock, collisions and all, behaves as the pure function it
\* replaces.
THEOREM CacheImplementsOracle == Spec => ImplementsOracle
<1>1. Init => Oracle!OracleInit
  BY InitImplements
<1>2. CacheInv /\ [Next]_vars => [Oracle!OracleNext]_(Oracle!oracleVars)
  BY StepImplements
<1> QED
  BY <1>1, <1>2, CacheCorrect, PTL DEF Spec, ImplementsOracle, Oracle!OracleSpec

=============================================================================
