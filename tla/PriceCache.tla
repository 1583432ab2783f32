----------------------------- MODULE PriceCache -----------------------------
(***************************************************************************)
(* math/dlmm/price_cache.go: the direct-mapped, process-wide memo of bin   *)
(* prices behind GetPriceFromID, the only state goroutines share in this   *)
(* library.  A reader copies a slot under the read lock, compares the full *)
(* key after it has let the lock go, and on a miss computes without a lock *)
(* and overwrites the slot under the write lock.                           *)
(*                                                                         *)
(* A slot is two machine words, a key and a pointer, so its copy and its   *)
(* assignment are two steps each and only the lock makes them one.  Prices *)
(* live in heap objects: what the cache stores and what it hands out are   *)
(* pointers, and a caller may write through the pointer it was given.      *)
(***************************************************************************)
EXTENDS Integers

CONSTANTS Goroutines,   \* concurrent callers
          Inputs,       \* (activeID, binStep) pairs asked for
          ComputePrice, \* computePriceFromID: the price of an input, or Overflow
          Prices,       \* values of a *big.Int
          Overflow,     \* the error of the arithmetic
          Objects,      \* addresses of *big.Int objects
          Nil,          \* the nil pointer, also "nobody"
          HalfInt32,    \* 2^31: activeID is in -HalfInt32 .. HalfInt32 - 1
          MaxStep,      \* 2^16: binStep is in 0 .. MaxStep - 1
          KeyWord,      \* 2^64: width of the product in priceSlot
          GoldenRatio,  \* the Fibonacci multiplier
          SlotShift     \* 2^(64 - priceCacheBits)

ASSUME CacheAssumption ==
    /\ HalfInt32 \in Nat \ {0}
    /\ MaxStep \in Nat \ {0}
    /\ KeyWord \in Nat \ {0}
    /\ SlotShift \in Nat \ {0}
    /\ GoldenRatio \in Nat
    /\ Inputs # {}
    /\ Inputs \subseteq [activeID : -HalfInt32 .. HalfInt32 - 1,
                         binStep  : 0 .. MaxStep - 1]
    /\ ComputePrice \in [Inputs -> Prices \cup {Overflow}]
    /\ Overflow \notin Prices
    /\ Nil \notin Objects
    /\ Nil \notin Goroutines

\* priceKey packs the two inputs into one word; uint32(activeID) wraps negatives.
priceKey(in) ==
    (IF in.activeID < 0 THEN in.activeID + 2 * HalfInt32 ELSE in.activeID)
        + in.binStep * (2 * HalfInt32)

\* priceSlot: the top bits of the wrapped product.
priceSlot(key) == ((key * GoldenRatio) % KeyWord) \div SlotShift

Slots == {priceSlot(priceKey(in)) : in \in Inputs}
Keys  == {priceKey(in) : in \in Inputs} \cup {0}

VARIABLES pc,        \* pc[g]: where g is in cachedPriceFromID
          input,     \* input[g]: the arguments of g's call
          entryKey,  \* entry.key of g's copy of the slot
          src,       \* src[g]: entry.value, then value: the object to be cloned
          result,    \* result[g]: the object returned to g's caller
          slotKey,   \* priceCache[s].key
          slotValue, \* priceCache[s].value
          heap,      \* heap[o]: the number object o holds
          readers,   \* holders of priceCacheMu's read lock
          writer     \* the goroutine inside Lock .. Unlock, waiting included

callVars  == <<pc, input, entryKey, src, result>>
slotVars  == <<slotKey, slotValue>>
lockVars  == <<readers, writer>>
vars      == <<callVars, slotVars, heap, lockVars>>

slotOf(g) == priceSlot(priceKey(input[g]))

\* Objects some pointer of the program still reaches; the allocator reuses the others.
Reachable == {slotValue[s] : s \in Slots} \cup {src[g] : g \in Goroutines}
                 \cup {result[g] : g \in Goroutines}
Unused    == Objects \ Reachable

\* new(big.Int).Set(p): a fresh object holding p.
Allocate(o, p) ==
    /\ Unused # {}
    /\ o = CHOOSE u \in Unused : TRUE
    /\ heap' = [heap EXCEPT ![o] = p]

Init ==
    /\ pc        = [g \in Goroutines |-> "idle"]
    /\ input     \in [Goroutines -> Inputs]
    /\ \A g, h \in Goroutines : input[g] = input[h]
    /\ entryKey  = [g \in Goroutines |-> 0]
    /\ src       = [g \in Goroutines |-> Nil]
    /\ result    = [g \in Goroutines |-> Nil]
    /\ slotKey   = [s \in Slots |-> 0]
    /\ slotValue = [s \in Slots |-> Nil]
    /\ \E p \in Prices : heap = [o \in Objects |-> p]
    /\ readers   = {}
    /\ writer    = Nil

-----------------------------------------------------------------------------

Goto(g, from, to) ==
    /\ pc[g] = from
    /\ pc' = [pc EXCEPT ![g] = to]

Call(g, in) ==
    /\ Goto(g, "idle", "rlock")
    /\ input' = [input EXCEPT ![g] = in]
    /\ UNCHANGED <<entryKey, src, result, slotVars, heap, lockVars>>

\* Mutant: the slot is copied without the read lock keeping writers out.
RLockIgnoringWriter(g) ==
    /\ Goto(g, "rlock", "readKey")
    /\ readers' = readers \cup {g}
    /\ UNCHANGED <<input, entryKey, src, result, slotVars, heap, writer>>

\* Mutant: a lock whose waiting writer does not hold back new readers.
RLockReaderFirst(g) ==
    /\ \A h \in Goroutines : pc[h] \notin {"storeKey", "storeValue", "unlock"}
    /\ Goto(g, "rlock", "readKey")
    /\ readers' = readers \cup {g}
    /\ UNCHANGED <<input, entryKey, src, result, slotVars, heap, writer>>

\* A Lock that is waiting for readers to leave already keeps new ones out.
RLock(g) ==
    /\ writer = Nil
    /\ Goto(g, "rlock", "readKey")
    /\ readers' = readers \cup {g}
    /\ UNCHANGED <<input, entryKey, src, result, slotVars, heap, writer>>

ReadKey(g) ==
    /\ Goto(g, "readKey", "readValue")
    /\ entryKey' = [entryKey EXCEPT ![g] = slotKey[slotOf(g)]]
    /\ UNCHANGED <<input, src, result, slotVars, heap, lockVars>>

ReadValue(g) ==
    /\ Goto(g, "readValue", "runlock")
    /\ src' = [src EXCEPT ![g] = slotValue[slotOf(g)]]
    /\ UNCHANGED <<input, entryKey, result, slotVars, heap, lockVars>>

\* entry.value != nil && entry.key == key
Hit(g) == src[g] # Nil /\ entryKey[g] = priceKey(input[g])

RUnlock(g) ==
    /\ Goto(g, "runlock", IF Hit(g) THEN "clone" ELSE "compute")
    /\ readers' = readers \ {g}
    /\ src' = IF Hit(g) THEN src ELSE [src EXCEPT ![g] = Nil]
    /\ entryKey' = [entryKey EXCEPT ![g] = 0]
    /\ UNCHANGED <<input, result, slotVars, heap, writer>>

\* Mutant: the error of the arithmetic is dropped and its value cached.
ComputeDroppingError(g) ==
    /\ Goto(g, "compute", "lock")
    /\ \E o \in Objects :
           /\ Allocate(o, ComputePrice[input[g]])
           /\ src' = [src EXCEPT ![g] = o]
    /\ UNCHANGED <<input, entryKey, result, slotVars, lockVars>>

Compute(g) ==
    /\ ComputePrice[input[g]] # Overflow
    /\ Goto(g, "compute", "lock")
    /\ \E o \in Objects :
           /\ Allocate(o, ComputePrice[input[g]])
           /\ src' = [src EXCEPT ![g] = o]
    /\ UNCHANGED <<input, entryKey, result, slotVars, lockVars>>

ComputeFails(g) ==
    /\ ComputePrice[input[g]] = Overflow
    /\ Goto(g, "compute", "failed")
    /\ UNCHANGED <<input, entryKey, src, result, slotVars, heap, lockVars>>

\* Mutant: the store is made under a lock that does not exclude other writers.
LockAnnounceShared(g) ==
    /\ Goto(g, "lock", "drain")
    /\ writer' = g
    /\ UNCHANGED <<input, entryKey, src, result, slotVars, heap, readers>>

\* priceCacheMu.Lock: first shut out other writers and new readers, ...
LockAnnounce(g) ==
    /\ writer = Nil
    /\ Goto(g, "lock", "drain")
    /\ writer' = g
    /\ UNCHANGED <<input, entryKey, src, result, slotVars, heap, readers>>

\* ... then wait for the readers inside to leave.
LockAcquire(g) ==
    /\ readers = {}
    /\ Goto(g, "drain", "storeKey")
    /\ UNCHANGED <<input, entryKey, src, result, slotVars, heap, lockVars>>

StoreKey(g) ==
    /\ Goto(g, "storeKey", "storeValue")
    /\ slotKey' = [slotKey EXCEPT ![slotOf(g)] = priceKey(input[g])]
    /\ UNCHANGED <<input, entryKey, src, result, slotValue, heap, lockVars>>

StoreValue(g) ==
    /\ Goto(g, "storeValue", "unlock")
    /\ slotValue' = [slotValue EXCEPT ![slotOf(g)] = src[g]]
    /\ UNCHANGED <<input, entryKey, src, result, slotKey, heap, lockVars>>

Unlock(g) ==
    /\ Goto(g, "unlock", "clone")
    /\ writer' = Nil
    /\ UNCHANGED <<input, entryKey, src, result, slotVars, heap, readers>>

\* Mutant: the stored pointer itself is handed out.
CloneSharing(g) ==
    /\ Goto(g, "clone", "returned")
    /\ result' = [result EXCEPT ![g] = src[g]]
    /\ src' = [src EXCEPT ![g] = Nil]
    /\ UNCHANGED <<input, entryKey, slotVars, heap, lockVars>>

\* return new(big.Int).Set(...): the source is read with no lock held.
Clone(g) ==
    /\ Goto(g, "clone", "returned")
    /\ \E o \in Objects :
           /\ Allocate(o, heap[src[g]])
           /\ result' = [result EXCEPT ![g] = o]
    /\ src' = [src EXCEPT ![g] = Nil]
    /\ UNCHANGED <<input, entryKey, slotVars, lockVars>>

\* The caller scales or rounds the price it was given, in place.
CallerWrites(g, p) ==
    /\ pc[g] = "returned"
    /\ heap' = [heap EXCEPT ![result[g]] = p]
    /\ UNCHANGED <<callVars, slotVars, lockVars>>

CallerDrops(g) ==
    /\ pc[g] \in {"returned", "failed"}
    /\ pc' = [pc EXCEPT ![g] = "idle"]
    /\ result' = [result EXCEPT ![g] = Nil]
    /\ UNCHANGED <<input, entryKey, src, slotVars, heap, lockVars>>

\* The steps of cachedPriceFromID itself.
Step(g) ==
    \/ RLock(g) \/ ReadKey(g) \/ ReadValue(g) \/ RUnlock(g)
    \/ Compute(g) \/ ComputeFails(g)
    \/ LockAnnounce(g) \/ LockAcquire(g) \/ StoreKey(g) \/ StoreValue(g) \/ Unlock(g)
    \/ Clone(g)

Next ==
    \E g \in Goroutines :
        \/ \E in \in Inputs : Call(g, in)
        \/ Step(g)
        \/ \E p \in Prices : CallerWrites(g, p)
        \/ CallerDrops(g)

(***************************************************************************)
(* A running goroutine keeps being scheduled (weak fairness of its steps). *)
(* The two acquisitions wait for others; sync.RWMutex starves neither side *)
(* (a released writer lets the waiting readers in, and the mutex below it  *)
(* hands over to its longest waiter), hence strong fairness for them.      *)
(***************************************************************************)
Fairness ==
    \A g \in Goroutines :
        /\ WF_vars(Step(g))
        /\ SF_vars(RLock(g))
        /\ SF_vars(LockAnnounce(g))

Spec     == Init /\ [][Next]_vars
FairSpec == Spec /\ Fairness

-----------------------------------------------------------------------------

Locations == {"idle", "rlock", "readKey", "readValue", "runlock", "compute",
              "lock", "drain", "storeKey", "storeValue", "unlock", "clone",
              "returned", "failed"}

\* Type correctness of the calls, the cache, the heap and the lock.
TypeOK ==
    /\ pc \in [Goroutines -> Locations]
    /\ input \in [Goroutines -> Inputs]
    /\ entryKey \in [Goroutines -> Keys]
    /\ src \in [Goroutines -> Objects \cup {Nil}]
    /\ result \in [Goroutines -> Objects \cup {Nil}]
    /\ slotKey \in [Slots -> Keys]
    /\ slotValue \in [Slots -> Objects \cup {Nil}]
    /\ heap \in [Objects -> Prices]
    /\ readers \in SUBSET Goroutines
    /\ writer \in Goroutines \cup {Nil}

\* The slot a writer is between its two stores of; everybody else's is whole.
Torn(s) == \E g \in Goroutines : pc[g] = "storeValue" /\ slotOf(g) = s

\* Key and pointer of a filled slot belong together: the object holds the price
\* the arithmetic gives for an input with that key, whatever callers have done to
\* the copies they were given and however many keys share the slot.
SlotHoldsItsPrice ==
    \A s \in Slots : slotValue[s] # Nil /\ ~Torn(s) =>
        \E in \in Inputs :
            /\ priceKey(in) = slotKey[s]
            /\ priceSlot(priceKey(in)) = s
            /\ heap[slotValue[s]] = ComputePrice[in]

\* "It returns a CLONE": the object a caller owns is reachable from no slot, from
\* no call in flight and from no other caller, so writing it corrupts no quote.
ResultsUnaliased ==
    \A g \in Goroutines : pc[g] = "returned" =>
        /\ result[g] \in Objects
        /\ \A s \in Slots : slotValue[s] # result[g]
        /\ \A h \in Goroutines : src[h] # result[g]
        /\ \A h \in Goroutines \ {g} : result[h] # result[g]

\* Where each lock is held, and that a writer past the wait is alone.
LockInv ==
    /\ \A g \in Goroutines :
           pc[g] \in {"readKey", "readValue", "runlock"} <=> g \in readers
    /\ \A g \in Goroutines :
           pc[g] \in {"drain", "storeKey", "storeValue", "unlock"} <=> writer = g
    /\ (\E g \in Goroutines : pc[g] \in {"storeKey", "storeValue", "unlock"})
           => readers = {}

\* What the pointers of a call in flight stand for, location by location.
CallInv ==
    \A g \in Goroutines :
        /\ pc[g] \in {"clone", "lock", "drain", "storeKey", "storeValue", "unlock"} =>
               src[g] \in Objects /\ heap[src[g]] = ComputePrice[input[g]]
        /\ pc[g] = "readValue" => entryKey[g] = slotKey[slotOf(g)]
        /\ pc[g] = "runlock" =>
               entryKey[g] = slotKey[slotOf(g)] /\ src[g] = slotValue[slotOf(g)]
        /\ pc[g] = "storeValue" => slotKey[slotOf(g)] = priceKey(input[g])
        /\ pc[g] # "returned" => result[g] = Nil

\* The inductive invariant of the cache.
CacheInv ==
    /\ TypeOK
    /\ LockInv
    /\ CallInv
    /\ SlotHoldsItsPrice
    /\ ResultsUnaliased

\* What each caller sees is what a pure function would have told it: a hit, a
\* miss, a collision and an overwritten slot cannot be told apart (the comments of
\* price_cache.go and TestCachedPriceMatchesTheArithmetic), under every
\* interleaving of the calls.
Oracle == INSTANCE PriceOracle WITH
    asked  <- input,
    answer <- [g \in Goroutines |->
                 CASE pc[g] = "idle"     -> <<"idle">>
                   [] pc[g] = "failed"   -> <<"answered", Overflow>>
                   [] pc[g] = "returned" -> <<"answered", heap[result[g]]>>
                   [] OTHER              -> <<"pending">>]

ImplementsOracle == Oracle!OracleSpec

\* No caller is left waiting: a call that has begun returns a price or an error,
\* whatever the other goroutines keep asking for.
EveryCallReturns ==
    \A g \in Goroutines : (pc[g] = "rlock") ~> (pc[g] \in {"returned", "failed"})

=============================================================================
