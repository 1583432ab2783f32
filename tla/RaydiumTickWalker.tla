-------------------------- MODULE RaydiumTickWalker --------------------------
(***************************************************************************)
(* quote/raydium/tick_array.go: TickArrayWalker, the TickProvider a quote  *)
(* uses, and SwapTickArrayStarts.  The walker loads initialized tick       *)
(* arrays one by one through a loader that may fail, remembers them, and   *)
(* never looks back at an array it has left.  The loader reads the chain;  *)
(* it is modelled from its documented contract.                            *)
(***************************************************************************)
EXTENDS Integers, Sequences, FiniteSets

CONSTANTS TicksPerArray,     \* 60
          TickSpacing,       \* only multiples of it can be initialized
          LowTick, HighTick, \* the ticks of the instance
          MaxArrays          \* bounds the arrays one swap is given

ASSUME WalkerAssumption ==
    /\ TicksPerArray \in Nat \ {0}
    /\ TickSpacing \in Nat \ {0}
    /\ LowTick \in Int /\ HighTick \in Int /\ LowTick <= HighTick
    /\ MaxArrays \in Nat

span == TickSpacing * TicksPerArray

\* Go's truncating division, corrected to a floor.
RaydiumTickArrayStartIndex(tick) ==
    LET start == IF tick >= 0 THEN tick \div span ELSE -((-tick) \div span)
    IN  (IF tick < 0 /\ tick % span # 0 THEN start - 1 ELSE start) * span

Ticks   == LowTick .. HighTick
Aligned == {t \in Ticks : t % TickSpacing = 0}

\* TickArray: the ticks of the array that starts at a, each at a fixed offset.
Slots(a) == {a + i * TickSpacing : i \in 0 .. TicksPerArray - 1}
Starts   == {a \in LowTick - span .. HighTick :
                a % span = 0 /\ Slots(a) \cap Ticks # {}}

VARIABLES stops,       \* on chain: ticks with liquidity or resting orders
          initialized, \* on chain: arrays whose bitmap bit is set
          tickCurrent, maxArrays, zeroForOne,   \* what the walker is built with
          arrays,      \* start indexes of the arrays loaded so far
          current,     \* the array being searched, from 1
          done, err,   \* the loader found no further array; it failed
          pc,          \* the call in progress
          fromTick,    \* its argument
          asked,       \* some call of Next has returned
          answer,      \* the last result: a set with the boundary, or {} for !ok
          loads        \* history: the start indexes the loader was asked for

chain  == <<stops, initialized>>
given  == <<tickCurrent, maxArrays, zeroForOne>>
walker == <<arrays, current, done, err>>
vars   == <<chain, given, walker, pc, fromTick, asked, answer, loads>>

\* a is no further than b in the swap direction.
NoFurther(a, b) == IF zeroForOne THEN a >= b ELSE a <= b
Nearest(S)      == {t \in S : \A u \in S : NoFurther(t, u)}

\* The loader's answer: the first initialized array at or past start.
TickArrayLoader(start) == Nearest({a \in initialized : NoFurther(start, a)})

\* NewTickArrayWalker on any pool of the instance.
Init ==
    /\ stops \in SUBSET Aligned
    /\ initialized \in SUBSET Starts
    /\ \A t \in stops : \E a \in initialized : t \in Slots(a)
    /\ tickCurrent \in Ticks
    /\ maxArrays \in 0 .. MaxArrays
    /\ zeroForOne \in BOOLEAN
    /\ arrays = <<>> /\ current = 1 /\ done = FALSE /\ err = FALSE
    /\ pc = "idle" /\ fromTick = tickCurrent /\ asked = FALSE /\ answer = {} /\ loads = <<>>

\* NewTickArrayWalker again: a walker serves one quote.
NewTickArrayWalker ==
    /\ pc \in {"idle", "collected"}
    /\ zeroForOne' \in BOOLEAN
    /\ arrays' = <<>> /\ current' = 1 /\ done' = FALSE /\ err' = FALSE
    /\ pc' = "idle" /\ fromTick' = tickCurrent /\ asked' = FALSE /\ answer' = {} /\ loads' = <<>>
    /\ UNCHANGED <<chain, tickCurrent, maxArrays>>

\* A quote's first query is its current tick; a later one never turns back.
Next(from) ==
    /\ pc = "idle"
    /\ IF asked THEN NoFurther(fromTick, from) ELSE from = tickCurrent
    /\ fromTick' = from
    /\ pc' = "search"
    /\ UNCHANGED <<chain, given, walker, asked, answer, loads>>

\* SwapTickArrayStarts: array after array of a new walker, none of them searched.
SwapTickArrayStarts ==
    /\ pc = "idle" /\ arrays = <<>> /\ ~asked
    /\ pc' = "collect"
    /\ UNCHANGED <<chain, given, walker, fromTick, asked, answer, loads>>

\* The caller has its result.
Return(result) ==
    /\ pc' = IF pc = "search" THEN "idle" ELSE "collected"
    /\ asked' = TRUE
    /\ answer' = result

\* The ticks of the current array at which a search may stop.
found == {t \in Slots(arrays[current]) \cap stops :
             IF zeroForOne THEN t <= fromTick ELSE t > fromTick}

\* search finds a boundary in the current array ...
SearchHit ==
    /\ pc = "search" /\ current <= Len(arrays)
    /\ found # {}
    /\ Return(Nearest(found))
    /\ UNCHANGED <<chain, given, walker, fromTick, loads>>

\* ... or leaves the array for good.
SearchMiss ==
    /\ pc = "search" /\ current <= Len(arrays)
    /\ found = {}
    /\ current' = current + 1
    /\ UNCHANGED <<chain, given, arrays, done, err, pc, fromTick, asked, answer, loads>>

\* array(i) for an i that is not loaded yet ...
Wanted == \/ pc = "search" /\ current > Len(arrays)
          \/ pc = "collect" /\ Len(arrays) < maxArrays

\* Mutant: a walk not bounded by the arrays the swap is given.
ExhaustedUnbounded == done \/ err

\* ... and that no further load may bring.
Exhausted == done \/ err \/ Len(arrays) = maxArrays

nextStart == IF arrays = <<>> THEN RaydiumTickArrayStartIndex(tickCurrent)
             ELSE IF zeroForOne THEN arrays[Len(arrays)] - span
             ELSE arrays[Len(arrays)] + span

NoArray ==
    /\ Wanted /\ Exhausted
    /\ Return({})
    /\ UNCHANGED <<chain, given, walker, fromTick, loads>>

\* SwapTickArrayStarts has all it asked for.
Collected ==
    /\ pc = "collect" /\ Len(arrays) = maxArrays
    /\ Return({})
    /\ UNCHANGED <<chain, given, walker, fromTick, loads>>

LoadFound ==
    /\ Wanted /\ ~Exhausted
    /\ \E a \in TickArrayLoader(nextStart) : arrays' = Append(arrays, a)
    /\ loads' = Append(loads, nextStart)
    /\ UNCHANGED <<chain, given, current, done, err, pc, fromTick, asked, answer>>

LoadNotFound ==
    /\ Wanted /\ ~Exhausted
    /\ TickArrayLoader(nextStart) = {}
    /\ done' = TRUE
    /\ loads' = Append(loads, nextStart)
    /\ Return({})
    /\ UNCHANGED <<chain, given, arrays, current, err, fromTick>>

\* Mutant: a failed load is taken for the end of the pool.
LoadFailsSilently ==
    /\ Wanted /\ ~Exhausted
    /\ done' = TRUE
    /\ loads' = Append(loads, nextStart)
    /\ Return({})
    /\ UNCHANGED <<chain, given, arrays, current, err, fromTick>>

LoadFails ==
    /\ Wanted /\ ~Exhausted
    /\ err' = TRUE
    /\ loads' = Append(loads, nextStart)
    /\ Return({})
    /\ UNCHANGED <<chain, given, arrays, current, done, fromTick>>

WalkerStep ==
    \/ SearchHit \/ SearchMiss \/ NoArray \/ Collected
    \/ LoadFound \/ LoadNotFound \/ LoadFails

WalkerNext ==
    \/ NewTickArrayWalker
    \/ \E from \in Ticks : Next(from)
    \/ SwapTickArrayStarts
    \/ WalkerStep

Spec == Init /\ [][WalkerNext]_vars

-----------------------------------------------------------------------------

\* The arrays one swap_v2 is given: the first maxArrays initialized ones from the
\* array whose range holds the current tick.
Reachable ==
    LET holds(a) == a <= tickCurrent /\ tickCurrent < a + span
        first    == CHOOSE a \in LowTick - span .. HighTick : a % span = 0 /\ holds(a)
        ahead    == {a \in initialized : NoFurther(first, a)}
    IN  {a \in ahead : Cardinality({b \in ahead \ {a} : NoFurther(b, a)}) < maxArrays}

\* The provider's contract (tick_array.go:85-98, 54-57), for every caller that never
\* turns back: a call answers with the nearest stop of the arrays the swap is given,
\* across any number of empty or skipped arrays; it answers !ok only when there is
\* none, or when the loader failed and Err says so.
NextIsNearest ==
    pc = "idle" /\ asked =>
        \/ answer = Nearest({t \in stops :
                        /\ \E a \in Reachable : t \in Slots(a)
                        /\ IF zeroForOne THEN t <= fromTick ELSE t > fromTick})
        \/ err /\ answer = {}

\* However many calls a quote makes, the loader is called at most once for each array
\* the swap may use, ever further along, and never again after it failed
\* (tick_array.go:80, 137, 143); and SwapTickArrayStarts (tick_array.go:39-52) returns
\* exactly the arrays the swap is given, a proper prefix only together with an error.
LoadsAdvance ==
    /\ Len(loads) <= maxArrays
    /\ \A i, j \in DOMAIN loads : i < j => loads[i] # loads[j] /\ NoFurther(loads[i], loads[j])
    /\ Len(loads) = Len(arrays) + (IF done \/ err THEN 1 ELSE 0)
    /\ \A i, j \in DOMAIN arrays : i < j => arrays[i] # arrays[j] /\ NoFurther(arrays[i], arrays[j])
    /\ pc = "collected" =>
           /\ \A i \in DOMAIN arrays : arrays[i] \in Reachable
           /\ Len(arrays) = Cardinality(Reachable) \/ err

=============================================================================
