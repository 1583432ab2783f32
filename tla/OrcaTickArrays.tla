---------------------------- MODULE OrcaTickArrays ----------------------------
(***************************************************************************)
(* quote/orca/tick_array.go: which tick arrays a swap may read and how the *)
(* walker over them finds the next boundary.  An array whose account does  *)
(* not exist reads as empty, so an array here is the set of initialized    *)
(* ticks in its range.                                                     *)
(***************************************************************************)
EXTENDS OrcaMath, FiniteSetsExt

CONSTANTS TicksPerArray,  \* 88
          TickSpacing,
          Initialized     \* the pool's initialized ticks

ASSUME TickArraysAssumption ==
    /\ TicksPerArray \in Nat \ {0} /\ TickSpacing \in Nat \ {0}
    /\ \A t \in Initialized : t \in TickIndexes /\ t % TickSpacing = 0

SwapTickArrays == 3

span == TickSpacing * TicksPerArray

\* Both round toward minus infinity, which the code spells out for negative ticks.
TickArrayStartIndex(tick) == (tick \div span) * span
floorToSpacing(tick)      == (tick \div TickSpacing) * TickSpacing

\* A search up from the last spacing of the range still starts in an array of the range,
\* as it does for every spacing Whirlpools are opened with.
ASSUME LastArrayAssumption ==
    TickArrayStartIndex(floorToSpacing(MaxTickIndex) + TickSpacing) <= MaxTickIndex

\* The left-edge array may start below the first tick, no other may leave the range.
validStartTick(start) ==
    IF start < MinTickIndex \/ start > MaxTickIndex
    THEN /\ start <= MinTickIndex
         /\ start = MinTickIndex - (goRem(MinTickIndex, span) + span)
    ELSE start % span = 0

\* The arrays the swap takes; it walks them in the order of their starts.  Going up
\* they start one later when the next tick is past the array of the current one.
SwapTickArrayStarts(tick, aToB) ==
    LET base  == TickArrayStartIndex(tick)
        shift == IF tick + TickSpacing >= base + span THEN 1 ELSE 0
    IN  {start \in {base + (IF aToB THEN -i ELSE i + shift) * span : i \in 0 .. SwapTickArrays - 1} :
            validStartTick(start)}

lastArray(starts, aToB) == IF aToB THEN Min(starts) ELSE Max(starts)

-----------------------------------------------------------------------------
\* TickArrayWalker.Next from fromTick, with the arrays in starts.

firstTick(fromTick, aToB) == IF aToB THEN fromTick ELSE floorToSpacing(fromTick) + TickSpacing

\* The n-th array a search looks at, and below the tick it searches that array from.
arrayAt(fromTick, aToB, n) ==
    TickArrayStartIndex(firstTick(fromTick, aToB)) + (IF aToB THEN -n ELSE n) * span

\* Mutant: a search down enters the next array at its lowest tick.
searchFromStart(fromTick, aToB, n) ==
    IF n = 0 THEN firstTick(fromTick, aToB) ELSE arrayAt(fromTick, aToB, n)

searchFrom(fromTick, aToB, n) ==
    IF n = 0 THEN firstTick(fromTick, aToB)
    ELSE IF aToB THEN arrayAt(fromTick, aToB, n) + span - TickSpacing
    ELSE arrayAt(fromTick, aToB, n)

\* searchArray: the initialized ticks of the n-th array ahead of where it is searched.
hits(fromTick, aToB, n) ==
    LET start == arrayAt(fromTick, aToB, n)
        from  == searchFrom(fromTick, aToB, n)
    IN  {t \in Initialized : /\ start <= t /\ t < start + span
                             /\ IF aToB THEN t <= from ELSE t >= from}

reachable(starts, start) == start \in starts

\* The uninitialized boundary an array without hits may still yield: an end of the
\* tick range, or the edge of the last array.
edges(starts, aToB, start) ==
    IF aToB /\ start <= MinTickIndex THEN {MinTickIndex}
    ELSE IF ~aToB /\ start + span > MaxTickIndex THEN {MaxTickIndex}
    ELSE IF start = lastArray(starts, aToB) THEN {IF aToB THEN start ELSE start + span - 1}
    ELSE {}

\* How many arrays the search passes before it stops.
arraysPassed(starts, fromTick, aToB) ==
    Min({n \in 0 .. SwapTickArrays :
            LET start == arrayAt(fromTick, aToB, n)
            IN  \/ ~reachable(starts, start)
                \/ hits(fromTick, aToB, n) # {}
                \/ edges(starts, aToB, start) # {}})

\* The arrays the search loads unless it holds them, a set of starts.
arraysRead(starts, fromTick, aToB) ==
    {start \in {arrayAt(fromTick, aToB, n) : n \in 0 .. arraysPassed(starts, fromTick, aToB)} :
        reachable(starts, start)}

\* The boundary found, or none: a set of at most one.
nextBoundaries(starts, fromTick, aToB) ==
    LET n     == arraysPassed(starts, fromTick, aToB)
        start == arrayAt(fromTick, aToB, n)
        found == hits(fromTick, aToB, n)
    IN  IF ~reachable(starts, start) THEN {}
        ELSE IF found # {}
        THEN {[tickIndex |-> IF aToB THEN Max(found) ELSE Min(found), initialized |-> TRUE]}
        ELSE {[tickIndex |-> t, initialized |-> FALSE] : t \in edges(starts, aToB, start)}

=============================================================================
