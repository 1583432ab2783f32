------------------------------- MODULE OrcaSwap -------------------------------
(***************************************************************************)
(* quote/orca: the exact-in quote of an Orca Whirlpool (and of a Vortex    *)
(* pool, which has the same swap) over the tick arrays one swap can read,  *)
(* one inner loop iteration per step, with its adaptive fee.               *)
(*                                                                         *)
(* The quote changes nothing.  So that pools are in states a sequence of   *)
(* swaps can leave them in, a quote that consumed its whole input may land *)
(* on chain: that program is external, modelled from what the quote claims *)
(* to mirror.                                                              *)
(***************************************************************************)
EXTENDS OrcaTickArrays

CONSTANTS Configs,       \* the immutable part of pools: fee rate, oracle constants, gates, and
                         \* liquidityNet, [Initialized -> Int]
          StartPrices,   \* initial sqrt prices
          Amounts,       \* exact inputs that are quoted
          Lags,          \* how far behind the clock a quote's Timestamp may be
          MaxSwaps,      \* bound: swaps that land
          MaxTime,       \* bound: the clock
          volatilityAccumulatorScaleFactor, reductionFactorDenominator,
          adaptiveFeeControlFactorDenominator, maxReferenceAge, feeRateHardLimit

VARIABLES cfg,     \* the pool's configuration
          pool,    \* its live fields: sqrtPrice, tick, liquidity, vars (the oracle's variables)
          now,     \* block time
          pc,      \* where the quote is
          q,       \* its arguments
          s,       \* the locals of QuoteExactInDetailed and its feeRateManager
          w,       \* its TickArrayWalker: starts, held array, err; and the arrays read so far
          b,       \* the boundary the inner loop walks to
          trader,  \* trader[i]: net amount of token i the trader has won
          swaps    \* swaps landed so far

quoteVars == <<pc, q, s, w, b>>
vars      == <<cfg, pool, now, quoteVars, trader, swaps>>

-----------------------------------------------------------------------------
\* adaptive_fee.go, on AdaptiveFeeVariables v

floorDivision(dividend, divisor) ==
    IF goRem(dividend, divisor) = 0 \/ (dividend < 0) = (divisor < 0)
    THEN goQuo(dividend, divisor) ELSE goQuo(dividend, divisor) - 1

latest(v) == bigMax(v.lastReference, v.lastMajor)

\* FALSE where updateReference refuses a timestamp older than the oracle's.
inOrder(v, timestamp) == timestamp >= latest(v)

reanchored(v, group, reference, timestamp) ==
    [v EXCEPT !.groupReference = group, !.volatilityReference = reference,
              !.lastReference = timestamp]

\* Mutant: the decayed reference keeps the accumulator whole and adds to it.
updateReferenceUndecayed(v, group, timestamp) ==
    IF timestamp - latest(v) < cfg.filterPeriod THEN v
    ELSE reanchored(v, group, v.accumulator + cfg.reductionFactor, timestamp)

updateReference(v, group, timestamp) ==
    LET elapsed == timestamp - latest(v)
    IN  IF timestamp - v.lastReference > maxReferenceAge THEN reanchored(v, group, 0, timestamp)
        ELSE IF elapsed < cfg.filterPeriod THEN v
        ELSE IF elapsed < cfg.decayPeriod
        THEN reanchored(v, group,
                 (v.accumulator * cfg.reductionFactor) \div reductionFactorDenominator, timestamp)
        ELSE reanchored(v, group, 0, timestamp)

distance(m, n) == bigMax(m - n, n - m)

accumulatorAt(v, group) ==
    bigMin(v.volatilityReference
               + distance(v.groupReference, group) * volatilityAccumulatorScaleFactor,
           cfg.maxAccumulator)

computeAdaptiveFeeRate(accumulator) ==
    LET crossed == accumulator * cfg.tickGroupSize
    IN  bigMin(divCeil(cfg.controlFactor * crossed * crossed,
                       adaptiveFeeControlFactorDenominator * volatilityAccumulatorScaleFactor
                           * volatilityAccumulatorScaleFactor),
               feeRateHardLimit)

-----------------------------------------------------------------------------
\* fee_rate_manager.go, on the quote's state st

updateVolatilityAccumulator(st) ==
    IF cfg.adaptive THEN [st EXCEPT !.vars.accumulator = accumulatorAt(st.vars, st.group)]
                    ELSE st

totalFeeRateAt(accumulator) ==
    IF cfg.adaptive
    THEN bigMin(cfg.feeRate + computeAdaptiveFeeRate(accumulator), feeRateHardLimit)
    ELSE cfg.feeRate

\* Groups from the reference beyond which the accumulator is pinned at its maximum.
maxDelta(v) ==
    divCeil(cfg.maxAccumulator - v.volatilityReference, volatilityAccumulatorScaleFactor)

\* The first and last group of the core range, where the rate still varies; none
\* where the range reaches past the ticks.
coreLower(v) ==
    LET index == v.groupReference - maxDelta(v)
    IN  IF index * cfg.tickGroupSize > MinTickIndex THEN {index} ELSE {}
coreUpper(v) ==
    LET index == v.groupReference + maxDelta(v)
    IN  IF (index + 1) * cfg.tickGroupSize < MaxTickIndex THEN {index} ELSE {}

belowCore(st) == \E index \in coreLower(st.vars) : st.group < index
aboveCore(st) == \E index \in coreUpper(st.vars) : st.group > index

\* The rate is the same all the way to the target boundedTarget gives.
skipsGroups(st) ==
    cfg.adaptive /\ (cfg.controlFactor = 0 \/ st.liquidity = 0 \/ belowCore(st) \/ aboveCore(st))

clampTick(tick) == bigMin(bigMax(tick, MinTickIndex), MaxTickIndex)

groupEdge(group, aToB) ==
    SqrtPriceFromTickIndex(clampTick((IF aToB THEN group ELSE group + 1) * cfg.tickGroupSize))

\* Mutant: a walk back toward the core range runs on into it.
boundedTargetThroughCore(st, target, aToB) ==
    IF ~cfg.adaptive \/ skipsGroups(st) THEN target
    ELSE IF aToB THEN bigMax(target, groupEdge(st.group, TRUE))
                 ELSE bigMin(target, groupEdge(st.group, FALSE))

\* boundedSqrtPriceTarget: where the step must stop for its rate to be constant.
boundedTarget(st, target, aToB) ==
    IF ~cfg.adaptive \/ cfg.controlFactor = 0 \/ st.liquidity = 0 THEN target
    ELSE IF belowCore(st)
    THEN IF aToB THEN target
         ELSE Min({target} \cup
                  {SqrtPriceFromTickIndex(i * cfg.tickGroupSize) : i \in coreLower(st.vars)})
    ELSE IF aboveCore(st)
    THEN IF ~aToB THEN target
         ELSE Max({target} \cup
                  {SqrtPriceFromTickIndex((i + 1) * cfg.tickGroupSize) : i \in coreUpper(st.vars)})
    ELSE IF aToB THEN bigMax(target, groupEdge(st.group, TRUE))
                 ELSE bigMin(target, groupEdge(st.group, FALSE))

\* advanceTickGroup after a bounded step; st.sqrtPrice is the price it reached.
advanceTickGroup(st, aToB) ==
    IF cfg.adaptive THEN [st EXCEPT !.group = IF aToB THEN @ - 1 ELSE @ + 1] ELSE st

\* The last group a skipping step traversed: a rise that ends on a group's lower edge
\* has not entered that group.
lastTraversed(st, tickNext, aToB) ==
    LET onNext == st.sqrtPrice = SqrtPriceFromTickIndex(tickNext)
        tick   == IF onNext THEN tickNext ELSE TickIndexFromSqrtPrice(st.sqrtPrice)
        onEdge == /\ goRem(tick, cfg.tickGroupSize) = 0
                  /\ onNext \/ st.sqrtPrice = SqrtPriceFromTickIndex(tick)
    IN  IF onEdge /\ ~aToB THEN goQuo(tick, cfg.tickGroupSize) - 1
                           ELSE floorDivision(tick, cfg.tickGroupSize)

\* Mutant: the group is not realigned after a skip.
advanceTickGroupAfterSkipOne(st, tickNext, aToB) == advanceTickGroup(st, aToB)

advanceTickGroupAfterSkip(st, tickNext, aToB) ==
    LET last == lastTraversed(st, tickNext, aToB)
    IN  IF IF aToB THEN last < st.group ELSE last > st.group
        THEN advanceTickGroup(updateVolatilityAccumulator([st EXCEPT !.group = last]), aToB)
        ELSE advanceTickGroup(st, aToB)

isMajorSwap(preSqrtPrice, postSqrtPrice) ==
    bigMax(preSqrtPrice, postSqrtPrice)
        >= (bigMin(preSqrtPrice, postSqrtPrice) * SqrtPriceFromTickIndex(cfg.majorThreshold))
               \div Q64

-----------------------------------------------------------------------------
\* swap_quote.go

limit(aToB) == IF aToB THEN MinSqrtPrice ELSE MaxSqrtPrice

clampTarget(price, aToB) ==
    IF aToB THEN bigMax(price, limit(aToB)) ELSE bigMin(price, limit(aToB))

\* Mutant: the net of a crossed tick is added in both directions.
crossLiquidityAdding(liquidity, net, aToB) == liquidity + net

crossLiquidity(liquidity, net, aToB) == IF aToB THEN liquidity - net ELSE liquidity + net

NoVars     == [lastReference |-> 0, lastMajor |-> 0, volatilityReference |-> 0,
               groupReference |-> 0, accumulator |-> 0]
NoQuote    == [aToB |-> FALSE, amountIn |-> 0, timestamp |-> 0]
NoState    == [amountRemaining |-> 0, amountOut |-> 0, sqrtPrice |-> 0, liquidity |-> 0,
               tick |-> 0, group |-> 0, vars |-> NoVars, err |-> "none"]
NoArray    == MaxTickIndex + 1
NoWalker   == [starts |-> {}, held |-> NoArray, err |-> FALSE, read |-> {}]
NoBoundary == [tickIndex |-> 0, initialized |-> FALSE]

\* The liquidity positions put at a tick.
netAt(net, tick) == IF tick \in Initialized THEN net[tick] ELSE 0

LiquidityOf(net, tick) ==
    LET upTo[t \in MinTickIndex - 1 .. MaxTickIndex] ==
            IF t < MinTickIndex THEN 0 ELSE upTo[t - 1] + netAt(net, t)
    IN  upTo[tick]

LiquidityAt(tick) == LiquidityOf(cfg.liquidityNet, tick)

ConfigTypes ==
    [feeRate : 0 .. feeRateMulValue - 1, adaptive : BOOLEAN, filterPeriod : Nat, decayPeriod : Nat,
     reductionFactor : 0 .. reductionFactorDenominator, controlFactor : Nat, maxAccumulator : Nat,
     tickGroupSize : Nat \ {0}, majorThreshold : Nat, tradeEnable : Nat,
     unverifiedVortex : BOOLEAN, liquidityNet : [Initialized -> Int]]

\* The pools the program lets exist: no fee takes everything, a reference decays, positions
\* have liquidity of their own only, and tick groups divide the spacing.
ASSUME PoolAssumption ==
    /\ StartPrices \subseteq MinSqrtPrice .. MaxSqrtPrice
    /\ Amounts \subseteq 0 .. MaxU64 /\ Lags \subseteq Nat
    /\ MaxSwaps \in Nat /\ MaxTime \in Nat
    /\ volatilityAccumulatorScaleFactor \in Nat \ {0} /\ reductionFactorDenominator \in Nat \ {0}
    /\ adaptiveFeeControlFactorDenominator \in Nat \ {0} /\ maxReferenceAge \in Nat
    /\ feeRateHardLimit \in 0 .. feeRateMulValue - 1
    /\ \A c \in Configs :
          /\ c \in ConfigTypes
          /\ TickSpacing % c.tickGroupSize = 0
          /\ \A t \in TickIndexes : LiquidityOf(c.liquidityNet, t) >= 0

Init ==
    /\ cfg \in Configs
    /\ \E p \in StartPrices :
           LET tick == TickIndexFromSqrtPrice(p)
           IN  pool = [sqrtPrice |-> p, tick |-> tick, liquidity |-> LiquidityAt(tick),
                       vars |-> IF cfg.adaptive
                                THEN [NoVars EXCEPT !.groupReference =
                                          floorDivision(tick, cfg.tickGroupSize)]
                                ELSE NoVars]
    /\ now = 0
    /\ pc = "idle" /\ q = NoQuote /\ s = NoState /\ w = NoWalker /\ b = NoBoundary
    /\ trader = <<0, 0>>
    /\ swaps = 0

\* from_models.go refuses a Whirlpool that is not open yet and a Vortex pool with an
\* extension or an adaptive fee tier; newFeeRateManager refuses a time the oracle is
\* past.
Refused(timestamp) ==
    \/ cfg.unverifiedVortex
    \/ cfg.adaptive /\ cfg.tradeEnable # 0 /\ timestamp < cfg.tradeEnable
    \/ cfg.adaptive /\ ~inOrder(pool.vars, timestamp)

\* The state newFeeRateManager and the locals start in.
newState(amountIn, timestamp) ==
    LET group == IF cfg.adaptive THEN floorDivision(pool.tick, cfg.tickGroupSize) ELSE 0
    IN  [NoState EXCEPT
            !.amountRemaining = amountIn,
            !.sqrtPrice = pool.sqrtPrice,
            !.liquidity = pool.liquidity,
            !.tick = pool.tick,
            !.group = group,
            !.vars = IF cfg.adaptive THEN updateReference(pool.vars, group, timestamp)
                                     ELSE pool.vars]

\* QuoteExactInDetailed up to its loop, with a new walker.
QuoteExactIn(aToB, amountIn, lag) ==
    LET timestamp == bigMax(now - lag, 0)
    IN  /\ pc = "idle"
        /\ q' = [aToB |-> aToB, amountIn |-> amountIn, timestamp |-> timestamp]
        /\ IF Refused(timestamp)
           THEN pc' = "refused" /\ UNCHANGED <<s, w>>
           ELSE /\ pc' = "walk"
                /\ s' = newState(amountIn, timestamp)
                /\ w' = [NoWalker EXCEPT !.starts = SwapTickArrayStarts(pool.tick, aToB)]
        /\ UNCHANGED <<cfg, pool, now, b, trader, swaps>>

WalkOver   == s.amountRemaining = 0 \/ s.sqrtPrice = limit(q.aToB)
found      == nextBoundaries(w.starts, s.tick, q.aToB)
arraysUsed == arraysRead(w.starts, s.tick, q.aToB)

\* One call of the walker that finds a boundary.
NextBoundary ==
    /\ pc = "walk" /\ ~WalkOver
    /\ \E boundary \in found : b' = boundary
    /\ pc' = "step"
    /\ w' = [w EXCEPT
                !.held = arrayAt(s.tick, q.aToB, arraysPassed(w.starts, s.tick, q.aToB)),
                !.read = @ \cup arraysUsed]
    /\ UNCHANGED <<cfg, pool, now, q, s, trader, swaps>>

\* One call of the walker in which the loader fails: the walk ends here, and only
\* Err() tells it from a walk that ran out of arrays.
LoadFails ==
    /\ pc = "walk" /\ ~WalkOver
    /\ arraysUsed \ {w.held} # {}
    /\ w' = [w EXCEPT !.err = TRUE]
    /\ pc' = "done"
    /\ UNCHANGED <<cfg, pool, now, q, s, b, trader, swaps>>

\* The input is used up, the limit is reached, or the arrays ran out.
EndOfWalk ==
    /\ pc = "walk"
    /\ WalkOver \/ found = {}
    /\ pc' = "done"
    /\ UNCHANGED <<cfg, pool, now, q, s, w, b, trader, swaps>>

\* Mutant: the tick is left behind when a step stops short of the boundary.
landedTickStale(st, nextPrice) ==
    IF nextPrice = SqrtPriceFromTickIndex(b.tickIndex)
    THEN IF q.aToB THEN b.tickIndex - 1 ELSE b.tickIndex
    ELSE st.tick

\* currTick after a step: past the boundary it reached (the search down is inclusive),
\* else where the price is.
landedTick(st, nextPrice) ==
    IF nextPrice = SqrtPriceFromTickIndex(b.tickIndex)
    THEN IF q.aToB THEN b.tickIndex - 1 ELSE b.tickIndex
    ELSE IF nextPrice = st.sqrtPrice THEN st.tick
    ELSE TickIndexFromSqrtPrice(nextPrice)

\* The checks between computeSwapStep and the balances.
stepError(st, r) ==
    IF ~r.ok THEN "ErrAmountOverflow"
    ELSE IF r.amountIn > st.amountRemaining \/ r.feeAmount > st.amountRemaining - r.amountIn
    THEN "ErrOverdrawn"
    ELSE IF st.amountOut > MaxU64 - r.amountOut THEN "ErrAmountOverflow"
    ELSE "none"

\* What the inner iteration makes of st, whose accumulator is up to date, with the
\* step r.
stepped(st, r) ==
    LET reached   == r.nextPrice = SqrtPriceFromTickIndex(b.tickIndex)
        liquidity == IF reached /\ b.initialized
                     THEN crossLiquidity(st.liquidity, cfg.liquidityNet[b.tickIndex], q.aToB)
                     ELSE st.liquidity
        moved     == [st EXCEPT !.amountRemaining = @ - (r.amountIn + r.feeAmount),
                                !.amountOut = @ + r.amountOut,
                                !.liquidity = liquidity,
                                !.tick = landedTick(st, r.nextPrice),
                                !.sqrtPrice = r.nextPrice]
    IN  IF stepError(st, r) # "none" THEN [st EXCEPT !.err = stepError(st, r)]
        ELSE IF liquidity < 0 THEN [st EXCEPT !.err = "ErrNegativeLiquidity"]
        ELSE IF skipsGroups(st) THEN advanceTickGroupAfterSkip(moved, b.tickIndex, q.aToB)
        ELSE advanceTickGroup(moved, q.aToB)

\* An iteration of the inner loop.  (\E over singletons binds intermediate results.)
SwapStep ==
    LET target == clampTarget(SqrtPriceFromTickIndex(b.tickIndex), q.aToB)
    IN  /\ pc = "step"
        /\ \E st \in {updateVolatilityAccumulator(s)} :
           \E r \in {computeSwapStep(st.amountRemaining, totalFeeRateAt(st.vars.accumulator),
                                     st.liquidity, st.sqrtPrice,
                                     boundedTarget(st, target, q.aToB), q.aToB)} :
               s' = stepped(st, r)
        /\ pc' = IF s'.err # "none" THEN "failed"
                 ELSE IF s'.amountRemaining = 0 \/ s'.sqrtPrice = target THEN "walk"
                 ELSE "step"
        /\ b' = IF pc' = "walk" THEN NoBoundary ELSE b
        /\ UNCHANGED <<cfg, pool, now, q, w, trader, swaps>>

Reset == pc' = "idle" /\ q' = NoQuote /\ s' = NoState /\ w' = NoWalker /\ b' = NoBoundary

\* The caller takes the result, or the error, and drops it.
Forget ==
    /\ pc \in {"done", "failed", "refused"}
    /\ Reset
    /\ UNCHANGED <<cfg, pool, now, trader, swaps>>

\* The program on chain executes the quoted swap at the quoted time.  It fills the
\* whole input or fails.  It keeps the oracle as the quote left it, with the time of
\* a swap that moved the price far (updateMajorSwapTimestamp).
SwapLands ==
    /\ pc = "done" /\ ~w.err
    /\ s.amountRemaining = 0 /\ q.timestamp = now
    /\ swaps < MaxSwaps
    /\ swaps' = swaps + 1
    /\ pool' = [sqrtPrice |-> s.sqrtPrice, tick |-> s.tick, liquidity |-> s.liquidity,
                vars |-> IF cfg.adaptive /\ isMajorSwap(pool.sqrtPrice, s.sqrtPrice)
                         THEN [s.vars EXCEPT !.lastMajor = now] ELSE s.vars]
    /\ trader' = IF q.aToB THEN <<trader[1] - q.amountIn, trader[2] + s.amountOut>>
                           ELSE <<trader[1] + s.amountOut, trader[2] - q.amountIn>>
    /\ Reset
    /\ UNCHANGED <<cfg, now>>

TimePasses ==
    /\ pc = "idle" /\ now < MaxTime
    /\ now' = now + 1
    /\ UNCHANGED <<cfg, pool, quoteVars, trader, swaps>>

QuoteStep == NextBoundary \/ LoadFails \/ EndOfWalk \/ SwapStep

Next ==
    \/ \E aToB \in BOOLEAN, a \in Amounts, l \in Lags : QuoteExactIn(aToB, a, l)
    \/ QuoteStep
    \/ Forget
    \/ SwapLands
    \/ TimePasses

Spec     == Init /\ [][Next]_vars
FairSpec == Spec /\ WF_vars(QuoteStep)

-----------------------------------------------------------------------------
\* Properties

Quoting == pc \in {"walk", "step", "done"}

\* Type correctness: amounts stay u64, the price stays inside its limits, and the
\* reference never exceeds the cap the code subtracts it from in uint32.
TypeOK ==
    /\ cfg \in Configs
    /\ pc \in {"idle", "walk", "step", "done", "failed", "refused"}
    /\ s.amountRemaining \in 0 .. MaxU64 /\ s.amountOut \in 0 .. MaxU64
    /\ s.liquidity >= 0 /\ pool.liquidity >= 0
    /\ Quoting => s.sqrtPrice \in MinSqrtPrice .. MaxSqrtPrice
    /\ s.vars.volatilityReference \in 0 .. cfg.maxAccumulator
    /\ pool.vars.accumulator \in 0 .. cfg.maxAccumulator

Holds(tick, sqrtPrice) == sqrtPrices[tick] <= sqrtPrice /\ sqrtPrice <= sqrtPrices[tick + 1]

\* The tick a walk (and then the pool) sits on is the one its price is in, or the one
\* below it where a fall ended exactly on a boundary.
TickMatchesPrice ==
    /\ Quoting => Holds(s.tick, s.sqrtPrice)
    /\ Holds(pool.tick, pool.sqrtPrice)

\* Active liquidity is what the positions around the tick add up to: each initialized
\* tick is crossed once, in the right direction, also after a fall that ended exactly
\* on it is followed by a rise.
LiquidityMatchesTick ==
    /\ Quoting => s.liquidity = LiquidityAt(s.tick)
    /\ pool.liquidity = LiquidityAt(pool.tick)

\* The walker is a search of the arrays its swap takes.  No initialized tick lies between
\* the walk and the boundary it was given, however many empty or missing arrays are in
\* between; a quote reads no further array ("a quote walking further prices liquidity
\* the swap cannot reach", tick_array.go:8), and one that runs out of boundaries away
\* from the price limit has read all of them.
WalkSearchesItsArrays ==
    /\ pc = "step" => \A t \in Initialized :
           IF q.aToB THEN ~(b.tickIndex < t /\ t <= s.tick) ELSE ~(s.tick < t /\ t < b.tickIndex)
    /\ Cardinality(w.read) <= SwapTickArrays
    /\ pc = "done" /\ ~WalkOver /\ ~w.err => Cardinality(w.read) = SwapTickArrays

\* A step starts inside the tick group the manager counts from, edges included, after
\* bounded steps and after skips: no step is computed toward an edge behind the price.
GroupHoldsPrice ==
    cfg.adaptive /\ pc = "step" =>
        /\ groupEdge(s.group, TRUE) <= s.sqrtPrice
        /\ s.sqrtPrice <= groupEdge(s.group, FALSE)

Groups == floorDivision(MinTickIndex, cfg.tickGroupSize) .. floorDivision(MaxTickIndex, cfg.tickGroupSize)

\* A step that exchanges anything is charged one rate, and it is the rate of every
\* tick group it runs through: leaving the core range, coming back to it, and skipping
\* outside it change no fee.
StepHasOneRate ==
    cfg.adaptive /\ pc = "step" /\ s.liquidity # 0 =>
        LET st      == updateVolatilityAccumulator(s)
            target  == clampTarget(SqrtPriceFromTickIndex(b.tickIndex), q.aToB)
            bounded == boundedTarget(st, target, q.aToB)
        IN  \A g \in Groups :
                /\ groupEdge(g, TRUE) < bigMax(s.sqrtPrice, bounded)
                /\ groupEdge(g, FALSE) > bigMin(s.sqrtPrice, bounded)
                => totalFeeRateAt(accumulatorAt(st.vars, g)) = totalFeeRateAt(st.vars.accumulator)

\* The roundings of a step never ask for more than the input that is left: the check
\* before the balances (swap_quote.go:123) is unreachable.
NeverOverdrawn == s.err # "ErrOverdrawn"

\* No sequence of swaps leaves the trader with more of one token and no less of the
\* other: every rounding goes against the trader.
TraderNeverProfits == ~(trader[1] >= 0 /\ trader[2] >= 0 /\ trader # <<0, 0>>)

\* Every quote ends, with a result or an error.
QuoteEnds == (pc = "walk") ~> (pc \in {"done", "failed"})

=============================================================================
