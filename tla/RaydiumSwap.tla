----------------------------- MODULE RaydiumSwap -----------------------------
(***************************************************************************)
(* quote/raydium: the exact-in quote of a Raydium CLMM pool, one inner     *)
(* loop iteration per step, with its dynamic fee, its resting limit orders *)
(* and its fee-on-output mode.                                             *)
(*                                                                         *)
(* The quote reads a decoded pool and a tick provider and changes neither. *)
(* So that pools are in states a sequence of swaps can leave them in, the  *)
(* program on chain is here too: a quote that consumed its whole input may *)
(* land, and then the pool, the orders and the trader's balances move as   *)
(* the quote said.  That program is not in the repository; it is modelled  *)
(* from what the quote claims to mirror.                                   *)
(***************************************************************************)
EXTENDS RaydiumMath, FiniteSets

CONSTANTS Configs,        \* the immutable part of pools: fees, fee_on, status, dynamic fee,
                          \* and liquidityNet of the positions' edge ticks, [Ticks -> Int]
          HasLiquidity,   \* ticks with gross liquidity
          Books,          \* initial limit orders: functions [Ticks -> Nat]
          StartPrices,    \* initial sqrt prices
          Reaches,        \* how far from the current tick a provider's cache may extend
          Amounts,        \* exact inputs that are quoted
          Lags,           \* how far behind the clock a quote's BlockTimestamp may be
          MaxSwaps,       \* bound: swaps that land
          MaxTime,        \* bound: the clock
          volatilityAccumulatorScale, reductionFactorDenominator,
          dynamicFeeControlDenominator, maxFeeRateNumerator

VARIABLES cfg,      \* the pool's configuration
          pool,     \* its live fields: sqrtPrice, tick, liquidity, dyn
          orders,   \* orders[t]: size resting at tick t
          now,      \* block time
          pc,       \* where the quote is
          q,        \* its arguments
          s,        \* its swapState
          step,     \* the locals of stepToBoundary
          fills,    \* fills[t]: orders this quote matched at t
          asks,     \* history: ticks above the price at first, whose orders sell token_0
          trader,   \* trader[i]: net amount of token i the trader has won
          swaps     \* swaps landed so far

quoteVars == <<pc, q, s, step, fills>>
poolVars  == <<cfg, pool, orders, now, asks>>
vars      == <<poolVars, quoteVars, trader, swaps>>

-----------------------------------------------------------------------------
\* dynamic_fee.go.  Each operator maps a swapState to what the method leaves.

tickSpacingIndexFromTick(tick, spacing) ==
    IF tick % spacing = 0 \/ tick >= 0 THEN quo(tick, spacing) ELSE quo(tick, spacing) - 1

\* Runs once, before the first step: the reference decays with the quiet time.
updateReference(dyn, index, timestamp) ==
    LET elapsed == maxOf(timestamp - dyn.lastUpdate, 0)
    IN  IF elapsed < cfg.filterPeriod THEN dyn
        ELSE [dyn EXCEPT
                 !.indexReference = index,
                 !.lastUpdate = timestamp,
                 !.volatilityReference =
                     IF elapsed < cfg.decayPeriod
                     THEN (dyn.accumulator * cfg.reductionFactor) \div reductionFactorDenominator
                     ELSE 0]

abs(n) == IF n < 0 THEN -n ELSE n

accumulatorAt(dyn, index) ==
    minOf(dyn.volatilityReference
              + abs(dyn.indexReference - index) * volatilityAccumulatorScale,
          cfg.maxAccumulator)

updateVolatilityAccumulator(st) ==
    IF cfg.dynamic
    THEN [st EXCEPT !.dyn.accumulator = accumulatorAt(st.dyn, st.tickSpacingIdx)]
    ELSE st

\* The part quadratic in the groups travelled, rounded up and capped.
dynamicFeeRate(accumulator) ==
    LET crossed == accumulator * cfg.tickSpacing
    IN  minOf(ceilDiv(cfg.feeControl * crossed * crossed,
                      dynamicFeeControlDenominator * volatilityAccumulatorScale
                          * volatilityAccumulatorScale),
              maxFeeRateNumerator)

totalFeeRateAt(accumulator) ==
    IF cfg.dynamic THEN minOf(cfg.feeRate + dynamicFeeRate(accumulator), maxFeeRateNumerator)
                   ELSE cfg.feeRate

\* No group bound: no dynamic fee, no liquidity, or the fee already at its cap.
skipsGroups(st) ==
    ~cfg.dynamic \/ st.liquidity = 0 \/ st.dyn.accumulator = cfg.maxAccumulator

\* Mutant: the bound of a falling price taken at the group's upper end.
groupEdgeAbove(st, zeroForOne) ==
    minOf(maxOf((st.tickSpacingIdx + 1) * cfg.tickSpacing, MinTick), MaxTick)

\* The tick that ends the current tick-spacing group in the swap's direction.
groupEdge(st, zeroForOne) ==
    minOf(maxOf((IF zeroForOne THEN st.tickSpacingIdx ELSE st.tickSpacingIdx + 1)
                    * cfg.tickSpacing,
                MinTick),
          MaxTick)

\* Does the group end at or before the target?  Then the step stops there.
stopsAtGroup(st, target, zeroForOne) ==
    LET edge == SqrtPriceFromTick(groupEdge(st, zeroForOne))
    IN  ~skipsGroups(st) /\ (IF zeroForOne THEN target <= edge ELSE target >= edge)

spacingBoundedPrice(st, target, zeroForOne) ==
    IF stopsAtGroup(st, target, zeroForOne)
    THEN SqrtPriceFromTick(groupEdge(st, zeroForOne)) ELSE target

\* Mutant: a rising price that lands on an aligned tick is put in the group above.
updateDynamicFeeIndexUnaligned(st, zeroForOne, skipped, tickNext) ==
    LET landed == IF st.sqrtPrice = SqrtPriceFromTick(tickNext) THEN tickNext ELSE st.tick
        index  == tickSpacingIndexFromTick(landed, cfg.tickSpacing)
        moved  == IF skipped THEN [st EXCEPT !.tickSpacingIdx = index] ELSE st
    IN  IF cfg.dynamic
        THEN [moved EXCEPT !.tickSpacingIdx = IF zeroForOne THEN @ - 1 ELSE @ + 1]
        ELSE st

\* After a step: advance one group, recomputed first from where an unbounded step
\* landed.
updateDynamicFeeIndex(st, zeroForOne, skipped, tickNext) ==
    LET landed == IF st.sqrtPrice = SqrtPriceFromTick(tickNext) THEN tickNext ELSE st.tick
        index  == tickSpacingIndexFromTick(landed, cfg.tickSpacing)
                      - (IF ~zeroForOne /\ landed % cfg.tickSpacing = 0 THEN 1 ELSE 0)
        moved  == IF skipped THEN [st EXCEPT !.tickSpacingIdx = index] ELSE st
        again  == IF skipped /\ st.dyn.accumulator # cfg.maxAccumulator
                  THEN updateVolatilityAccumulator(moved) ELSE moved
    IN  IF cfg.dynamic
        THEN [again EXCEPT !.tickSpacingIdx = IF zeroForOne THEN @ - 1 ELSE @ + 1]
        ELSE st

-----------------------------------------------------------------------------
\* limit_order.go and the helpers of swap_quote.go

isU64(n) == n >= 0 /\ n <= MaxU64

\* Mutant: a fee already taken out of the output is charged on the input again.
applyChargingTwice(st, amountIn, amountOut, fee, feeOnInput) ==
    IF amountIn + fee > st.amountRemaining THEN [st EXCEPT !.err = "ErrOverdrawn"]
    ELSE [st EXCEPT !.amountRemaining = @ - (amountIn + fee), !.amountOut = @ + amountOut]

\* Mutant: the same, without the check against what remains.
applyUnchecked(st, amountIn, amountOut, fee, feeOnInput) ==
    [st EXCEPT !.amountRemaining = @ - (amountIn + fee), !.amountOut = @ + amountOut]

\* Books one fill; a refusal leaves the state and names its reason.
apply(st, amountIn, amountOut, fee, feeOnInput) ==
    LET consumed == IF feeOnInput THEN amountIn + fee ELSE amountIn
    IN  IF \/ ~isU64(amountIn)
           \/ feeOnInput /\ ~(isU64(fee) /\ isU64(consumed))
        THEN [st EXCEPT !.err = "ErrAmountOverflow"]
        ELSE IF consumed > st.amountRemaining THEN [st EXCEPT !.err = "ErrOverdrawn"]
        ELSE IF ~isU64(amountOut) \/ ~isU64(st.amountOut + amountOut)
        THEN [st EXCEPT !.err = "ErrAmountOverflow"]
        ELSE [st EXCEPT !.amountRemaining = @ - consumed, !.amountOut = @ + amountOut]

\* The fill of matchLimitOrders: gross output, input and fee, at the tick's price,
\* which rounds against the swap.
orderFill(remaining, unfilled, tickSqrtPrice, feeRate, zeroForOne, feeOnInput) ==
    LET price == PriceFromSqrtPrice(tickSqrtPrice, ~zeroForOne)
        fee   == IF feeOnInput THEN ceilDiv(remaining * feeRate, FeeRateDenominator) ELSE 0
        out   == LimitOrderOutput(remaining - fee, price, zeroForOne)
        in    == LimitOrderInput(unfilled, price, ~zeroForOne)
    IN  IF out <= unfilled
        THEN [out |-> out, in |-> remaining - fee, fee |-> fee]
        ELSE [out |-> unfilled, in |-> in,
              fee |-> IF feeOnInput
                      THEN ceilDiv(in * feeRate, FeeRateDenominator - feeRate) ELSE 0]

\* matchLimitOrders: the state after the match and what is still unfilled.
matchLimitOrders(st, unfilled, tickSqrtPrice, feeRate, zeroForOne, feeOnInput) ==
    LET fill   == orderFill(st.amountRemaining, unfilled, tickSqrtPrice, feeRate,
                            zeroForOne, feeOnInput)
        outFee == ceilDiv(fill.out * feeRate, FeeRateDenominator)
    IN  IF st.amountRemaining = 0 \/ unfilled = 0 THEN [st |-> st, unfilled |-> unfilled]
        ELSE IF ~isU64(fill.out) \/ fill.out > unfilled
        THEN [st |-> [st EXCEPT !.err = "ErrAmountOverflow"], unfilled |-> unfilled]
        ELSE [st |-> IF feeOnInput THEN apply(st, fill.in, fill.out, fill.fee, TRUE)
                     ELSE apply(st, fill.in, fill.out - outFee, outFee, FALSE),
              unfilled |-> unfilled - fill.out]

\* Mutant: the tick is treated as crossed although orders are left.
tickAfterCrossIgnoringOrders(tickIndex, hasLimitOrders, zeroForOne) ==
    IF zeroForOne THEN tickIndex - 1 ELSE tickIndex

\* A tick that still holds orders is not crossed, which flips the side.
tickAfterCross(tickIndex, hasLimitOrders, zeroForOne) ==
    IF zeroForOne # hasLimitOrders THEN tickIndex - 1 ELSE tickIndex

\* Mutant: liquidity_net is added in both directions.
crossLiquidityUnsigned(liquidity, net, zeroForOne) == liquidity + net

crossLiquidity(liquidity, net, zeroForOne) ==
    IF zeroForOne THEN liquidity - net ELSE liquidity + net

IsFeeOnInput(zeroForOne) ==
    CASE cfg.feeOn = 1 -> zeroForOne
      [] cfg.feeOn = 2 -> ~zeroForOne
      [] OTHER         -> TRUE

limit(zeroForOne) == IF zeroForOne THEN MinSqrtPrice ELSE MaxSqrtPrice

clampTarget(tickPrice, zeroForOne) ==
    IF zeroForOne THEN maxOf(tickPrice, limit(TRUE)) ELSE minOf(tickPrice, limit(FALSE))

-----------------------------------------------------------------------------
\* The pool and the quotes it can be given

NoState == [amountRemaining |-> 0, amountOut |-> 0, sqrtPrice |-> 0, liquidity |-> 0,
            tick |-> 0, tickSpacingIdx |-> 0, err |-> "none",
            dyn |-> [indexReference |-> 0, volatilityReference |-> 0,
                     accumulator |-> 0, lastUpdate |-> 0]]
NoQuote == [zeroForOne |-> TRUE, amountIn |-> 0, timestamp |-> 0, reach |-> 0]
NoStep  == [tickIndex |-> 0, unfilled |-> 0, liquidityNext |-> 0,
            feeRate |-> 0, skipped |-> TRUE, next |-> 0, landing |-> 0]
NoFills == [t \in Ticks |-> 0]

\* Active liquidity at a tick: what the positions open at or below it add up to.
LiquidityOf(net, tick) ==
    LET upTo[t \in MinTick - 1 .. MaxTick] ==
            IF t < MinTick THEN 0 ELSE upTo[t - 1] + net[t]
    IN  upTo[tick]

LiquidityAt(tick) == LiquidityOf(cfg.liquidityNet, tick)

ConfigTypes ==
    [feeRate : 0 .. FeeRateDenominator - 1, feeOn : Nat, tickSpacing : Nat \ {0},
     swapDisabled : BOOLEAN, noAmmConfig : BOOLEAN, undecoded : BOOLEAN, dynamic : BOOLEAN,
     filterPeriod : Nat, decayPeriod : Nat, reductionFactor : Nat, feeControl : Nat,
     maxAccumulator : Nat, liquidityNet : [Ticks -> Int]]

\* The pools the program lets exist: no fee takes everything, a position or an order sits
\* on a multiple of the spacing, and positions have liquidity of their own only.
ASSUME PoolAssumption ==
    /\ HasLiquidity \subseteq Ticks
    /\ Books \subseteq [Ticks -> 0 .. MaxU64]
    /\ StartPrices \subseteq MinSqrtPrice .. MaxSqrtPrice
    /\ Reaches \subseteq Nat /\ Amounts \subseteq 0 .. MaxU64 /\ Lags \subseteq Nat
    /\ MaxSwaps \in Nat /\ MaxTime \in Nat
    /\ volatilityAccumulatorScale \in Nat \ {0} /\ reductionFactorDenominator \in Nat \ {0}
    /\ dynamicFeeControlDenominator \in Nat \ {0}
    /\ maxFeeRateNumerator \in 0 .. FeeRateDenominator - 1
    /\ \A c \in Configs :
          /\ c \in ConfigTypes
          /\ \A t \in Ticks : /\ LiquidityOf(c.liquidityNet, t) >= 0
                              /\ t \notin HasLiquidity => c.liquidityNet[t] = 0
          /\ \A t \in HasLiquidity : t % c.tickSpacing = 0
          /\ \A b \in Books : \A t \in Ticks : b[t] > 0 => t % c.tickSpacing = 0

Init ==
    /\ cfg \in Configs
    /\ orders \in Books
    /\ \E p \in StartPrices :
           pool = [sqrtPrice |-> p, tick |-> TickFromSqrtPrice(p),
                   liquidity |-> LiquidityAt(TickFromSqrtPrice(p)),
                   dyn |-> IF cfg.dynamic
                           THEN [NoState.dyn EXCEPT !.indexReference =
                                    tickSpacingIndexFromTick(TickFromSqrtPrice(p),
                                                             cfg.tickSpacing)]
                           ELSE NoState.dyn]
    /\ asks = {t \in Ticks : t > pool.tick}
    /\ now = 0
    /\ pc = "idle" /\ q = NoQuote /\ s = NoState /\ step = NoStep /\ fills = NoFills
    /\ trader = <<0, 0>>
    /\ swaps = 0

\* What the provider answers from: the ticks that stop a swap, as far as it has
\* them cached.
Stops(reach) ==
    {t \in Ticks : /\ abs(t - pool.tick) <= reach
                   /\ t \in HasLiquidity \/ orders[t] > 0}

\* TickProvider: down inclusive of fromTick, up exclusive; the empty set is !ok.
boundaries(fromTick, zeroForOne, reach) ==
    LET ahead == {t \in Stops(reach) : IF zeroForOne THEN t <= fromTick ELSE t > fromTick}
    IN  {t \in ahead : \A u \in ahead : IF zeroForOne THEN u <= t ELSE u >= t}

newSwapState(amountIn, timestamp) ==
    LET index == IF cfg.dynamic THEN tickSpacingIndexFromTick(pool.tick, cfg.tickSpacing) ELSE 0
    IN  [NoState EXCEPT
            !.amountRemaining = amountIn,
            !.sqrtPrice = pool.sqrtPrice,
            !.liquidity = pool.liquidity,
            !.tick = pool.tick,
            !.tickSpacingIdx = index,
            !.dyn = IF cfg.dynamic THEN updateReference(pool.dyn, index, timestamp) ELSE pool.dyn]

\* RaydiumCLMMSwapPool takes no pool without its AmmConfig and none with swaps disabled.
Refused == cfg.noAmmConfig \/ cfg.swapDisabled

\* QuoteExactInDetailed up to its loop: the two refusals, then the swapState.
QuoteExactIn(zeroForOne, amountIn, lag, reach) ==
    LET timestamp == maxOf(now - lag, 0)
    IN  /\ pc = "idle"
        /\ q' = [zeroForOne |-> zeroForOne, amountIn |-> amountIn,
                 timestamp |-> timestamp, reach |-> reach]
        /\ IF Refused \/ cfg.undecoded
           THEN pc' = "refused" /\ UNCHANGED s
           ELSE pc' = "walk" /\ s' = newSwapState(amountIn, timestamp)
        /\ UNCHANGED <<poolVars, step, fills, trader, swaps>>

WalkOver == s.amountRemaining = 0 \/ s.sqrtPrice = limit(q.zeroForOne)

\* One call of the provider and the prologue of stepToBoundary.
NextBoundary ==
    /\ pc = "walk"
    /\ ~WalkOver
    /\ \E t \in boundaries(s.tick, q.zeroForOne, q.reach) :
           step' = [NoStep EXCEPT !.tickIndex = t, !.unfilled = orders[t],
                                  !.liquidityNext = s.liquidity]
    /\ pc' = "curve"
    /\ UNCHANGED <<poolVars, q, s, fills, trader, swaps>>

\* The input is used up, the limit is reached, or the cached ticks ran out.
EndOfWalk ==
    /\ pc = "walk"
    /\ WalkOver \/ boundaries(s.tick, q.zeroForOne, q.reach) = {}
    /\ pc' = "done"
    /\ UNCHANGED <<poolVars, q, s, step, fills, trader, swaps>>

\* Mutant: the tick is only moved when the step ends on a group's edge.
landedTickStale(st, next, bounded, target, zeroForOne) ==
    IF stopsAtGroup(st, target, zeroForOne) /\ next = bounded
    THEN groupEdge(st, zeroForOne) ELSE st.tick

\* landedTick: reuse the group's edge when the step ended exactly on it.
landedTick(st, next, bounded, target, zeroForOne) ==
    IF next = st.sqrtPrice THEN st.tick
    ELSE IF stopsAtGroup(st, target, zeroForOne) /\ next = bounded
    THEN groupEdge(st, zeroForOne)
    ELSE TickFromSqrtPrice(next)

\* ComputeSwapStep toward the bound, and nothing when the price is there already.
curveStep(st, bounded) ==
    IF st.sqrtPrice = bounded
    THEN [sqrtPriceNext |-> bounded, amountIn |-> 0, amountOut |-> 0, feeAmount |-> 0]
    ELSE ComputeSwapStep(st.sqrtPrice, bounded, st.liquidity, st.amountRemaining,
             totalFeeRateAt(st.dyn.accumulator), q.zeroForOne, IsFeeOnInput(q.zeroForOne))

\* First half of an iteration of stepToBoundary's loop: the fee for this group, and
\* a swap along the curve to the group's edge or the target.  next is where the
\* price will be, landing the tick it is in when it stops short of the boundary.
\* (Intermediate results are bound by \E over singletons, so TLC computes each once.)
SwapAlongCurve ==
    LET target == clampTarget(SqrtPriceFromTick(step.tickIndex), q.zeroForOne)
    IN  /\ pc = "curve"
        /\ \E st \in {updateVolatilityAccumulator(s)} :
           \E bounded \in {spacingBoundedPrice(st, target, q.zeroForOne)} :
           \E r \in {curveStep(st, bounded)} :
               /\ s' = apply(st, r.amountIn, r.amountOut, r.feeAmount,
                             IsFeeOnInput(q.zeroForOne))
               /\ step' = [step EXCEPT
                     !.feeRate = totalFeeRateAt(st.dyn.accumulator),
                     !.skipped = skipsGroups(st),
                     !.next = r.sqrtPriceNext,
                     !.landing = landedTick(st, r.sqrtPriceNext, bounded, target, q.zeroForOne)]
        /\ pc' = IF s'.err = "none" THEN "arrive" ELSE "failed"
        /\ UNCHANGED <<poolVars, q, fills, trader, swaps>>

Fail(err) ==
    /\ pc' = "failed"
    /\ s' = [s EXCEPT !.err = err]
    /\ UNCHANGED <<step, fills>>

\* The end of an iteration, with the tick, the orders left and the liquidity behind
\* the boundary that the arrival gives: move, advance the group, and leave the loop
\* when the input is used up or the target is reached.
Arrive(st, tick, unfilled, liquidityNext) ==
    LET target == clampTarget(SqrtPriceFromTick(step.tickIndex), q.zeroForOne)
    IN  /\ fills' = [fills EXCEPT ![step.tickIndex] = @ + step.unfilled - unfilled]
        /\ \E moved \in {updateDynamicFeeIndex([st EXCEPT !.tick = tick, !.sqrtPrice = step.next],
                                               q.zeroForOne, step.skipped, step.tickIndex)} :
           IF st.amountRemaining = 0 \/ step.next = target
           THEN /\ pc' = "walk"
                /\ s' = [moved EXCEPT !.liquidity = liquidityNext]
                /\ step' = NoStep
           ELSE /\ pc' = "curve"
                /\ s' = moved
                /\ step' = [step EXCEPT !.unfilled = unfilled, !.liquidityNext = liquidityNext]

\* What a step that ends off the boundary leaves behind.
StopShort ==
    /\ step.next # SqrtPriceFromTick(step.tickIndex)
    /\ Arrive(s, step.landing, step.unfilled, step.liquidityNext)

\* A step that ends on the boundary: match its orders, then cross it unless some
\* are left.
ReachBoundary ==
    /\ step.next = SqrtPriceFromTick(step.tickIndex)
    /\ \E match \in {matchLimitOrders(s, step.unfilled, step.next, step.feeRate,
                                      q.zeroForOne, IsFeeOnInput(q.zeroForOne))} :
       \E liquidity \in {IF step.tickIndex \in HasLiquidity /\ match.unfilled = 0
                         THEN crossLiquidity(step.liquidityNext,
                                             cfg.liquidityNet[step.tickIndex], q.zeroForOne)
                         ELSE step.liquidityNext} :
           IF match.st.err # "none" THEN Fail(match.st.err)
           ELSE IF liquidity < 0 THEN Fail("ErrNegativeLiquidity")
           ELSE Arrive(match.st, tickAfterCross(step.tickIndex, match.unfilled > 0, q.zeroForOne),
                       match.unfilled, liquidity)

\* Second half of the iteration.
ArriveAtPrice ==
    /\ pc = "arrive"
    /\ StopShort \/ ReachBoundary
    /\ UNCHANGED <<poolVars, q, trader, swaps>>

\* The caller takes the result, or the error, and drops it.
Forget ==
    /\ pc \in {"done", "failed", "refused"}
    /\ pc' = "idle" /\ q' = NoQuote /\ s' = NoState /\ step' = NoStep /\ fills' = NoFills
    /\ UNCHANGED <<poolVars, trader, swaps>>

consumed == q.amountIn - s.amountRemaining

\* The program on chain executes the quoted swap at the quoted time.  It fills the
\* whole input, strictly inside the price limits, or fails.
SwapLands ==
    /\ pc = "done"
    /\ s.amountRemaining = 0 /\ q.timestamp = now
    /\ s.sqrtPrice # limit(q.zeroForOne)
    /\ swaps < MaxSwaps
    /\ swaps' = swaps + 1
    /\ pool' = [sqrtPrice |-> s.sqrtPrice, tick |-> s.tick, liquidity |-> s.liquidity,
                dyn |-> s.dyn]
    /\ orders' = [t \in Ticks |-> orders[t] - fills[t]]
    /\ trader' = IF q.zeroForOne THEN <<trader[1] - consumed, trader[2] + s.amountOut>>
                                 ELSE <<trader[1] + s.amountOut, trader[2] - consumed>>
    /\ pc' = "idle" /\ q' = NoQuote /\ s' = NoState /\ step' = NoStep /\ fills' = NoFills
    /\ UNCHANGED <<cfg, now, asks>>

TimePasses ==
    /\ pc = "idle" /\ now < MaxTime
    /\ now' = now + 1
    /\ UNCHANGED <<cfg, pool, orders, asks, quoteVars, trader, swaps>>

QuoteStep == NextBoundary \/ EndOfWalk \/ SwapAlongCurve \/ ArriveAtPrice

Next ==
    \/ \E z \in BOOLEAN, a \in Amounts, l \in Lags, r \in Reaches : QuoteExactIn(z, a, l, r)
    \/ QuoteStep
    \/ Forget
    \/ SwapLands
    \/ TimePasses

Spec     == Init /\ [][Next]_vars
FairSpec == Spec /\ WF_vars(QuoteStep)

-----------------------------------------------------------------------------
\* Properties

Quoting == pc \in {"walk", "curve", "arrive", "done"}

\* Type correctness: amounts stay u64, the walk stays inside the tick range.
TypeOK ==
    /\ cfg \in Configs
    /\ pc \in {"idle", "walk", "curve", "arrive", "done", "failed", "refused"}
    /\ s.amountRemaining \in 0 .. MaxU64 /\ s.amountOut \in 0 .. MaxU64
    /\ s.liquidity >= 0 /\ pool.liquidity >= 0
    /\ pool.tick \in Ticks
    /\ Quoting => s.sqrtPrice \in MinSqrtPrice .. MaxSqrtPrice
    /\ \A t \in Ticks : orders[t] >= 0

Holds(tick, sqrtPrice) ==
    SqrtPriceFromTick(tick) <= sqrtPrice /\ sqrtPrice <= SqrtPriceFromTick(tick + 1)

\* The tick a walk (and then the pool) sits on is the one its price is in, or the
\* one just below it when the price rests exactly on an edge: crossings, landings
\* inside a group and half-filled order ticks all keep the two together.
TickMatchesPrice ==
    /\ Quoting => Holds(s.tick, s.sqrtPrice)
    /\ Holds(pool.tick, pool.sqrtPrice)

\* Active liquidity is exactly what the positions around the tick add up to: every
\* edge is applied once when it is crossed, in the right direction, and not at all
\* while orders still rest on it.
LiquidityMatchesTick ==
    /\ pc \in {"walk", "done"} => s.liquidity = LiquidityAt(s.tick)
    /\ pool.liquidity = LiquidityAt(pool.tick)

\* With a dynamic fee the walk is always inside the tick-spacing group it counts the
\* volatility of, edges included: no group is skipped or counted twice, whether a
\* step was bounded to a group or ran across several, and no step is computed
\* toward an edge behind the price.
GroupHoldsPrice ==
    cfg.dynamic /\ pc \in {"walk", "curve"} /\ s.amountRemaining > 0 =>
        LET low == s.tickSpacingIdx * cfg.tickSpacing
        IN  /\ low >= MinTick => SqrtPriceFromTick(low) <= s.sqrtPrice
            /\ low + cfg.tickSpacing <= MaxTick =>
                   s.sqrtPrice <= SqrtPriceFromTick(low + cfg.tickSpacing)

\* The rounding of a step or of a fill never asks for more than the input that is
\* left: apply's "consumed > amountRemaining" refusal is unreachable.
NeverOverdrawn == s.err # "ErrOverdrawn"

\* A step ends on its target exactly when the input covers the way there: rounding the
\* price never carries an unpaid step to it, so the amount the code then reads is
\* never the nil that stands for "more than a u64" (swap_math.go:44, 53, 58).
TargetIsPaidFor ==
    pc = "curve" =>
        LET st      == updateVolatilityAccumulator(s)
            target  == clampTarget(SqrtPriceFromTick(step.tickIndex), q.zeroForOne)
            bounded == spacingBoundedPrice(st, target, q.zeroForOne)
            amount  == amountForCalc(st.amountRemaining, totalFeeRateAt(st.dyn.accumulator),
                                     IsFeeOnInput(q.zeroForOne))
        IN  bounded # st.sqrtPrice =>
                (stepPrice(st.sqrtPrice, bounded, st.liquidity, amount, q.zeroForOne) = bounded
                    <=> reachesTarget(st.sqrtPrice, bounded, st.liquidity, amount, q.zeroForOne))

\* No quote hands out more than rests at a tick, although the provider keeps
\* answering with the full size, and it takes only orders of the side its
\* direction meets: a half-filled tick is left on the side where only more of the
\* same direction meets it again.
OrdersFilledOnce ==
    \A t \in Ticks : fills[t] > 0 =>
        fills[t] <= orders[t] /\ (t \in asks <=> ~q.zeroForOne)

\* No sequence of swaps leaves the trader with more of one token and no less of
\* the other: every rounding in the walk goes against the trader.
TraderNeverProfits ==
    ~(trader[1] >= 0 /\ trader[2] >= 0 /\ trader # <<0, 0>>)

\* Inside a quote the price only moves in the direction of the swap, input is only
\* consumed, output only added, and the provider is asked from ticks that never
\* turn back (which is what lets a tick-array walker forget arrays it has left).
WalkGoesOneWay ==
    [][Quoting /\ Quoting' =>
           /\ s'.amountRemaining <= s.amountRemaining
           /\ s'.amountOut >= s.amountOut
           /\ IF q.zeroForOne THEN s'.sqrtPrice <= s.sqrtPrice /\ s'.tick <= s.tick
                              ELSE s'.sqrtPrice >= s.sqrtPrice /\ s'.tick >= s.tick]_vars

\* Every quote ends, with a result or an error: no dust of input and no group edge
\* keeps the two loops going.
QuoteEnds == (pc = "walk") ~> (pc \in {"done", "failed"})

\* "a stale one under-decays and over-quotes the fee": the rate charged at the
\* current group is at least the one the current time would have given there.
StaleTimeOverQuotesFee ==
    LET index == tickSpacingIndexFromTick(pool.tick, cfg.tickSpacing)
        fresh == updateReference(pool.dyn, index, now)
    IN  cfg.dynamic /\ pc = "curve" =>
            totalFeeRateAt(accumulatorAt(s.dyn, s.tickSpacingIdx))
                >= totalFeeRateAt(accumulatorAt(fresh, s.tickSpacingIdx))

=============================================================================
