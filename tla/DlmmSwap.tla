------------------------------- MODULE DlmmSwap -------------------------------
(***************************************************************************)
(* quote/dlmm/swap_quote.go: the exact-in quote of a Meteora DLMM pool,    *)
(* one bin per step.  The quote walks a window of cached bin arrays and    *)
(* works on its own copy of the pool.                                      *)
(*                                                                         *)
(* The program on chain is not in the repository.  Here it executes what a *)
(* quote that consumed its whole input said, so that pools with moved      *)
(* bins, half-drained bins and old volatility occur.                       *)
(***************************************************************************)
EXTENDS DlmmMath, Sequences, FiniteSets

CONSTANTS minBinID, maxBinID,  \* -443636, 443636
          Price,               \* [bins -> Nat], GetPriceFromID; 0 where it fails
          Configs,             \* the pools' fee parameters
          Books,               \* initial reserves, functions [bins -> [x, y]]
          Windows,             \* sets of array indexes a provider may have cached
          Amounts, Lags,       \* exact inputs; how old a quote's timestamp may be
          VariableFeeScale,    \* 100_000_000_000
          MaxSwaps, MaxTime    \* bounds: swaps that land, the clock

Bins == minBinID .. maxBinID

Reserves == [x : 0 .. U64Max, y : 0 .. U64Max]

ASSUME DlmmAssumption ==
    /\ minBinID \in Int /\ maxBinID \in Int /\ minBinID < 0 /\ 0 < maxBinID
    /\ Price \in [Bins -> Nat]
    /\ VariableFeeScale \in Nat \ {0}
    /\ Books \subseteq [Bins -> Reserves]
    /\ Amounts \subseteq 0 .. U64Max /\ Lags \subseteq Nat
    /\ Windows \subseteq SUBSET Int

\* The program takes x at the active bin and above, y at the active bin and below.
ASSUME BookAssumption ==
    \A book \in Books, b \in Bins : (b < 0 => book[b].x = 0) /\ (b > 0 => book[b].y = 0)

\* The parameters are unsigned integers; so is the power of ten their last one stands for.
ASSUME ConfigAssumption ==
    \A c \in Configs :
        /\ {c.binStep, c.baseFactor, c.variableFeeControl, c.maxVolatility,
            c.reductionFactor, 10 ^ c.baseFeePowerFactor} \subseteq Nat
        /\ c.filterPeriod \in Nat /\ c.decayPeriod \in Nat

VARIABLES cfg,    \* fee parameters
          pool,   \* active, va, vr, ir, last: the LbPair's live fields
          bins,   \* reserves of every bin
          now,    \* unix time
          pc, q,  \* the quote: where it is, its arguments
          own,    \* its copy of the pool
          w,      \* its amountLeft, totalOut and indices
          moved,  \* moved[b]: what this quote takes out of bin b and puts into it
          trader, \* trader[1], trader[2]: net x and y the trader has won
          swaps

chain == <<cfg, pool, bins, now>>
quote == <<pc, q, own, w, moved>>
vars  == <<chain, quote, trader, swaps>>

-----------------------------------------------------------------------------
\* The fee

updateReferences(p, timestamp) ==
    LET elapsed == timestamp - p.last
    IN  IF elapsed < cfg.filterPeriod THEN p
        ELSE [p EXCEPT !.ir = p.active,
                       !.vr = IF elapsed < cfg.decayPeriod
                              THEN (p.va * cfg.reductionFactor) \div BasisPointMax ELSE 0]

abs(n) == IF n < 0 THEN -n ELSE n

volatilityAt(p, bin) == lesser(p.vr + abs(p.ir - bin) * BasisPointMax, cfg.maxVolatility)

updateVolatilityAccumulator(p) == [p EXCEPT !.va = volatilityAt(p, p.active)]

variableFeeRate(va) ==
    IF cfg.variableFeeControl = 0 THEN 0
    ELSE divCeil(cfg.variableFeeControl * (va * cfg.binStep) * (va * cfg.binStep),
                 VariableFeeScale)

totalFeeRate(va) ==
    lesser(cfg.baseFactor * cfg.binStep * 10 * 10 ^ cfg.baseFeePowerFactor + variableFeeRate(va),
           MaxFeeRate)

\* collect_fee_mode 1 collects in y only.
feeOnInput(swapForY) == cfg.collectFeeMode = 1 => ~swapForY

-----------------------------------------------------------------------------

NoQuote == [swapForY |-> TRUE, amountIn |-> 0, timestamp |-> 0, window |-> {}]
NoPool  == [active |-> 0, va |-> 0, vr |-> 0, ir |-> 0, last |-> 0]
NoWalk  == [left |-> 0, out |-> 0, indices |-> <<>>]
NoMoves == [b \in Bins |-> [out |-> 0, in |-> 0]]

Init ==
    /\ cfg \in Configs
    /\ bins \in Books
    /\ pool = NoPool
    /\ now = 0
    /\ pc = "idle" /\ q = NoQuote /\ own = NoPool /\ w = NoWalk /\ moved = NoMoves
    /\ trader = <<0, 0>> /\ swaps = 0

\* DLMMSwapPool takes a pair only while its status is Enabled.
Refused == cfg.status # 0

\* QuoteExactInDetailed up to its loop.
QuoteExactIn(swapForY, amountIn, lag, window) ==
    LET timestamp == IF now > lag THEN now - lag ELSE 0
    IN  /\ pc = "idle"
        /\ q' = [swapForY |-> swapForY, amountIn |-> amountIn,
                 timestamp |-> timestamp, window |-> window]
        /\ IF Refused
           THEN pc' = "refused" /\ UNCHANGED <<own, w>>
           ELSE /\ own' = updateReferences(pool, timestamp)
                /\ w' = [NoWalk EXCEPT !.left = amountIn]
                /\ pc' = "walk"
        /\ UNCHANGED <<chain, moved, trader, swaps>>

cached(bin) == BinIDToArrayIndex(bin) \in q.window

\* The array of the active bin, listed when the walk enters it.
listIndex(indices) ==
    LET index == BinIDToArrayIndex(own.active)
    IN  IF indices = <<>> \/ indices[Len(indices)] # index THEN Append(indices, index)
        ELSE indices

\* Mutant: a walk that steps over the next bin.
nextBinSkipping(active, swapForY) == IF swapForY THEN active - 2 ELSE active + 1

nextBin(active, swapForY) == IF swapForY THEN active - 1 ELSE active + 1

\* The end of the loop's body: on to the next bin while input is left.
StepOn(p, walked) ==
    LET next == nextBin(p.active, q.swapForY)
    IN  /\ w' = walked
        /\ IF walked.left > 0 /\ next \notin Bins
           THEN own' = p /\ pc' = "done"
           ELSE /\ own' = IF walked.left > 0 THEN [p EXCEPT !.active = next] ELSE p
                /\ pc' = "walk"

Visiting == pc = "walk" /\ w.left > 0 /\ cached(own.active)

maxOut == GetMaxAmountOut(bins[own.active], q.swapForY)

\* The input is used up, or the walk is at the edge of the cached arrays.
EndOfWalk ==
    /\ pc = "walk" /\ ~Visiting
    /\ pc' = "done"
    /\ UNCHANGED <<chain, q, own, w, moved, trader, swaps>>

SkipEmptyBin ==
    /\ Visiting /\ maxOut = 0
    /\ StepOn(own, [w EXCEPT !.indices = listIndex(@)])
    /\ UNCHANGED <<chain, q, moved, trader, swaps>>

\* What swapAtBin makes of the active bin.
atBin ==
    swapAtBin(w.left, maxOut, Price[own.active], q.swapForY, feeOnInput(q.swapForY),
              totalFeeRate(updateVolatilityAccumulator(own).va))

SwapAtBin ==
    /\ Visiting /\ maxOut > 0 /\ Price[own.active] > 0
    /\ \E r \in {atBin} :
           /\ r.ok
           /\ StepOn(updateVolatilityAccumulator(own),
                     [left |-> wrap(w.left - r.consumed), out |-> wrap(w.out + r.out),
                      indices |-> listIndex(w.indices)])
           /\ moved' = [moved EXCEPT ![own.active] = [out |-> r.gross, in |-> r.used]]
    /\ UNCHANGED <<chain, q, trader, swaps>>

\* A price or an amount that does not fit ends the whole quote.
SwapAtBinFails ==
    /\ Visiting /\ maxOut > 0
    /\ Price[own.active] = 0 \/ ~atBin.ok
    /\ pc' = "failed"
    /\ UNCHANGED <<chain, q, own, w, moved, trader, swaps>>

\* The caller takes the result, or the error, and drops it.
Forget ==
    /\ pc \in {"done", "failed", "refused"}
    /\ pc' = "idle" /\ q' = NoQuote /\ own' = NoPool /\ w' = NoWalk /\ moved' = NoMoves
    /\ UNCHANGED <<chain, trader, swaps>>

\* The program on chain executes the quoted swap, at the quoted time, unless a
\* reserve would no longer fit a u64.
SwapLands ==
    /\ pc = "done" /\ w.left = 0 /\ q.amountIn > 0 /\ q.timestamp = now
    /\ swaps < MaxSwaps
    /\ swaps' = swaps + 1
    /\ bins' = [b \in Bins |->
           IF q.swapForY THEN [x |-> bins[b].x + moved[b].in, y |-> bins[b].y - moved[b].out]
                         ELSE [x |-> bins[b].x - moved[b].out, y |-> bins[b].y + moved[b].in]]
    /\ \A b \in Bins : bins'[b].x <= U64Max /\ bins'[b].y <= U64Max
    /\ pool' = [own EXCEPT !.last = now]
    /\ trader' = IF q.swapForY THEN <<trader[1] - q.amountIn, trader[2] + w.out>>
                               ELSE <<trader[1] + w.out, trader[2] - q.amountIn>>
    /\ pc' = "idle" /\ q' = NoQuote /\ own' = NoPool /\ w' = NoWalk /\ moved' = NoMoves
    /\ UNCHANGED <<cfg, now>>

TimePasses ==
    /\ pc = "idle" /\ now < MaxTime
    /\ now' = now + 1
    /\ UNCHANGED <<cfg, pool, bins, quote, trader, swaps>>

QuoteStep == EndOfWalk \/ SkipEmptyBin \/ SwapAtBin \/ SwapAtBinFails

Next ==
    \/ \E y \in BOOLEAN, a \in Amounts, l \in Lags, n \in Windows : QuoteExactIn(y, a, l, n)
    \/ QuoteStep
    \/ Forget
    \/ SwapLands
    \/ TimePasses

Spec == Init /\ [][Next]_vars

-----------------------------------------------------------------------------
\* Properties

\* Type correctness: no amount wraps, so no more input is consumed than was given.
TypeOK ==
    /\ pc \in {"idle", "walk", "done", "failed", "refused"}
    /\ w.left \in 0 .. q.amountIn /\ w.out \in 0 .. U64Max
    /\ own.active \in Bins /\ pool.active \in Bins
    /\ \A b \in Bins : bins[b].x >= 0 /\ bins[b].y >= 0

\* The bins between the start of the walk and its active bin, that one excluded.
passed == IF q.swapForY THEN own.active + 1 .. pool.active ELSE pool.active .. own.active - 1

OutOf(b) == GetMaxAmountOut(bins[b], q.swapForY)

\* Liquidity is taken strictly in order: every bin behind the walk gave all it had, no
\* bin ahead gave anything, and a quote consumes less than its input only where the
\* cached arrays or the bin range end (swap_quote.go:53-59).
DrainsInOrder ==
    pc \in {"walk", "done"} =>
        /\ \A b \in passed : moved[b].out = OutOf(b)
        /\ \A b \in Bins \ (passed \cup {own.active}) : moved[b].out = 0
        /\ moved[own.active].out <= OutOf(own.active)
        /\ pc = "done" /\ w.left > 0 =>
               \/ ~\E i \in q.window : own.active \in i * MaxBinPerArray .. (i + 1) * MaxBinPerArray - 1
               \/ /\ nextBin(own.active, q.swapForY) \notin Bins
                  /\ moved[own.active].out = OutOf(own.active)

\* The accounts the executor passes on: each bin the quote took from lies in an array
\* that BinArrayIndices lists, and no array is listed twice (swap_quote.go:53-56).
IndicesCoverSwap ==
    pc \in {"walk", "done"} =>
        /\ \A b \in Bins : moved[b].out > 0 =>
               \E k \in DOMAIN w.indices :
                   b \in w.indices[k] * MaxBinPerArray .. (w.indices[k] + 1) * MaxBinPerArray - 1
        /\ \A j, k \in DOMAIN w.indices : w.indices[j] = w.indices[k] => j = k

\* The two translations of the same program in quote/dlmm agree: for a fee on the input
\* swapAtBin pays out of a bin and into it exactly what QuoteSwapOnBin does, and
\* charges at most one unit more, when what is left after the fee exactly drains the bin.
BinPathsAgree ==
    Visiting /\ maxOut > 0 /\ Price[own.active] > 0 /\ feeOnInput(q.swapForY) =>
        LET a == atBin
            b == QuoteSwapOnBin(w.left, bins[own.active], Price[own.active], q.swapForY,
                     totalFeeRate(volatilityAt(own, own.active)), BasisPointMax, 1)
        IN  b.ok => /\ a.ok
                    /\ a.out = b.amountOut /\ a.used = b.amountIntoBin
                    /\ a.consumed - b.amountInWithFees \in 0 .. 1
                    /\ b.protocolFeeAfterHost + b.hostFee <= b.fee

\* No sequence of swaps leaves the trader with more of one token and no less of the
\* other, fee-free pools included: every rounding goes against the trader.
TraderNeverProfits == ~(trader[1] >= 0 /\ trader[2] >= 0 /\ trader # <<0, 0>>)

=============================================================================
