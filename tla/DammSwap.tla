------------------------------- MODULE DammSwap -------------------------------
(***************************************************************************)
(* A Meteora DAMM v2 pool that is traded while its base fee follows its    *)
(* schedule.  FromDAMMPool (from_models.go) makes a quoter of the pool at  *)
(* a point in time; the program, which is not in the repository, executes  *)
(* what the quote says.                                                    *)
(***************************************************************************)
EXTENDS DammFees

CONSTANTS Pools,    \* initial accounts of a pool
          Amounts,  \* exact inputs and exact outputs
          MaxSwaps, MaxPoint, \* bounds: swaps that land, the clock
          MaxChunks           \* bound: chunks a rate limiter's fee is summed over

VARIABLES pool,   \* the pool account
          vault,  \* token balances of its two vaults
          owed,   \* fees in the vaults that are not the pool's to trade
          point,  \* the clock, in the pool's activation unit
          trader, \* trader[i]: net token i all traders together have won
          swaps

vars == <<pool, vault, owed, point, trader, swaps>>

-----------------------------------------------------------------------------
\* from_models.go and soldex.go

DAMMCompounding(reserves, feeNumerator, onInput, split) ==
    [kind |-> "compounding", reserves |-> reserves, feeNumerator |-> feeNumerator,
     onInput |-> onInput, split |-> split]

DAMMConcentrated(p) == [kind |-> "concentrated", p |-> p]

\* Failed is ErrPoolNotQuotable.  A compounding pool charges its output, and no referral.
FromDAMMPool(account, currentPoint) ==
    LET feeNumerator == CurrentBaseFeeNumerator(ParseDAMMBaseFee(account.baseFeeInfo),
                                                currentPoint, account.activationPoint)
    IN  IF feeNumerator = Err THEN Failed
        ELSE IF account.collectFeeMode = CollectFeeModeCompounding
        THEN DAMMCompounding(account.reserves, feeNumerator, FALSE,
                             [account.split EXCEPT !.hasReferral = FALSE])
        ELSE DAMMConcentrated(
                 [sqrtPrice |-> account.sqrtPrice, sqrtMinPrice |-> account.sqrtMinPrice,
                  sqrtMaxPrice |-> account.sqrtMaxPrice, liquidity |-> account.liquidity,
                  collectFeeMode |-> account.collectFeeMode, feeVersion |-> account.feeVersion,
                  baseFeeNumerator |-> feeNumerator,
                  dynamicFeeInitialized |-> account.dynamicFee.initialized,
                  volatilityAccumulator |-> account.dynamicFee.volatilityAccumulator,
                  binStep |-> account.dynamicFee.binStep,
                  variableFeeControl |-> account.dynamicFee.variableFeeControl])

\* What a quoter answers: the output, or Err.
QuoteExactIn(qt, amountIn, i) ==
    IF qt.kind = "concentrated" THEN QuoteConcentratedExactIn(amountIn, i = 1, qt.p)
    ELSE LET r == QuoteExactInCompounding(amountIn, qt.reserves, i, qt.feeNumerator, qt.onInput, qt.split)
         IN  IF r = Failed THEN Err ELSE r.out

-----------------------------------------------------------------------------
\* The pool on chain.  A vault starts with what its liquidity is worth, rounded up.

principal(p, roundUp) ==
    IF p.collectFeeMode = CollectFeeModeCompounding THEN p.reserves
    ELSE <<GetDeltaAmountA(p.sqrtPrice, p.sqrtMaxPrice, p.liquidity, roundUp),
           GetDeltaAmountB(p.sqrtMinPrice, p.sqrtPrice, p.liquidity, roundUp)>>

\* Pool accounts with a fee below 100% and shares of a fee that are shares.
Rates    == 0 .. FeeDenominator - 1
Blobs    == [mode : Nat, cliff : Rates, at14 : Nat, at16 : Nat, at20 : Nat, at24 : Nat]
Splits   == [protocol : 0 .. 100, compounding : 0 .. MaxBasisPoint, referral : 0 .. 100,
             hasReferral : BOOLEAN]
Accounts == [baseFeeInfo : Blobs, activationPoint : Nat, collectFeeMode : Nat, feeVersion : Nat,
             reserves : [1 .. 2 -> Nat], sqrtPrice : Nat, sqrtMinPrice : Nat, sqrtMaxPrice : Nat,
             liquidity : Nat, split : Splits,
             dynamicFee : [initialized : BOOLEAN, volatilityAccumulator : Nat, binStep : Nat,
                           variableFeeControl : Nat]]

\* The pools the program lets exist have reserves on both sides, or a price in its range,
\* and vaults that hold them.
ASSUME PoolAssumption ==
    /\ Pools \subseteq Accounts
    /\ Amounts \subseteq u64 /\ MaxChunks \in Nat
    /\ \A p \in Pools :
          /\ \A i \in 1 .. 2 : principal(p, TRUE)[i] \in u64
          /\ IF p.collectFeeMode = CollectFeeModeCompounding
             THEN \A i \in 1 .. 2 : p.reserves[i] > 0
             ELSE p.sqrtMinPrice > 0 /\ p.sqrtPrice \in p.sqrtMinPrice .. p.sqrtMaxPrice

Init ==
    /\ pool \in Pools
    /\ vault = principal(pool, TRUE)
    /\ owed = <<0, 0>> /\ point = 0 /\ trader = <<0, 0>> /\ swaps = 0

\* in goes into vault i and out leaves the other one; feeIn and feeOut of it are set aside.
Exchange(i, in, out, feeIn, feeOut) ==
    /\ swaps < MaxSwaps
    /\ out > 0 /\ out <= vault[other(i)] /\ vault[i] + in <= U64Max
    /\ vault'  = [vault EXCEPT ![i] = @ + in, ![other(i)] = @ - out]
    /\ owed'   = [owed EXCEPT ![i] = @ + feeIn, ![other(i)] = @ + feeOut]
    /\ trader' = [trader EXCEPT ![i] = @ - in, ![other(i)] = @ + out]
    /\ swaps'  = swaps + 1
    /\ UNCHANGED point

\* r is the result of a compounding quote, gross what its curve gives out.  The
\* compounding part of the fee goes back into the reserve it came from.
SettleCompounding(i, onInput, r, gross) ==
    LET aside == r.fees.claiming + r.fees.protocol + r.fees.referral
        kept  == r.fees.compounding
        o     == other(i)
    IN  /\ Exchange(i, r.included, r.out, IF onInput THEN aside ELSE 0, IF onInput THEN 0 ELSE aside)
        /\ pool' = [pool EXCEPT !.reserves[i] = @ + r.excluded + (IF onInput THEN kept ELSE 0),
                                !.reserves[o] = @ - gross + (IF onInput THEN 0 ELSE kept)]

\* A caller of DAMMCompounding may also charge the input or name a referrer: c is the two
\* choices.
Quoters ==
    LET qt == FromDAMMPool(pool, point)
    IN  IF qt = Failed THEN {}
        ELSE IF qt.kind = "concentrated" THEN {qt}
        ELSE {DAMMCompounding(qt.reserves, qt.feeNumerator, c[1], [pool.split EXCEPT !.hasReferral = c[2]]) :
                 c \in BOOLEAN \X {FALSE, pool.split.hasReferral}}

SwapExactIn(i, amountIn) ==
    \E qt \in Quoters :
        /\ qt.kind = "compounding"
        /\ \E r \in {QuoteExactInCompounding(amountIn, qt.reserves, i, qt.feeNumerator, qt.onInput, qt.split)} :
               /\ r # Failed
               /\ SettleCompounding(i, qt.onInput, r, compoundingFromAmountIn(qt.reserves, i, r.excluded))

SwapExactOut(i, amountOut) ==
    \E qt \in Quoters :
        /\ qt.kind = "compounding"
        /\ \E r \in {QuoteExactOutCompounding(amountOut, qt.reserves, i, qt.feeNumerator, qt.onInput, qt.split)} :
               /\ r # Failed
               /\ SettleCompounding(i, qt.onInput, r,
                      IF qt.onInput THEN amountOut ELSE GetIncludedFeeAmount(qt.feeNumerator, amountOut).amount)

\* All of a concentrated pool's fee is set aside.
SwapConcentrated(i, amountIn) ==
    \E qt \in Quoters :
        /\ qt.kind = "concentrated"
        /\ QuoteConcentratedExactIn(amountIn, i = 1, qt.p) # Err
        /\ LET net == netInput(amountIn, i = 1, qt.p)
               out == QuoteConcentratedExactIn(amountIn, i = 1, qt.p)
           IN  /\ Exchange(i, amountIn, out, amountIn - net, concentratedOutput(net, i = 1, qt.p) - out)
               /\ pool' = [pool EXCEPT !.sqrtPrice =
                              GetNextSqrtPriceFromInput(@, pool.liquidity, net, i = 1)]

TimePasses ==
    /\ point < MaxPoint
    /\ point' = point + 1
    /\ UNCHANGED <<pool, vault, owed, trader, swaps>>

Next ==
    \/ \E i \in 1 .. 2, a \in Amounts : SwapExactIn(i, a) \/ SwapExactOut(i, a) \/ SwapConcentrated(i, a)
    \/ TimePasses

Spec == Init /\ [][Next]_vars

-----------------------------------------------------------------------------
\* Properties

\* The vaults hold what the pool may still have to pay: exactly its reserves and the
\* fees set aside on a compounding pool (no part of a split fee is lost or counted
\* twice, fees.go:36-72), at least them on a concentrated one, whose price and amounts
\* are rounded apart from each other.
VaultsCoverPool ==
    \A i \in 1 .. 2 :
        /\ vault[i] >= principal(pool, FALSE)[i] + owed[i]
        /\ pool.collectFeeMode = CollectFeeModeCompounding => vault[i] = pool.reserves[i] + owed[i]

\* No sequence of exact-in and exact-out swaps, in either direction, with and without
\* fees and at any point of the schedule, leaves the traders with more of one token and
\* no less of the other.
TraderNeverProfits == ~(trader[1] >= 0 /\ trader[2] >= 0 /\ trader # <<0, 0>>)

\* An exact-out quote names the least input that is enough: quoted exact-in it gives
\* what was asked for, and one unit less does not (compounding_quote.go:115-122, both
\* fee modes; "reversing either understates the cost by the fee").
ExactOutIsLeast ==
    \A qt \in {x \in Quoters : x.kind = "compounding"}, i \in 1 .. 2, out \in Amounts :
        LET r == QuoteExactOutCompounding(out, qt.reserves, i, qt.feeNumerator, qt.onInput, qt.split)
        IN  r # Failed /\ qt.reserves[i] + r.included <= U64Max =>
                /\ QuoteExactIn(qt, r.included, i) >= out
                /\ r.included > 0 => QuoteExactIn(qt, r.included - 1, i) < out

\* The rate of chunk k of a rate limiter's input, before the division; what the first k
\* chunks of the reference amount are charged, and what an input of any size is.
chunkRate(f, k) == lesser(f.cliff + k * f.feeIncrementBps * bpsToFeeNumerator, f.maxFeeBps * bpsToFeeNumerator)
chunkFees(f) ==
    LET sum[k \in 0 .. MaxChunks] ==
            IF k = 0 THEN 0 ELSE sum[k - 1] + f.referenceAmount * chunkRate(f, k - 1)
    IN  sum
chargedByChunk(f, sum, amount) ==
    LET k == amount \div f.referenceAmount
    IN  sum[k] + (amount % f.referenceAmount) * chunkRate(f, k)

\* The closed form of a rate limiter's fee (damm_rate_limiter.go:46-59) is what charging
\* the input chunk by chunk, at a rate that climbs to its cap, adds up to.
RateLimiterIsPerChunk ==
    LET f == ParseDAMMBaseFee(pool.baseFeeInfo)
    IN  RateLimiterApplies(f, point, pool.activationPoint, TRUE) /\ f.maxFeeBps * bpsToFeeNumerator > f.cliff =>
            \E sum \in {chunkFees(f)} :
                \A a \in 0 .. lesser(U64Max, MaxChunks * f.referenceAmount) :
                    RateLimiterFee(f, a) = ceilDivFeeDenominator(chargedByChunk(f, sum, a))

\* A fee schedule only ever lets a trader wait for a better price: what a pool answers
\* at a later point is never less, across the activation point, the end of the schedule
\* and both roundings (damm_base_fee_schedule.go:36-48).  It may be refused: with less
\* fee on the input, more of it reaches the curve and may leave the price range.
FeeOnlyDecays ==
    [][point' > point =>
           LET before == FromDAMMPool(pool, point)
               after  == FromDAMMPool(pool', point')
           IN  before # Failed /\ after # Failed =>
                   \A i \in 1 .. 2, a \in Amounts :
                       \/ QuoteExactIn(after, a, i) = Err
                       \/ QuoteExactIn(after, a, i) >= QuoteExactIn(before, a, i)]_vars

=============================================================================
