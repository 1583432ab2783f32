# soldex in TLA+

A verification project for `soldex`, a Go library that quotes exact-in swaps on Solana DEXes from decoded account
state. A quote is trusted by a bot that sends real transactions, so the questions asked here are the ones a unit test
with one vector hardly answers: do price, tick, liquidity and fee group stay together through every path of a swap
walk, does every rounding go against the trader over a *sequence* of swaps, does a walk end, is the one piece of
shared mutable state safe under concurrency, and does a failing loader ever pass for the end of liquidity.

## 1. Inventory

| Component | State it keeps | Operations | Hard behaviour | Correct means |
|---|---|---|---|---|
| DLMM price cache (`math/dlmm/price_cache.go`) | process-wide array of (key, pointer) slots, an RWMutex | `cachedPriceFromID` | goroutines race; colliding keys; results are pointers | indistinguishable from the pure function, results never shared, every call returns |
| DLMM quote (`quote/dlmm`) | per quote: active bin, volatility, amount left, output, array indexes | bin walk, `swapAtBin`, `QuoteSwapOnBin` | unchecked u64 subtraction, two translations of one bin swap, cached window ends mid-walk, old timestamps | liquidity taken in order, no wrap, listed arrays cover the swap, no profit from rounding |
| Raydium CLMM arithmetic (`math/raydium`) | none | step, deltas, ticks, order fills | roundings in both directions, amounts above u64 | a step ends on its target exactly when it is paid for |
| Raydium CLMM quote (`quote/raydium/swap_quote.go`, `dynamic_fee.go`, `limit_order.go`) | per quote: price, tick, liquidity, fee group, volatility, amounts | two nested loops, order matching, fee groups | half-filled order ticks flip sides, groups at negative ticks and edges, loops that end only on exact hits | tick, liquidity and group agree with the price; orders filled once; every quote ends |
| Raydium tick arrays (`quote/raydium/tick_array.go`) | per quote: arrays loaded, position, sticky error | `Next`, `SwapTickArrayStarts` | lazy loads that fail, empty arrays, never looks back | answers like a search of all the arrays the swap is given |
| Orca Whirlpool quote and tick arrays (`quote/orca`, `math/orca`) | as Raydium, adaptive fee with two timestamps | two nested loops, core-range skipping | out-of-order time, edge ticks of the last array | as Raydium |
| Meteora DAMM v2 (`quote/damm`, `math/damm`, `models/damm_*`) | none | concentrated and compounding quotes, exact-in and exact-out, fee schedules, rate limiter | four-way fee splits, a fee grossed up to an exact output, periods before activation and past the end, closed forms | the vaults cover the pool and its fees, exact-out names the least input, fees only decay |
| Constant product (`quote/raycpmm`, `rayammv4`, `fluxbeam`, `pump`, `pumpbc`, `models/pump_fee.go`, `models/token2022.go`) | none | swaps, fee tiers, transfer fees by epoch | fee order and rounding per venue, unsigned differences, fees that sit in the vaults | no quote above the vault, fees stay backed, no profit from rounding |
| Dispatch (`from_account.go`, `from_models.go`, `soldex.go`) | closures over decoded pools | `FromAccount`, `From*`, `Quoter.QuoteExactIn` | account and auxiliary state read apart, fields left at zero, disabled pools | what cannot be quoted is refused |
| Decoders (`models/*`) | none | `Decode*` | accounts that have grown over the years | a field the account is too short for is its zero value |

How they interact. `FromAccount` decodes an account and builds a `Quoter`, a closure over a *copy* of the pool and over a
provider the caller supplies (bins or ticks). `QuoteExactIn` calls the venue's quote, which calls the provider once
per bin or tick and the arithmetic once per step. Quotes are pure but for one thing: every DLMM quote of the process
goes through the price cache, so that is where goroutines meet. Tick walkers are built per quote and call back into a
loader that reads the chain.

## 2. Plan

Done in this order, most important first: (1) `PriceOracle`, `PriceCache` and its proofs, the only concurrency;
(2) `RaydiumMath`, `RaydiumSwap`, the most intricate walk; (3) `RaydiumTickWalker`, whose caller is (2);
(4) `DlmmMath`, `DlmmSwap`; (5) proofs about a single step, now the first part of
`RaydiumSwapProofs`; (6) `OrcaMath`, `OrcaTickArrays`, `OrcaSwap`.

(7) `ConstantProductMath`, `PoolAccounts`, `ConstantProduct`, dispatch from account bytes to quote; (8) `DammMath`,
`DammFees`, `DammSwap`; (9) `DammSqrt`.

(10) the proofs of every component with an invariant of its own, from the arithmetic of one step to the walk or the pool:
`DlmmSwapProofs`, `DammSwapProofs`, `ConstantProductProofs`, `RaydiumTickWalkerProofs`, `RaydiumSwapProofs`,
`OrcaSwapProofs`.

What is left is to be proved rather than modelled; the end of section 5 lists it with the reasons.

## 3. Modules

**PriceOracle** is what `GetPriceFromID` promises: a caller asks, gets the value of the arithmetic or its error, owns
the answer, and sees nobody else.

**PriceCache** is `cachedPriceFromID` step by step. A slot is two words (`slotKey`, `slotValue`) that are read and
written in two steps each; `RLock`, `RUnlock`, `LockAnnounce`/`LockAcquire`, `Unlock` are the two sides of
`sync.RWMutex` (a waiting writer keeps new readers out, as Go documents). Prices are objects of a `heap`; `Compute`
and `Clone` allocate, `CallerWrites` is a caller that scales its result in place. An object nothing points to may be
reused. `priceKey` keeps the wrap of a negative id, `priceSlot` the wrapped product. `PriceCache` implements
`PriceOracle` under the mapping *answer of g = what g's result object holds* (property `ImplementsOracle`).

**RaydiumMath** has the operators of `math/raydium` under their own names. 2^64, u64's maximum, the fee denominator and
the table of per-bit multipliers are constants, so small instances perform the same roundings. `TickFromSqrtPrice` is
given by what it computes; its 16-bit binary logarithm is left out.

**RaydiumSwap** is the quote. `QuoteExactIn` is everything before the loop, with both refusals; `NextBoundary` one
call of the provider; `SwapAlongCurve` and `ArriveAtPrice` the two halves of an iteration of `stepToBoundary`'s loop
(fee, bound, step and booking; then orders, crossing, tick, group, loop condition); `EndOfWalk` the loop's exit. `s`
is the code's `swapState`, `step` the locals of `stepToBoundary`. `apply` names the refusal of an over-drawn input
apart from the other overflows, so that a property can say it is unreachable. `SwapLands`, `TimePasses` and `Forget`
are external: the chain executes what a complete quote said, at the quoted time, unless its price is the limit itself (the
program's own limits lie one inside).

**RaydiumTickWalker** is the lazy provider over tick arrays. `arrays`, `current`, `done`, `err` are its fields; a call of
`Next` is `SearchHit`, `SearchMiss`, `LoadFound`, `LoadNotFound`, `LoadFails` or `NoArray` until it returns. Any load
may fail. The caller is any that starts at the current tick and never turns back, which is what `WalkGoesOneWay`
of `RaydiumSwap` shows of the real caller.

**DlmmMath** has fees, the two conversions of a bin, `swapAtBin` and `QuoteSwapOnBin`. A cast that does not fit is an
error; plain `+` and `-` wrap.

**DlmmSwap** is the bin walk, one iteration of the loop per action: `SkipEmptyBin`, `SwapAtBin`, `SwapAtBinFails`,
`EndOfWalk`; the move to the next bin (`StepOn`) is part of each. `own` is the quote's copy of the pool, `moved` what it
takes from and puts into each bin. Landing is external as above.

**OrcaMath** has the operators of `math/orca`. The literals `MinSqrtPrice` and `MaxSqrtPrice` are the prices of the end
ticks, `TickIndexFromSqrtPrice` is given by what it computes, and the exact-out branches, which no quote takes, are left
out.

**OrcaTickArrays** says which three arrays a swap takes and what `TickArrayWalker.Next` finds in them. An array whose
account does not exist reads as empty, so the pool's initialized ticks are all there is to know of the arrays.

**OrcaSwap** is the quote and its fee manager. `QuoteExactIn` is everything before the loop, with the refusals of
`from_models.go` (Vortex pools with unverified extensions, pools that are not open yet) and of the oracle (a time before
its own). `NextBoundary` is a call of the walker that finds a tick, `LoadFails` one whose loader fails, `EndOfWalk` the
loop's exit; `SwapStep` is a whole iteration of the inner loop: accumulator, rate, bounded target, step, balances,
crossing, tick, and the advance of the tick group with or without a skip. `stepError` names the over-drawn refusal
apart, as in Raydium. `SwapLands` is external and includes the oracle's major-swap timestamp.

**ConstantProductMath** has the swaps of the five venues, the Pump fee and the Token-2022 transfer fee. They share one
`curve`; what differs is where each takes its fee, how it rounds, and which operations are unsigned 64-bit ones (`wrap`).

**PoolAccounts** is what the decoders of these venues accept and read. An account is a record of its fields, its length and
its discriminator; what a decoder tests is the length, so accounts of every generation are in the instances. A mint is its
list of extensions. `CPMMNetReserves`, `EffectiveQuoteReserve` and the others are the methods of the decoded models.

**ConstantProduct** composes the two with the dispatch: `FromAccount` picks a decoder by the owning program, the `From*`
operators refuse or build a quoter, `QuoteExactIn` answers. A client reads the account (`FetchAccount`) and the auxiliary
state (`FetchAux`) in two steps in either order, with some fields left at zero, while swaps land and fees are withdrawn.
The programs are external: they pay what a quote of the current state says, and the fee either stays in the pool or is
set aside, whichever the venue allows.

**DammMath**, **DammFees** are `quote/damm`, the part of `math/damm` it uses, and the base-fee schedules; every error is
`Err` or `Failed`. **DammSwap** lets a pool be traded while its schedule runs: `FromDAMMPool` is evaluated at the current
point, exact-in, exact-out and concentrated swaps land, fees are split and set aside or compounded. `principal` is what
the liquidity of a concentrated pool is worth.

**DammSqrt** is `SqrtU256`, one iteration of its loop per step.

The refusals of `from_models.go` for the walking venues are the `Refused` of `RaydiumSwap`, `DlmmSwap` and `OrcaSwap`.

`MC...` modules hold the small instances; each `.cfg` is one question. Operators marked *Mutant* are deliberate bugs: a
run that replaces the operator that follows by it must fail, which shows that the property depends on that code.

## 4. Runs

| Run | Shows |
|---|---|
| `price_cache` | two goroutines, three inputs (two colliding in a slot, one overflowing), callers that overwrite results: slots never mix a key with another's price, results are unaliased, the oracle is implemented, every call returns |
| `raydium_walk` | quotes of both directions, five sizes, near and far cache edge, up to two seconds, static, dynamic, fee-on-output, disabled, undecoded and deep pools (where a tick may cost more than a u64), before and after a landed swap: tick, liquidity and group match the price, orders are filled once, no step is over-drawn, targets are paid for, the walk goes one way and ends |
| `raydium_round_trip` | up to three landed swaps in any direction, fee-free pools included: the trader never gains |
| `raydium_stale_time` | *violation*: an old timestamp can under-state the dynamic fee |
| `raydium_tick_walker` | every subset of stops and initialized arrays over 14 ticks on both sides of zero, every current tick and `maxArrays` up to 3, failing loads |
| `orca_walk` | eight starting ticks, eight sizes, static, adaptive, gated and unverified pools, times in and out of order, failing loads, before and after a landed swap: tick, liquidity and tick group match the price, a walk searches the arrays of its swap, all of them and no others, a step that skips groups is charged the rate each of them has |
| `orca_round_trip` | landed swaps of four sizes back and forth on fee-free, adaptive and deep pools: the trader never gains, and every quote ends |
| `dlmm_swap` | nine sizes, current and old timestamps, three windows, two books, five configurations, up to two landed swaps: bins are drained in order and nothing wraps, the listed arrays cover the swap, both translations of a bin swap agree, the trader never gains |
| `constant_product` | 31 accounts of the five venues, some of them no pool, and one of an unknown program, with torn reads, missing fields, a clock that opens a pool and changes a transfer fee: no quoter promises more than the vault it was read with, fees stay backed, the traders never gain |
| `missing_aux` | *violation*: a bonding curve without its fee and a Pump graduate without its supply are quoted, not refused |
| `damm_swap` | 24 pools, ten base-fee configurations, four sizes, six points in time, both fee sides, with and without a referrer: the vaults cover the pool and its fees, the traders never gain, an exact-out quote names the least input, the rate limiter's closed form is the sum over its chunks, fees only decay |
| `damm_sqrt` | *violation*: the square root of a large radicand is too small |

Bounds, and why they are enough. Widths are shrunk (one is 64 or 8, u64 is 63): the code uses `big.Int` and only compares
with the u64 bound, so what matters is that amounts lie on both sides of it and that every division is inexact for
some input; both happen. Ticks -5 .. 5 with spacing 2 have unaligned ticks, negative groups, the price limits and a
tick with orders but no liquidity. Orca's ticks -9 .. 9 with two ticks to an
array make six arrays, so the three a swap takes can end before the ticks do; a gap without liquidity lies between two
positions, and the accumulator's cap is small enough that the core range ends inside the ticks for groups of one and
of two. Bins -3 .. 3 in arrays of two put array edges on both sides of zero. The
constant-product pools hold about a dozen tokens of a 7-bit u64, so that a fee above 100% wraps, a virtual reserve leaves
the signed range and a vault is drained; the DAMM pools have an 8-bit u64, schedules that end before the clock does and
rate limiters whose cap falls on a chunk and inside one. `DammSqrt` takes every 12-bit radicand. Two goroutines
suffice for every race of the cache, as a step involves one slot and at most one other goroutine; the proofs drop this
bound. `MaxSwaps`, `MaxTime`, `MaxArrays` and the sets of amounts are the named bounds of the runs.

Fairness. `price_cache` assumes weak fairness of each goroutine's own steps (Go schedules runnable goroutines) and
strong fairness of the two lock acquisitions: `sync.RWMutex` queues its waiters, and a waiting writer excludes new
readers. No fairness is assumed of callers. `raydium_walk` and `orca_round_trip` assume only that the quoting goroutine keeps running.

Findings. `raydium_stale_time` refutes a sentence of the documentation ("a stale one under-decays and over-quotes the
fee"). The reference group is re-anchored when the filter period ends, so an older time means an older reference. If the
price has moved since and the swap moves back, its distance from the older reference is smaller and so is the fee: a
stale clock can under-state it. DLMM and Orca re-anchor their references under the same condition.

`missing_aux` refutes the promise of `Aux` that "a venue missing one it needs is refused, not quoted on the zero value".
It is kept for linked configs and vault balances, which the constructors test, and not for `BaseSupply` and `CurveFeeBps`,
whose zero is passed on: the curve is then quoted without a fee, the graduate at its first tier.

`damm_sqrt` shows that `SqrtU256` starts from the number of leading zeros of the radicand instead of its top bit. The two
agree well enough up to half the width, where the tests are; from there on the root comes out too small (12 bits: 1 for
1024). No quote calls it.

## 5. Proofs

`PriceCacheProofs` proves for every set of goroutines, inputs, objects and slots:

* `CacheCorrect`, `Spec => []CacheInv`. None of the interesting properties is inductive alone. `CacheInv` adds to the
  types: *LockInv*, who is inside the lock in which step, that a writer past `drain` excludes readers, and that at most
  one goroutine is between announcing and unlocking; *CallInv*, what `src`, `entryKey` and `result` mean at each
  program counter (for example that a reader past `ReadKey` still sees that key in the slot); and that every object the
  cache or a pending call holds contains the price of its key and is held by no caller. Mixing a key with another's
  price needs a store between two reads, which LockInv excludes; aliasing needs an allocation of a reachable object,
  which the lemma `AllocateFresh` excludes.
* `SlotsAreConsistent`, `NoAliasing`: the invariants the runs check, from `CacheInv`.
* `CacheImplementsOracle`: each step maps to a step of `PriceOracle` or a stutter. `KeyInjective` shows that distinct
  inputs have distinct keys, negative ids included.

The only assumptions are `CacheAssumption` of `PriceCache` (the ranges of ids and steps, and that `Nil` and the error
are not values), which every run evaluates.

`RaydiumSwapProofs` begins with what one step of `math/raydium` guarantees, for every Q, fee denominator, price, liquidity and amount:

* `StepEndsOnPaidTarget`: the price reaches the target exactly when the input covers the way there. `ceilDiv` is the
  least covering quotient (`CeilIsLeast`) and `\div` the greatest covered one (`FloorIsGreatest`); an input below the
  doubly rounded-up amount then leaves a falling price, rounded up, strictly above the target (`FallStopsShort`), and a
  rising price, rounded down, strictly below it (`RiseStopsShort`).
* `StepNeverOverdraws`: input plus input-side fee is at most what remains. What the rounded price costs is at most the
  input that moved it (`FallIsPaid`, `RiseIsPaid`), and a fee first reserved by truncation and then charged by rounding
  up on the amount used still fits (`FeeFitsRemaining`).

They rest on `MathAssumption` of `RaydiumMath` (positive Q and fee denominator) and on the ranges in their statements:
a positive liquidity and a fee rate below the denominator. With them TLC's `TargetIsPaidFor` and `NeverOverdrawn`,
checked along whole walks of a small pool, hold of each single step at the real widths.

`ArithmeticLemmas` is what these proofs share: floors, ceilings and Go's truncating division corrected to a floor
(`CorrectedTruncation`), each from one product at a time, and induction. The library's induction theorems are of no use
here, as they take a predicate; `Induction` is stated of a *set* of naturals instead, from their well-ordering, and
`LoopHasTrace` of a loop given as a function, so that the recursive functions of the modules (the powers of a fee
schedule, the sum of liquidity over ticks) can be reasoned about.
Its last part is what a curve with liquidity is worth: the token amounts of a stretch of prices are sums over its unit
steps of the liquidity there, over a common multiple of the denominators (`WorthsAreSums`, `InversesPrice`), so that what
the trades of a walk add up to (`GainAddsUp`, `StepPaysTheWay`) and that a way paid for wins nothing
(`PaidTheWayWinsNothing`) are facts about one function over numbers, for any liquidity.

`DlmmSwapProofs`. `BinIsHonest` (a bin takes at most what it is offered, gives at most what it holds and leaves input
over only when it gave all), `TranslationsAgree` (the two translations of `Bin::swap`) and `ArrayHoldsBin` say it of
one bin; the walk needs an invariant, `IInv`: the types, that nothing has moved between quotes, and that while a quote
is under way the bins behind the active one are empty, the ones ahead untouched, the listed arrays ordered along the walk
and none beyond the active bin. From it `QuoteIsTyped`, `WalkDrainsInOrder`, `ListedArraysCover` and `WalkPathsAgree`.
`TradersNeverProfit` needs a second invariant, `FairInv`: each bin, at its own price, is worth no less than at first
(`BinIsPaid`: the price conversions are adjoint, so each rounding favours the bin), the trader has won at most what the
bins lack, and x lies at the active bin and above it, y at and below. The same is said of a quote under way, as if it landed
where it is. Prices differ from bin to bin, but no bin needs another's (`FairWinsNothing`): once the pool has gone up, every bin
has at least the y it had at first, as it either had none or has no x now and is worth as much all the same. So no y was
won, and if none was lost either, no bin has changed. `DlmmMathAssumption` asks for a fee cap below half the precision
(10% in the code), `ConfigAssumption` for unsigned parameters, `BookAssumption` for books as the program lets them be
filled: x at the active bin and above, y at it and below.

`DammSwapProofs`. `DammInv` says of a pool that was *p* at first: a compounding pool's product of reserves has not
fallen and its vaults are reserves plus fees set aside; a concentrated pool's vaults, without those fees, cover its
liquidity on both sides of the price, and what the traders paid covers the way from p's price to this one. The second
half makes `TradersNeverProfit` follow: on a product curve both balances cannot be won, and what is paid in one token
and won in the other bound each other. Each operation preserves it because each amount is the least cover or the
greatest covered quotient of the exact one. `ExactOutNamesTheLeast` is an adjunction applied twice, for the fee and for
the curve. `FeesOnlyDecay` is the action property: a schedule's fee only falls as time passes, so the net input only grows
or the gross output loses less. The exponential schedule is the hard case, because each product of its power by squaring is
rounded down: `PowersFall` shows that raising the exponent by one, which carries through its low bits, trades the powers
of those bits for one square that is at most each of them times the base. `LimiterIsPerChunk` is the closed form of a
rate limiter: the first chunks climb to the cap, a triangular number of increments (`TriangleGrows`), the others pay the
cap, and `SumOfChunks` follows the sum chunk by chunk. `PoolAssumption` states what pools the program creates: the
vaults are u64 and the price in its range.

`ConstantProductProofs`. `QuoteInv` has the chain (balances are u64, fees set aside are in the vaults) and the client
(what it read was the pool's at some time, and its quoter is sound for the vaults it was read with). Soundness is one
predicate for five venues: reserves are at most the vault, or virtual ones are saturated; each venue's fee fits the
amount. `WorldAssumption` has the configurations the programs accept: a Pump schedule's parts, the creator's capped as the
global config caps it, come to at most 100%. `TradersNeverProfit` needs a second invariant, `FairInv`: what a pool may
trade of either token, its *book*, is what traders paid in and did not take out, or less, and the two books together are
worth no less than at first. Their worth is their product, were it not for a Pump pool whose quote side, with its virtual
reserve, is beyond a u64 and is traded as if it were not (`EffectiveQuoteReserve` saturates): there the price of the next
unit stays, so `Worth` is a table in which each entry is to the one before it as the price says, a product up to the
saturation and a power beyond. `WorthExists` builds the table, `WorthRises` and `WorthFalls` bound it by the curve, and
`SellKeepsWorth` and `BuyKeepsWorth` say that what the curve pays never lowers the worth. `QuoterTradesBooks`,
`SettlementIsCurve` and `SwapMovesBooks` bring the five venues to that one curve: what leaves a pool, fees included, is at
most what the curve pays for a part of what stays. Two books that are not both higher and worth as much are the same.

`RaydiumTickWalkerProofs`. `WalkerInv` adds to the types: the arrays loaded are the first arrays ahead of the swap, in
order and without gaps of initialized ones (*PrefixInv*), each load started where the array before it ended
(*LoadInv*), and arrays that were left hold nothing a later call may want (*SearchInv*, which is where a caller that never
turns back is needed). The only assumption is that widths are positive.

The rest of `RaydiumSwapProofs` is about the walk. `WalkStaysTogether`, `Spec => []SwapInv`, for every configuration, tick table, book of orders and
sequence of swaps. `SwapInv` says where the walk is in each of its three stages. Between boundaries (*WalkInv*): the tick
holds the price, the liquidity is that of the tick, orders are filled behind the tick, and ahead of it only once the input
is gone. On the way to a boundary (*BoundaryInv*, *GroupInv*): nothing lies between, the boundary's orders are whole, and
the group's edge in the swap's direction is at or before it. On arrival (*ArrivalInv*): the step ended on the boundary, on
the group's edge or, with nothing left, between. None of the properties is inductive without the others: that a crossing
is of the right edge needs that no edge was passed, and that a landing is of the right tick needs the group's edge to be on
the way. The argument is `CurveBounds` and `CurveStepArrives` (a step heads for the nearer of edge and boundary, and
falls short only when its input is spent), `LandsOnTheWay`, `LiquidityOnTheWay`, then `ShortSwapInv` and `ReachSwapInv` for
the two ways an iteration ends. From it `SwapIsTyped`, `TickFollowsPrice`, `LiquidityFollowsTick`, `GroupFollowsPrice`,
`InputIsNeverOverdrawn`, `OrdersAreFilledOnce`, `TargetsArePaidFor` and, from what each step does, `WalkNeverTurns`.

`TradersNeverProfit` needs a second invariant there too, `FairInv`. What the trader has won is split in two: what the
curve gave, which is paid for as in `OrcaSwapProofs` below by the way from the price some pool started at (`PaidTheWay`,
measured in `DepthOf`), and what resting orders gave, which is no gain when both tokens are valued at that first price
(`NoGainAt`). The second half holds because an order is filled at its tick's price, rounded against the swap
(`FillIsFair`), and the orders above the first price only ever sell token_0 and those below it only token_1: that is the
`asks` of *PoolInv* and *WalkInv*, half-filled ticks included, so `MatchStaysFair` rests on all of `SwapInv`.
`CurveTrades` and `CurveStaysFair` add a step along the curve, fees on either side. A way along the curve is no gain
at the price it started from either (`WayIsPaidFor`), so the sum is not, and `NothingLeft` ends the argument. Neither
half is an invariant of the pool's two tokens alone: the orders have no place on the curve.

`PoolAssumption` asks for pools the program lets exist (no fee takes everything; positions and orders sit on multiples of
the spacing; the positions open at a tick add up to no less than nothing), `PriceTableAssumption` that the prices of ticks
are positive and rise, one tick beyond either end included, which a comparison per tick of the real table confirms.
Every run
evaluates both.

`OrcaSwapProofs`. `SwapInvariant`, `Spec => []SwapInv`, for every pool, oracle, price table and sequence of swaps.
*PoolInv* says that a
pool's tick is where its price is and its liquidity that of its tick, *OracleInv* that an accumulator is at most its cap and
its reference the group of some tick. *WalkInv* carries the first along the walk; *ReadBehind* says that the walker has read
every array the walk has left. Within a step, *BoundaryInv* says that no initialized tick lies between the walk and its
boundary and that every array up to there is read, *GroupInv* that the group's edge in the swap's direction is at or
before the boundary (*EdgeAhead*) and the price in the group the rate is charged for. *EndInv* says that a walk that has run
out of boundaries has read every array it was given.
None stands alone. That a landing is of the right tick needs that no tick was passed, which is a fact about the walker's
search; that a group holds the price needs that
the edge was ahead before the step, the end of the last array included, where a walk up stops inside a group; that a
step that skips groups charges one rate needs that the accumulator is pinned at its cap outside the core range
(`PinnedOutsideCore`), which is a fact about the oracle's reference. The argument follows an iteration of the code:
`SearchStops`, `SearchFinds` and `SearchEnds` say what the walker answers; `TargetIsTick` and `StopsAt` where the step is
headed; `StepArrives` that it falls short only when its input is spent; `StepLands` and `LiquidityAt` what a crossing
does to the liquidity; `GroupFollows` and `AlignedAhead` that the group advanced, or set after a skip, holds the new price;
and one lemma per action, named `...Keeps`, per conjunct it disturbs. From the invariant: `TypeCorrect`,
`TickIsWherePriceIs`, `LiquidityIsThatOfTick`, `WalkSearches`, `StepStartsInItsGroup`, `StepIsChargedOneRate` and
`QuoteNeverOverdraws`. `TradersNeverProfit` needs a second invariant, `FairInv`, on top of it: what the trader has
paid covers the way from the price some pool started at to the pool's price now, and for a quote under way the same
holds as if it settled where it is. The way is measured in `DepthOf`, the liquidity of each unit step of price; it is a
fact about the positions only, and `DepthOnTheWay` says, from *WalkInv*, that it is the liquidity the walk carries at every
step, skips and crossings included. `StepKeepsPaid` adds one step's amounts, each rounded against the trader. `PriceTableAssumption` is that of Raydium; `LastArrayAssumption` says that the last array the code
reads begins at or before the last tick, which holds of the spacings the program is deployed with; `PoolAssumption` that the hard fee limit is below 100%,
that positions add up to no negative liquidity, that a tick group divides the spacing and that the reduction factor is
at most its denominator.

Only model-checked: liveness under fairness (`EveryCallReturns`, `QuoteEnds`), which is out of the prover's reach. Every
other property of a passing run is a theorem.

## 6. Not modelled

The decoders of the walking venues and the addresses they carry: each field is copied from a fixed offset, and nothing
depends on the order of steps. `DecodeDynamicTickArray` among them, whose loop only skips. `Pow` of DLMM and the binary
logarithm of `TickFromSqrtPrice`: 128-bit products are beyond TLC's integers and a small width does not preserve their
monotonicity; they enter as a constant function and by what they compute. The shift and multiply helpers of `math/damm`
that no quote calls. Nil pool pointers, which no decoder returns. The market-cap schedules of DAMM v2, which the code
itself refuses. What the programs on chain do: it is not in the repository, so a landed swap does what the quote says. For
the same reason nothing is stated of a Pump `fee_config` without tiers (no fee), of an exponential DAMM schedule that decays to zero
(`Pow` fails and the pool is refused), of a compounding pool's dynamic fee (not quoted), or of a DLMM book whose bins
together exceed a u64 (`totalOut` is not checked).
