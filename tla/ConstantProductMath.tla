-------------------------- MODULE ConstantProductMath --------------------------
(***************************************************************************)
(* quote/raycpmm, rayammv4, fluxbeam, pump and pumpbc: what the five       *)
(* constant-product venues pay for an exact input; models/pump_fee.go and  *)
(* token2022.go: the fees a quote is made with.  Amounts are u64; the code *)
(* computes in big integers and wraps only where the operators here do.    *)
(***************************************************************************)
EXTENDS Integers, Sequences, FiniteSetsExt

CONSTANTS U64Max,             \* 2^64 - 1
          FeeRateDenominator, \* 1_000_000, Raydium CP-Swap
          BpsDenominator      \* 10_000, Pump and Token-2022

ASSUME ConstantProductMathAssumption ==
    /\ FeeRateDenominator \in Nat \ {0} /\ BpsDenominator \in Nat \ {0}
    /\ U64Max \in Nat /\ U64Max >= FeeRateDenominator /\ U64Max >= 2 * BpsDenominator

wrap(n) == n % (U64Max + 1)

ceilDiv(a, b) == (a + b - 1) \div b
lesser(a, b)  == IF a <= b THEN a ELSE b
saturatingSub(a, b) == IF a < b THEN 0 ELSE a - b

\* x * y = k: what amountIn takes out of reserveOut.  The venues share this line.
curve(reserveIn, reserveOut, amountIn) == (reserveOut * amountIn) \div (reserveIn + amountIn)

-----------------------------------------------------------------------------
\* Raydium CP-Swap

CreatorFeeModes == {0, 1, 2}

CreatorFeeOnInput(creatorFeeOn, zeroForOne) ==
    CASE creatorFeeOn = 0 -> TRUE
      [] creatorFeeOn = 1 -> zeroForOne
      [] creatorFeeOn = 2 -> ~zeroForOne

ceilFee(amount, rate) == ceilDiv(amount * rate, FeeRateDenominator)

inputFeeRate(tradeFeeRate, creatorFeeRate, onInput) ==
    IF onInput THEN wrap(tradeFeeRate + creatorFeeRate) ELSE tradeFeeRate

\* The curve's output, before a creator fee on the output.
swapped(reserveIn, reserveOut, amountIn, rate) ==
    LET netIn == amountIn - ceilFee(amountIn, rate)
    IN  IF netIn <= 0 THEN 0 ELSE curve(reserveIn, reserveOut, netIn)

\* Mutant: both fees rounded down.
SwapBaseInputFloor(reserveIn, reserveOut, amountIn, tradeFeeRate, creatorFeeRate, onInput) ==
    LET rate  == inputFeeRate(tradeFeeRate, creatorFeeRate, onInput)
        netIn == amountIn - (amountIn * rate) \div FeeRateDenominator
    IN  ceilDiv(reserveOut * netIn, reserveIn + netIn)

SwapBaseInput(reserveIn, reserveOut, amountIn, tradeFeeRate, creatorFeeRate, onInput) ==
    LET gross == swapped(reserveIn, reserveOut, amountIn,
                         inputFeeRate(tradeFeeRate, creatorFeeRate, onInput))
    IN  IF onInput THEN gross ELSE saturatingSub(gross, ceilFee(gross, creatorFeeRate))

-----------------------------------------------------------------------------
\* Raydium AMM v4

SwapBaseIn(reserveIn, reserveOut, amountIn, feeNumerator, feeDenominator) ==
    IF feeDenominator = 0 THEN 0
    ELSE LET netIn == amountIn - ceilDiv(amountIn * feeNumerator, feeDenominator)
         IN  IF netIn <= 0 THEN 0 ELSE curve(reserveIn, reserveOut, netIn)

-----------------------------------------------------------------------------
\* FluxBeam.  fees is [trade, owner], each <<numerator, denominator>>.

\* A fee that rounds down to nothing is charged as one token.
calculateFee(amount, fee) ==
    IF fee[1] = 0 \/ amount = 0 \/ fee[2] = 0 THEN 0
    ELSE IF (amount * fee[1]) \div fee[2] = 0 THEN 1
    ELSE (amount * fee[1]) \div fee[2]

\* ErrZeroOutput is 0: an output of zero is an error, never a result.
SwapExactIn(reserveIn, reserveOut, amountIn, fees) ==
    LET net == amountIn - (calculateFee(amountIn, fees.trade) + calculateFee(amountIn, fees.owner))
    IN  IF net <= 0 THEN 0 ELSE curve(reserveIn, reserveOut, net)

-----------------------------------------------------------------------------
\* Pump AMM, and the bonding curve with the same arithmetic on virtual reserves.
\* feeDenominator - feeBps is an unsigned subtraction: a fee above 100% wraps it.

SellExactIn(baseReserve, quoteReserve, amountIn, feeBps) ==
    IF baseReserve + amountIn = 0 THEN 0
    ELSE wrap((curve(baseReserve, quoteReserve, amountIn) * wrap(BpsDenominator - feeBps))
              \div BpsDenominator)

effectiveIn(amountIn, feeBps) == (amountIn * BpsDenominator) \div wrap(BpsDenominator + feeBps)

BuyExactIn(quoteReserve, baseReserve, amountIn, feeBps) ==
    LET eff == effectiveIn(amountIn, feeBps)
    IN  IF quoteReserve + eff = 0 THEN 0 ELSE curve(quoteReserve, baseReserve, eff)

CurveSellExactIn(vTokenReserves, vSolReserves, tokenIn, feeBps) ==
    SellExactIn(vTokenReserves, vSolReserves, tokenIn, feeBps)

CurveBuyExactIn(vSolReserves, vTokenReserves, solIn, feeBps) ==
    BuyExactIn(vSolReserves, vTokenReserves, solIn, feeBps)

-----------------------------------------------------------------------------
\* The Pump fee.  A schedule is [lp, protocol, creator]; a tier adds its threshold.

NoFees == [lp |-> 0, protocol |-> 0, creator |-> 0]

PumpMarketCap(quoteReserve, baseReserve, baseSupply) ==
    IF baseReserve = 0 THEN 0 ELSE (quoteReserve * baseSupply) \div baseReserve

\* USDC and USDT are built in; an unset mint is read as SOL.
ClassifyPumpQuoteMint(mint) ==
    CASE mint \in {"zero", "wsol"}  -> "sol"
      [] mint \in {"usdc", "usdt"}  -> "stable"
      [] OTHER                      -> "exotic"

\* The last tier the market cap meets, or the first tier below them all.
tierFees(tiers, marketCap) ==
    LET met == {i \in DOMAIN tiers : marketCap >= tiers[i].threshold}
    IN  IF tiers = <<>> THEN NoFees
        ELSE IF marketCap < tiers[1].threshold THEN tiers[1].fees
        ELSE tiers[Max(met)].fees

\* Mutant: an override is not capped.
pumpCreatorFeeBpsUncapped(global, fees, pool) ==
    IF pool.creatorFeeBps > 0 /\ global.configurable THEN pool.creatorFeeBps
    ELSE IF ~pool.coinCreator THEN 0 ELSE fees.creator

\* A pool's own fee replaces the schedule's, if the global config allows it.
pumpCreatorFeeBps(global, fees, pool) ==
    IF pool.creatorFeeBps > 0 /\ global.configurable
    THEN IF global.maxCreatorFeeBps > 0 THEN lesser(pool.creatorFeeBps, global.maxCreatorFeeBps)
         ELSE pool.creatorFeeBps
    ELSE IF ~pool.coinCreator THEN 0 ELSE fees.creator

\* fc is the fee_config account, or <<>> for none.  pool.graduate is IsPumpBondingPool.
pumpSchedule(global, fc, pool, marketCap) ==
    IF fc = <<>> THEN global.fees
    ELSE IF ~pool.graduate THEN fc.flat
    ELSE CASE ClassifyPumpQuoteMint(pool.quoteMint) = "sol" -> tierFees(fc.tiers, marketCap)
           [] ClassifyPumpQuoteMint(pool.quoteMint) = "stable" ->
                  tierFees(IF fc.stableTiers = <<>> THEN fc.tiers ELSE fc.stableTiers, marketCap)
           [] OTHER -> IF fc.exoticFlat = NoFees THEN fc.flat ELSE fc.exoticFlat

PumpTotalFeeBps(global, fc, pool, baseReserve, quoteReserve, baseSupply) ==
    LET fees == pumpSchedule(global, fc, pool, PumpMarketCap(quoteReserve, baseReserve, baseSupply))
    IN  wrap(fees.lp + fees.protocol + pumpCreatorFeeBps(global, fees, pool))

-----------------------------------------------------------------------------
\* Token-2022.  A setting is [epoch, maximum, bps]; a config [older, newer], or
\* <<>> for a mint that charges nothing.

TransferFee(setting, amount) ==
    IF setting.bps = 0 \/ amount = 0 THEN 0
    ELSE lesser(ceilDiv(amount * setting.bps, BpsDenominator), setting.maximum)

PostFeeAmount(setting, amount) == wrap(amount - TransferFee(setting, amount))

EpochFee(config, epoch) == IF epoch >= config.newer.epoch THEN config.newer ELSE config.older

afterTransfer(config, epoch, amount) ==
    IF config = <<>> THEN amount ELSE PostFeeAmount(EpochFee(config, epoch), amount)

=============================================================================
