----------------------------- MODULE PoolAccounts -----------------------------
(***************************************************************************)
(* The account decoders of models/ for the constant-product venues, and    *)
(* what the decoded models derive: swappable reserves, effective rates,    *)
(* whether the pool swaps.  An account is a record of its fields with its  *)
(* length in bytes and its discriminator; an offset is where a field ends. *)
(* Accounts have grown: a field past the end of one is its zero value.     *)
(***************************************************************************)
EXTENDS ConstantProductMath

\* A nil pointer, or a pool that is refused.
Nothing == <<>>

\* The field when the account is long enough to carry it.
carried(data, end, value, zero) == IF data.len >= end THEN value ELSE zero

-----------------------------------------------------------------------------
\* Raydium CP-Swap.  fees[i] holds what is owed in token i.

DecodeRaydiumCPMMPool(data) ==
    IF data.len < 413 \/ data.disc # "PoolState" THEN Nothing
    ELSE [status |-> data.status, fees |-> data.fees, creatorFeeOn |-> data.creatorFeeOn,
          enableCreatorFee |-> data.enableCreatorFee]

DecodeRaydiumCPMMConfig(data) ==
    IF data.len < 116 \/ data.disc # "AmmConfig" THEN Nothing
    ELSE [tradeFeeRate |-> data.tradeFeeRate, creatorFeeRate |-> data.creatorFeeRate]

\* What a CP-Swap vault holds that is not reserve; the u64 sum is not checked.
feesOwed(pool, i) == wrap(pool.fees[i].protocol + pool.fees[i].fund + pool.fees[i].creator)

\* Mutant: creator fees are counted as reserve.
CPMMNetReservesWithCreatorFees(pool, vault) ==
    [i \in 1 .. 2 |-> saturatingSub(vault[i], pool.fees[i].protocol + pool.fees[i].fund)]

CPMMNetReserves(pool, vault) == [i \in 1 .. 2 |-> saturatingSub(vault[i], feesOwed(pool, i))]

EffectiveCreatorFeeRate(pool, config) ==
    IF pool.enableCreatorFee THEN config.creatorFeeRate ELSE 0

SwapDisabled(pool) == (pool.status \div 4) % 2 = 1

-----------------------------------------------------------------------------
\* Raydium AMM v4: no discriminator, so the exact size and a defined status.

DecodeRaydiumAMMV4Pool(data) ==
    IF data.len # 752 \/ data.status > 7 THEN Nothing
    ELSE [status |-> data.status, fee |-> data.fee, pnl |-> data.pnl, openTime |-> data.openTime]

\* More PnL than the vault holds is an error.
AMMV4NetReserves(pool, vault) ==
    IF vault[1] < pool.pnl[1] \/ vault[2] < pool.pnl[2] THEN Nothing
    ELSE <<vault[1] - pool.pnl[1], vault[2] - pool.pnl[2]>>

\* SwapOnly swaps; WaitingTrade swaps from its opening time on.
CanSwapNoOrderbook(pool, now) ==
    pool.status = 6 \/ (pool.status = 7 /\ now >= pool.openTime)

-----------------------------------------------------------------------------
\* Pump AMM

I64Max == U64Max \div 2

\* virtual_quote_reserves is an i128 that must fit an i64.
DecodePumpPool(data) ==
    LET virtual == carried(data, 261, data.virtualQuote, 0)
    IN  IF data.len < 211 \/ data.disc # "Pool" \/ virtual \notin -I64Max - 1 .. I64Max THEN Nothing
        ELSE [graduate      |-> data.graduate,
              quoteMint     |-> data.quoteMint,
              coinCreator   |-> carried(data, 243, data.coinCreator, FALSE),
              virtualQuote  |-> virtual,
              creatorFeeBps |-> carried(data, 269, data.creatorFeeBps, 0)]

\* A negative virtual reserve nets the vault down; the sum saturates at both ends.
EffectiveQuoteReserve(pool, vaultQuote) ==
    IF pool.virtualQuote < 0 THEN saturatingSub(vaultQuote, -pool.virtualQuote)
    ELSE lesser(vaultQuote + pool.virtualQuote, U64Max)

DecodePumpGlobalConfig(data) ==
    IF data.len < 321 THEN Nothing
    ELSE [fees             |-> data.fees,
          configurable     |-> carried(data, 949, data.configurable, FALSE),
          maxCreatorFeeBps |-> carried(data, 949, data.maxCreatorFeeBps, 0)]

\* The whole 40-byte entries behind a length prefix at off, at most pumpMaxTiers of them.
decodePumpTierVec(data, off, tiers) ==
    IF data.len < off + 4 THEN <<>>
    ELSE SubSeq(tiers, 1, Min({Len(tiers), 64, (data.len - off - 4) \div 40}))

DecodePumpFeeConfig(data) ==
    IF data.len < 69 THEN Nothing
    ELSE [flat        |-> data.flat,
          tiers       |-> decodePumpTierVec(data, 65, data.tiers),
          stableTiers |-> decodePumpTierVec(data, 1069, data.stableTiers),
          exoticFlat  |-> carried(data, 2073 + 24, data.exoticFlat, NoFees)]

-----------------------------------------------------------------------------
\* The bonding curve

DecodeBondingCurve(data) ==
    IF data.len < 81 \/ data.disc # "BondingCurve" THEN Nothing
    ELSE [virtual   |-> data.virtual,
          complete  |-> data.complete,
          quoteMint |-> carried(data, 115, data.quoteMint, "zero")]

IsSOLQuoted(bc) == bc.quoteMint = "zero"

-----------------------------------------------------------------------------
\* FluxBeam and the mints it trades

DecodeFluxBeamPool(data) ==
    IF data.len < 324 \/ data.version # 1 \/ ~data.initialized THEN Nothing
    ELSE [curveType |-> data.curveType, fees |-> data.fees]

\* A mint is its sequence of extensions, each [type, fits, len, older, newer].  The first
\* entry that is cut off, or that is the transfer fee, decides; no such entry is no fee.
DecodeMintTransferFee(mint) ==
    LET stops == {i \in DOMAIN mint : ~mint[i].fits \/ mint[i].type = 1}
        entry == mint[Min(stops)]
    IN  IF stops = {} THEN [ok |-> TRUE, config |-> Nothing]
        ELSE IF ~entry.fits \/ entry.len < 72 + 2 * 18 THEN [ok |-> FALSE, config |-> Nothing]
        ELSE [ok |-> TRUE, config |-> [older |-> entry.older, newer |-> entry.newer]]

=============================================================================
