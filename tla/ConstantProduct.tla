--------------------------- MODULE ConstantProduct ---------------------------
(***************************************************************************)
(* A client that quotes a constant-product pool through FromAccount        *)
(* (from_account.go), while others swap in it.  The pool account and the   *)
(* Aux it is quoted with (vault balances, linked configs, the clock) are   *)
(* separate reads: a swap, or a withdrawal of fees, may fall between them. *)
(*                                                                         *)
(* The programs on chain are not in the repository.  Here they pay what a  *)
(* quote of the current state says, for every trader, and keep the fee for *)
(* the pool or set it aside.                                               *)
(***************************************************************************)
EXTENDS PoolAccounts, FiniteSets

CONSTANTS Worlds,    \* [owner, data, vault, linked accounts ...]: initial states of a pool
          Givens,    \* sets of Aux fields a client may fill in; the others stay zero
          Amounts,   \* exact inputs
          MaxSwaps, MaxTime, MaxReads  \* bounds: swaps that land, the clock, reads

VARIABLES world,   \* what does not change: owner, linked configs, supply, mints
          data,    \* the pool account
          vault,   \* token balances of the two vaults; a curve's real reserves
          now,     \* unix time, also the epoch
          account, \* the account the client has read, or Nothing
          aux,     \* the Aux it has filled in, or Nothing
          quoter,  \* what FromAccount made of them
          reads,   \* reads made so far
          trader,  \* trader[i]: net token i all traders together have won
          swaps

chain  == <<world, data, vault, now>>
client == <<account, aux, quoter, reads>>
vars   == <<chain, client, trader, swaps>>

-----------------------------------------------------------------------------
\* from_models.go: a quoter from a decoded pool, Nothing for ErrPoolNotQuotable.

Empty(reserves) == reserves[1] = 0 \/ reserves[2] = 0

FromRaydiumCPMM(pool, x) ==
    LET reserves == CPMMNetReserves(pool, x.vault)
    IN  IF \/ x.config = Nothing \/ SwapDisabled(pool)
           \/ pool.creatorFeeOn \notin CreatorFeeModes
           \/ Empty(reserves)
        THEN Nothing
        ELSE [venue |-> "cpmm", reserves |-> reserves, tradeFeeRate |-> x.config.tradeFeeRate,
              creatorFeeRate |-> EffectiveCreatorFeeRate(pool, x.config),
              creatorFeeOn |-> pool.creatorFeeOn]

FromRaydiumAMMV4(pool, x) ==
    LET reserves == AMMV4NetReserves(pool, x.vault)
    IN  IF \/ ~CanSwapNoOrderbook(pool, x.now)
           \/ pool.fee[2] = 0 \/ pool.fee[1] >= pool.fee[2]
           \/ reserves = Nothing
        THEN Nothing
        ELSE IF Empty(reserves) THEN Nothing
        ELSE [venue |-> "ammv4", reserves |-> reserves, fee |-> pool.fee]

FromPumpPool(pool, x) ==
    LET reserves == <<x.vault[1], EffectiveQuoteReserve(pool, x.vault[2])>>
    IN  IF x.config = Nothing \/ Empty(reserves) THEN Nothing
        ELSE [venue |-> "pump", reserves |-> reserves,
              feeBps |-> PumpTotalFeeBps(x.config, x.feeConfig, pool,
                                         reserves[1], reserves[2], x.supply)]

FromBondingCurve(bc, x) ==
    IF bc.complete \/ ~IsSOLQuoted(bc) \/ Empty(bc.virtual) THEN Nothing
    ELSE [venue |-> "curve", reserves |-> bc.virtual, feeBps |-> x.curveFeeBps]

\* Mutant: vaults that were not given are quoted as empty ones.
FromFluxBeamPoolUngated(pool, x) ==
    [venue |-> "fluxbeam", reserves |-> x.vault, curveType |-> pool.curveType,
     fees |-> pool.fees, transferFee |-> x.transferFee, epoch |-> x.now]

\* The curve type is looked at when a quote is made.
FromFluxBeamPool(pool, x) ==
    IF Empty(x.vault) THEN Nothing
    ELSE [venue |-> "fluxbeam", reserves |-> x.vault, curveType |-> pool.curveType,
          fees |-> pool.fees, transferFee |-> x.transferFee, epoch |-> x.now]

\* The owner alone picks the decoder; an owner no venue has is ErrUnknownProgram.
FromAccount(owner, d, x) ==
    CASE owner = "cpmm" ->
             LET pool == DecodeRaydiumCPMMPool(d)
             IN  IF pool = Nothing THEN Nothing ELSE FromRaydiumCPMM(pool, x)
      [] owner = "ammv4" ->
             LET pool == DecodeRaydiumAMMV4Pool(d)
             IN  IF pool = Nothing THEN Nothing ELSE FromRaydiumAMMV4(pool, x)
      [] owner = "pump" ->
             LET pool == DecodePumpPool(d)
             IN  IF pool = Nothing THEN Nothing ELSE FromPumpPool(pool, x)
      [] owner = "fluxbeam" ->
             LET pool == DecodeFluxBeamPool(d)
             IN  IF pool = Nothing THEN Nothing ELSE FromFluxBeamPool(pool, x)
      [] owner = "curve" ->
             LET pool == DecodeBondingCurve(d)
             IN  IF pool = Nothing THEN Nothing ELSE FromBondingCurve(pool, x)
      [] OTHER -> Nothing

-----------------------------------------------------------------------------
\* soldex.go: the quoters.  Side 1 is a; 0 is no output, an error on FluxBeam.

RaydiumCPMM(qt, amountIn, i, o) ==
    SwapBaseInput(qt.reserves[i], qt.reserves[o], amountIn, qt.tradeFeeRate, qt.creatorFeeRate,
                  CreatorFeeOnInput(qt.creatorFeeOn, i = 1))

RaydiumAMMV4(qt, amountIn, i, o) ==
    SwapBaseIn(qt.reserves[i], qt.reserves[o], amountIn, qt.fee[1], qt.fee[2])

Pump(qt, amountIn, i, o) ==
    IF i = 1 THEN SellExactIn(qt.reserves[1], qt.reserves[2], amountIn, qt.feeBps)
             ELSE BuyExactIn(qt.reserves[2], qt.reserves[1], amountIn, qt.feeBps)

PumpBondingCurve(qt, amountIn, i, o) ==
    IF i = 1 THEN CurveSellExactIn(qt.reserves[1], qt.reserves[2], amountIn, qt.feeBps)
             ELSE CurveBuyExactIn(qt.reserves[2], qt.reserves[1], amountIn, qt.feeBps)

\* What the curve of a FluxBeam pool pays for what arrives of amountIn.
FluxBeamGross(qt, amountIn, i, o) ==
    IF qt.curveType # 0 THEN 0
    ELSE SwapExactIn(qt.reserves[i], qt.reserves[o],
                     afterTransfer(qt.transferFee[i], qt.epoch, amountIn), qt.fees)

FluxBeam(qt, amountIn, i, o) ==
    afterTransfer(qt.transferFee[o], qt.epoch, FluxBeamGross(qt, amountIn, i, o))

QuoteExactIn(qt, amountIn, aToB) ==
    LET i == IF aToB THEN 1 ELSE 2
        o == 3 - i
    IN  CASE qt.venue = "cpmm"     -> RaydiumCPMM(qt, amountIn, i, o)
          [] qt.venue = "ammv4"    -> RaydiumAMMV4(qt, amountIn, i, o)
          [] qt.venue = "pump"     -> Pump(qt, amountIn, i, o)
          [] qt.venue = "curve"    -> PumpBondingCurve(qt, amountIn, i, o)
          [] qt.venue = "fluxbeam" -> FluxBeam(qt, amountIn, i, o)

-----------------------------------------------------------------------------
\* The client

AllFields == {"config", "feeConfig", "vaults", "supply", "curveFee", "transfer", "now"}

LinkedConfig ==
    CASE world.owner = "cpmm" -> DecodeRaydiumCPMMConfig(world.config)
      [] world.owner = "pump" -> DecodePumpGlobalConfig(world.config)
      [] OTHER -> Nothing

\* Aux with the fields in given filled in from the chain as it is; a field left out
\* has Go's zero value.
AuxOf(given) ==
    [given       |-> given,
     config      |-> IF "config" \in given THEN LinkedConfig ELSE Nothing,
     feeConfig   |-> IF "feeConfig" \in given /\ world.owner = "pump"
                     THEN DecodePumpFeeConfig(world.feeConfig) ELSE Nothing,
     vault       |-> IF "vaults" \in given THEN vault ELSE <<0, 0>>,
     supply      |-> IF "supply" \in given THEN world.supply ELSE 0,
     curveFeeBps |-> IF "curveFee" \in given THEN world.curveFeeBps ELSE 0,
     transferFee |-> IF "transfer" \in given
                     THEN [i \in 1 .. 2 |-> DecodeMintTransferFee(world.mints[i]).config]
                     ELSE <<Nothing, Nothing>>,
     now         |-> IF "now" \in given THEN now ELSE 0]

\* The accounts of each venue, and the mints and fee schedules they link.
CPMMData  == [len : Nat, disc : STRING, status : Nat, creatorFeeOn : Nat, enableCreatorFee : BOOLEAN,
              fees : [1 .. 2 -> [protocol : Nat, fund : Nat, creator : Nat]]]
AMMV4Data == [len : Nat, status : Nat, fee : [1 .. 2 -> Nat], pnl : [1 .. 2 -> Nat], openTime : Nat]
PumpData  == [len : Nat, disc : STRING, graduate : BOOLEAN, quoteMint : STRING,
              coinCreator : BOOLEAN, virtualQuote : Int, creatorFeeBps : Nat]
CurveData == [len : Nat, disc : STRING, virtual : [1 .. 2 -> 0 .. U64Max], complete : BOOLEAN,
              quoteMint : STRING]
FluxData  == [len : Nat, version : Nat, initialized : BOOLEAN, curveType : Nat,
              fees : [trade : [1 .. 2 -> Nat], owner : [1 .. 2 -> Nat]]]

Settings   == [epoch : Nat, maximum : Nat, bps : 0 .. BpsDenominator]
Extensions == [type : Nat, fits : BOOLEAN, len : Nat, older : Settings, newer : Settings]
FeeParts   == [lp : Nat, protocol : Nat, creator : Nat]
Tiers      == Seq([threshold : Nat, fees : FeeParts])

CPMMConfigs == [len : Nat, disc : STRING, tradeFeeRate : Nat, creatorFeeRate : Nat]
PumpConfigs == [len : Nat, fees : FeeParts, configurable : BOOLEAN, maxCreatorFeeBps : Nat]
FeeConfigs  == [len : Nat, flat : FeeParts, tiers : Tiers, stableTiers : Tiers, exoticFlat : FeeParts]

\* The schedules a Pump pool may be charged by.
schedules(w) ==
    {NoFees, w.config.fees, w.feeConfig.flat, w.feeConfig.exoticFlat}
        \cup {w.feeConfig.tiers[k].fees : k \in DOMAIN w.feeConfig.tiers}
        \cup {w.feeConfig.stableTiers[k].fees : k \in DOMAIN w.feeConfig.stableTiers}

\* The most a Pump pool may set as its own creator fee.
creatorCap(w) ==
    IF w.config.maxCreatorFeeBps > 0 THEN w.config.maxCreatorFeeBps ELSE w.data.creatorFeeBps

setAside(fees) == fees.protocol + fees.fund + fees.creator

\* The pools the programs let exist: fees set aside are in the vaults, no schedule, mint
\* or curve takes more than 100%, and what does not decode is refused whatever it holds.
ASSUME WorldAssumption ==
    /\ Amounts \subseteq 0 .. U64Max
    /\ MaxSwaps \in Nat /\ MaxTime \in Nat /\ MaxReads \in Nat
    /\ \A w \in Worlds :
          /\ w.vault \in [1 .. 2 -> 0 .. U64Max] /\ w.mints \in [1 .. 2 -> Seq(Extensions)]
          /\ w.curveFeeBps \in 0 .. BpsDenominator /\ w.supply \in Nat
          /\ w.owner = "cpmm" => /\ w.data \in CPMMData /\ w.config \in CPMMConfigs
                                 /\ \A i \in 1 .. 2 : setAside(w.data.fees[i]) <= w.vault[i]
          /\ w.owner = "ammv4" => /\ w.data \in AMMV4Data
                                  /\ \A i \in 1 .. 2 : w.data.pnl[i] <= w.vault[i]
          /\ w.owner = "curve" => w.data \in CurveData
          /\ w.owner = "fluxbeam" => w.data \in FluxData
          /\ w.owner = "pump" =>
                /\ w.data \in PumpData /\ w.config \in PumpConfigs /\ w.feeConfig \in FeeConfigs
                /\ \A f \in schedules(w) :
                      /\ f.lp + f.protocol + f.creator <= BpsDenominator
                      /\ w.config.configurable => f.lp + f.protocol + creatorCap(w) <= BpsDenominator

Init ==
    /\ world \in Worlds
    /\ data = world.data /\ vault = world.vault /\ now = 0
    /\ account = Nothing /\ aux = Nothing /\ quoter = Nothing /\ reads = 0
    /\ trader = <<0, 0>> /\ swaps = 0

FetchAccount ==
    /\ account = Nothing /\ reads < MaxReads
    /\ account' = data /\ reads' = reads + 1
    /\ UNCHANGED <<chain, aux, quoter, trader, swaps>>

\* A mint that does not decode leaves its client without an Aux.
FetchAux(given) ==
    /\ aux = Nothing /\ reads < MaxReads
    /\ "transfer" \in given => \A i \in 1 .. 2 : DecodeMintTransferFee(world.mints[i]).ok
    /\ aux' = AuxOf(given) /\ reads' = reads + 1
    /\ UNCHANGED <<chain, account, quoter, trader, swaps>>

Build ==
    /\ account # Nothing /\ aux # Nothing /\ quoter = Nothing
    /\ quoter' = FromAccount(world.owner, account, aux)
    /\ quoter' # Nothing
    /\ UNCHANGED <<chain, account, aux, reads, trader, swaps>>

\* FromAccount refuses, or the client is done with its quoter: it reads again.
StartOver ==
    /\ account # Nothing /\ aux # Nothing
    /\ quoter # Nothing \/ FromAccount(world.owner, account, aux) = Nothing
    /\ account' = Nothing /\ aux' = Nothing /\ quoter' = Nothing
    /\ UNCHANGED <<chain, reads, trader, swaps>>

-----------------------------------------------------------------------------
\* The programs on chain

\* What a swap moves: into the vault, out of it, and into the fees set aside on either
\* side.  takes says whether the fee leaves the liquidity providers.
Settlement(qt, amountIn, i, o, takes) ==
    LET out  == QuoteExactIn(qt, amountIn, i = 1)
        onIn == CreatorFeeOnInput(qt.creatorFeeOn, i = 1)
        rate == inputFeeRate(qt.tradeFeeRate, qt.creatorFeeRate, onIn)
        gross == curve(qt.reserves[1], qt.reserves[2], amountIn)
    IN  CASE qt.venue = "cpmm" ->
                 [in |-> amountIn, out |-> out, paid |-> out,
                  feeIn |-> IF takes THEN ceilFee(amountIn, rate) ELSE 0,
                  feeOut |-> swapped(qt.reserves[i], qt.reserves[o], amountIn, rate) - out]
          [] qt.venue = "ammv4" ->
                 [in |-> amountIn, out |-> out, paid |-> out,
                  feeIn |-> IF takes THEN ceilDiv(amountIn * qt.fee[1], qt.fee[2]) ELSE 0,
                  feeOut |-> 0]
          [] qt.venue = "fluxbeam" ->
                 [in |-> afterTransfer(qt.transferFee[i], qt.epoch, amountIn), out |-> out,
                  paid |-> FluxBeamGross(qt, amountIn, i, o), feeIn |-> 0, feeOut |-> 0]
          [] qt.venue \in {"pump", "curve"} ->
                 [in |-> IF i = 2 /\ takes THEN effectiveIn(amountIn, qt.feeBps) ELSE amountIn,
                  out |-> out, paid |-> IF i = 1 /\ takes THEN gross ELSE out,
                  feeIn |-> 0, feeOut |-> 0]

\* The account after a swap.
Settled(qt, m, i, o) ==
    CASE qt.venue = "cpmm" ->
             [data EXCEPT !.fees[i].protocol = @ + m.feeIn, !.fees[o].creator = @ + m.feeOut]
      [] qt.venue = "ammv4" -> [data EXCEPT !.pnl[i] = @ + m.feeIn]
      [] qt.venue = "curve" ->
             [data EXCEPT !.virtual[i] = @ + m.in, !.virtual[o] = @ - m.paid,
                          !.complete = o = 1 /\ vault[1] = m.paid]
      [] OTHER -> data

\* A swap by any trader.  A bonding curve keeps no fee; no vault pays what it lacks and
\* no balance grows past a u64.
SwapLands(aToB, amountIn, takes) ==
    LET i  == IF aToB THEN 1 ELSE 2
        o  == 3 - i
        qt == FromAccount(world.owner, data, AuxOf(AllFields))
    IN  /\ swaps < MaxSwaps
        /\ qt # Nothing
        /\ qt.venue = "curve" => takes
        /\ \E m \in {Settlement(qt, amountIn, i, o, takes)} :
               /\ m.out > 0 /\ m.paid <= vault[o] /\ vault[i] + m.in <= U64Max
               /\ qt.venue = "curve" => qt.reserves[i] + m.in <= U64Max
               /\ vault' = [vault EXCEPT ![i] = @ + m.in, ![o] = @ - m.paid]
               /\ data' = Settled(qt, m, i, o)
               /\ trader' = [trader EXCEPT ![i] = @ - amountIn, ![o] = @ + m.out]
        /\ swaps' = swaps + 1
        /\ UNCHANGED <<world, now, client>>

\* What the pool has set aside in token i.
Owed(i) == CASE world.owner = "cpmm"  -> feesOwed(data, i)
             [] world.owner = "ammv4" -> data.pnl[i]
             [] OTHER -> 0

\* The fees set aside are withdrawn.
CollectFees ==
    /\ \E i \in 1 .. 2 : Owed(i) > 0
    /\ \A i \in 1 .. 2 : Owed(i) <= vault[i]
    /\ vault' = [i \in 1 .. 2 |-> vault[i] - Owed(i)]
    /\ data' = IF world.owner = "cpmm"
               THEN [data EXCEPT !.fees = [i \in 1 .. 2 |-> [protocol |-> 0, fund |-> 0, creator |-> 0]]]
               ELSE [data EXCEPT !.pnl = <<0, 0>>]
    /\ UNCHANGED <<world, now, client, trader, swaps>>

TimePasses ==
    /\ now < MaxTime
    /\ now' = now + 1
    /\ UNCHANGED <<world, data, vault, client, trader, swaps>>

Next ==
    \/ FetchAccount
    \/ \E given \in Givens : FetchAux(given)
    \/ Build
    \/ StartOver
    \/ \E aToB \in BOOLEAN, a \in Amounts, takes \in BOOLEAN : SwapLands(aToB, a, takes)
    \/ CollectFees
    \/ TimePasses

Spec == Init /\ [][Next]_vars

-----------------------------------------------------------------------------
\* Properties

\* Type correctness: balances are u64 and counters do not go negative.
TypeOK ==
    /\ vault \in [1 .. 2 -> 0 .. U64Max]
    /\ reads \in 0 .. MaxReads /\ now \in 0 .. MaxTime
    /\ \A i \in 1 .. 2 : Owed(i) \in 0 .. U64Max
    /\ quoter # Nothing => \A i \in 1 .. 2 : quoter.reserves[i] \in 1 .. U64Max

\* Fees that sit in the vaults are not reserve (raydium_cpmm.go:119-126,
\* raydium_amm_v4.go:91-99): however many swaps land at the quoted price, and whatever
\* is withdrawn in between, each vault still holds the fees the pool owes.
FeesStayBacked == \A i \in 1 .. 2 : Owed(i) <= vault[i]

\* The balance a quoter's answer is paid from: the vault as it was read, with the
\* virtual reserve where the program prices with one.
Backing(o) ==
    IF quoter.venue = "curve" \/ (quoter.venue = "pump" /\ o = 2) THEN quoter.reserves[o]
    ELSE aux.vault[o]

\* The account and the vaults may be read on either side of a swap or of a withdrawal.
\* However the two disagree, no quoter answers more than the vault it was read with holds:
\* net reserves and fees that do not fit refuse the pool or saturate, and never wrap.
NeverOverdrawn ==
    quoter # Nothing =>
        \A a \in Amounts, aToB \in BOOLEAN :
            QuoteExactIn(quoter, a, aToB) <= Backing(IF aToB THEN 2 ELSE 1)

\* No sequence of swaps, in any order and by any number of traders, with time, fee
\* tiers, staged transfer fees and withdrawals in between, leaves the traders with more
\* of one token and no less of the other.
TraderNeverProfits == ~(trader[1] >= 0 /\ trader[2] >= 0 /\ trader # <<0, 0>>)

\* The Aux fields a venue's quote depends on; a supply only where a market-cap tier is.
Needs(owner) == CASE owner = "cpmm"     -> {"config", "vaults"}
                  [] owner = "ammv4"    -> {"vaults"}
                  [] owner = "pump"     -> {"config", "vaults", "supply"}
                  [] owner = "fluxbeam" -> {"vaults"}
                  [] owner = "curve"    -> {"curveFee"}

\* "A venue missing one it needs is refused, not quoted on the zero value"
\* (from_account.go:29-30).
MissingAuxIsRefused == quoter # Nothing => Needs(world.owner) \subseteq aux.given

=============================================================================
