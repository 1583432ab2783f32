-------------------------- MODULE MCConstantProduct --------------------------
(***************************************************************************)
(* Small pools of every venue: a u64 has seven bits, a fee rate is out of  *)
(* 10 and a basis point out of 8, reserves are about a dozen tokens.       *)
(***************************************************************************)
EXTENDS ConstantProduct

World(owner, vaults, d) ==
    [owner |-> owner, vault |-> vaults, data |-> d, config |-> Nothing, feeConfig |-> Nothing,
     supply |-> 0, curveFeeBps |-> 0, mints |-> <<Nothing, Nothing>>]

\* Raydium CP-Swap
Fresh == <<[protocol |-> 0, fund |-> 0, creator |-> 0], [protocol |-> 0, fund |-> 0, creator |-> 0]>>
Used  == <<[protocol |-> 1, fund |-> 2, creator |-> 1], [protocol |-> 0, fund |-> 1, creator |-> 3]>>
CPMM(len, status, on, enabled, fees, trade) ==
    [World("cpmm", <<12, 9>>,
           [len |-> len, disc |-> "PoolState", status |-> status, fees |-> fees,
            creatorFeeOn |-> on, enableCreatorFee |-> enabled])
     EXCEPT !.config = [len |-> 236, disc |-> "AmmConfig", tradeFeeRate |-> trade,
                        creatorFeeRate |-> 2]]
CPMMs == {CPMM(637, 0, 0, FALSE, Fresh, 0), CPMM(637, 0, 0, TRUE, Used, 1),
          CPMM(637, 0, 1, TRUE, Used, 1), CPMM(637, 3, 2, TRUE, Used, 0),
          CPMM(637, 4, 0, FALSE, Fresh, 1), CPMM(637, 0, 3, TRUE, Fresh, 1),
          CPMM(412, 0, 0, FALSE, Fresh, 1)}

\* Raydium AMM v4
AMMV4(len, status, fee, pnl) ==
    World("ammv4", <<11, 8>>,
          [len |-> len, status |-> status, fee |-> fee, pnl |-> pnl, openTime |-> 1])
AMMV4s == {AMMV4(752, 6, <<0, 5>>, <<0, 0>>), AMMV4(752, 7, <<1, 5>>, <<2, 3>>),
           AMMV4(752, 5, <<1, 5>>, <<0, 0>>), AMMV4(752, 6, <<0, 0>>, <<0, 0>>),
           AMMV4(751, 6, <<1, 5>>, <<0, 0>>), AMMV4(752, 8, <<1, 5>>, <<0, 0>>)}

\* Pump AMM
Fees(lp, protocol, creator) == [lp |-> lp, protocol |-> protocol, creator |-> creator]
Tier(threshold, fees) == [threshold |-> threshold, fees |-> fees]
Schedules(len) ==
    [len |-> len, flat |-> Fees(1, 0, 0),
     tiers |-> <<Tier(2, Fees(2, 1, 1)), Tier(8, Fees(1, 1, 1)), Tier(20, Fees(0, 0, 0))>>,
     stableTiers |-> <<Tier(1, Fees(1, 0, 0)), Tier(7, Fees(0, 0, 0))>>,
     exoticFlat |-> Fees(0, 2, 0)]
PumpAMM(len, graduate, mint, virtual, override, globalLen, feesLen) ==
    [World("pump", <<9, 7>>,
           [len |-> len, disc |-> "Pool", graduate |-> graduate, quoteMint |-> mint,
            coinCreator |-> TRUE, virtualQuote |-> virtual, creatorFeeBps |-> override])
     EXCEPT !.config = [len |-> globalLen, fees |-> Fees(0, 1, 1), configurable |-> TRUE,
                        maxCreatorFeeBps |-> 3],
            !.feeConfig = Schedules(feesLen), !.supply = 10]
Pumps == {PumpAMM(301, TRUE, "wsol", 0, 0, 949, 4097), PumpAMM(301, TRUE, "usdc", 5, 0, 949, 4097),
          PumpAMM(301, TRUE, "other", -2, 12, 949, 4097), PumpAMM(301, FALSE, "wsol", -7, 0, 321, 69),
          PumpAMM(301, FALSE, "wsol", 3, 12, 321, 4097), PumpAMM(211, TRUE, "usdt", 5, 12, 949, 1072),
          PumpAMM(261, TRUE, "wsol", 200, 0, 949, 109), PumpAMM(210, TRUE, "wsol", 0, 0, 949, 4097)}

\* pump.fun bonding curves
Curve(len, mint, fee) ==
    [World("curve", <<7, 3>>,
           [len |-> len, disc |-> "BondingCurve", virtual |-> <<9, 7>>, complete |-> FALSE,
            quoteMint |-> mint])
     EXCEPT !.curveFeeBps = fee]
Curves == {Curve(125, "zero", 1), Curve(81, "usdc", 0), Curve(125, "usdc", 1), Curve(80, "zero", 1)}

\* FluxBeam: the second mint's fee changes at epoch 1
Setting(epoch, maximum, bps) == [epoch |-> epoch, maximum |-> maximum, bps |-> bps]
Extension(type, fits, len) ==
    [type |-> type, fits |-> fits, len |-> len,
     older |-> Setting(0, 5, 3), newer |-> Setting(1, 1, 1)]
Flux(version, curveType, fees, mint) ==
    [World("fluxbeam", <<10, 8>>,
           [len |-> 324, version |-> version, initialized |-> TRUE, curveType |-> curveType,
            fees |-> fees])
     EXCEPT !.mints = <<Nothing, mint>>]
FluxFees(trade, owner) == [trade |-> trade, owner |-> owner]
Fluxes == {Flux(1, 0, FluxFees(<<0, 1>>, <<0, 0>>), <<>>),
           Flux(1, 0, FluxFees(<<1, 5>>, <<1, 9>>), <<Extension(4, TRUE, 32), Extension(1, TRUE, 108)>>),
           Flux(1, 1, FluxFees(<<1, 5>>, <<0, 1>>), <<>>), Flux(2, 0, FluxFees(<<1, 5>>, <<0, 1>>), <<>>),
           Flux(1, 0, FluxFees(<<0, 1>>, <<0, 1>>), <<Extension(1, TRUE, 72)>>),
           Flux(1, 0, FluxFees(<<0, 1>>, <<0, 1>>), <<Extension(4, FALSE, 32)>>)}

Unknown == {World("unknown", <<5, 5>>, [len |-> 637, disc |-> "PoolState"])}

MCWorlds == CPMMs \cup AMMV4s \cup Pumps \cup Curves \cup Fluxes \cup Unknown
\* Pools whose fee is in what a client may leave out
AuxWorlds == {Curve(125, "zero", 1), PumpAMM(301, TRUE, "wsol", 0, 0, 949, 4097)}
MCGivens == {AllFields, AllFields \ {"config"}, AllFields \ {"vaults"},
             AllFields \ {"feeConfig", "now"}, AllFields \ {"supply", "curveFee", "transfer"}}

=============================================================================
