------------------------------ MODULE MCDammSwap ------------------------------
(***************************************************************************)
(* Small DAMM v2 pools: u64 has eight bits, a fee numerator is out of 20   *)
(* and a basis point out of 10.  Reserves are about a dozen tokens; the    *)
(* concentrated range is a factor of two around the price.                 *)
(***************************************************************************)
EXTENDS DammSwap

Blob(mode, cliff, at14, at16, at20, at24) ==
    [mode |-> mode, cliff |-> cliff, at14 |-> at14, at16 |-> at16, at20 |-> at20, at24 |-> at24]

Free        == Blob(0, 0, 0, 0, 0, 0)
Flat        == Blob(0, 3, 2, 0, 0, 1)
Linear      == Blob(0, 5, 5, 1, 0, 2)
Long        == Blob(0, 9, 5, 1, 0, 1)
Exponential == Blob(1, 8, 5, 1, 0, 3)
Steep       == Blob(1, 12, 6, 2, 0, 9)
Limiter     == Blob(2, 2, 1, 2, 7, 4)
Uneven      == Blob(2, 1, 2, 3, 4, 3)
MarketCap   == Blob(3, 4, 2, 1, 0, 1)
Unknown     == Blob(5, 4, 2, 1, 0, 1)

Account(mode, blob) ==
    [baseFeeInfo |-> blob, activationPoint |-> 1, collectFeeMode |-> mode, feeVersion |-> 0,
     reserves |-> <<14, 9>>, sqrtPrice |-> 256, sqrtMinPrice |-> 180, sqrtMaxPrice |-> 360,
     liquidity |-> 9000,
     split |-> [protocol |-> 40, compounding |-> 5, referral |-> 60, hasReferral |-> TRUE],
     dynamicFee |-> [initialized |-> FALSE, volatilityAccumulator |-> 0, binStep |-> 0,
                     variableFeeControl |-> 0]]

Dynamic(account, accumulator, version) ==
    [account EXCEPT !.feeVersion = version,
        !.dynamicFee = [initialized |-> TRUE, volatilityAccumulator |-> accumulator, binStep |-> 2,
                        variableFeeControl |-> 1]]

MCPools ==
    {Account(2, b) : b \in {Free, Flat, Linear, Long, Exponential, Steep, Limiter, Uneven, MarketCap, Unknown}}
    \cup {Account(m, b) : m \in {0, 1}, b \in {Free, Linear, Exponential, Steep}}
    \cup {Dynamic(Account(m, Flat), 3, 1) : m \in {0, 1}}
    \cup {Dynamic(Account(0, Linear), 9, v) : v \in {0, 1}}
    \cup {[Account(m, Free) EXCEPT !.liquidity = 60000] : m \in {0, 1}}

=============================================================================
