------------------------------ MODULE MCDlmmSwap ------------------------------
(***************************************************************************)
(* Small DLMM pools: bins -3 .. 3 in arrays of two, prices half a scale    *)
(* apart, y below the active bin and x above it, an empty bin on each side.*)
(***************************************************************************)
EXTENDS DlmmSwap

MCMinBinID == -3
MCPrice == [b \in Bins |-> CASE b = -3 -> 2 [] b = -2 -> 3 [] b = -1 -> 5 [] b = 0 -> 8
                             [] b = 1 -> 12 [] b = 2 -> 18 [] b = 3 -> 27]

Config(base, mode, control) ==
    [status |-> 0, binStep |-> 1, baseFactor |-> base, baseFeePowerFactor |-> 0,
     variableFeeControl |-> control, maxVolatility |-> 6, filterPeriod |-> 1,
     decayPeriod |-> 3, reductionFactor |-> 1, collectFeeMode |-> mode]

MCConfigs == {Config(0, 0, 0), Config(1, 0, 0), Config(1, 0, 3), Config(1, 1, 3),
              [Config(1, 0, 0) EXCEPT !.status = 1]}

MCBooks == {[b \in Bins |-> [x |-> CASE b = 0 -> 3 [] b = 1 -> 7 [] b = 3 -> 5 [] OTHER -> 0,
                             y |-> CASE b = 0 -> 4 [] b = -1 -> 6 [] b = -3 -> 9 [] OTHER -> 0]],
            [b \in Bins |-> [x |-> CASE b = 1 -> 30 [] b = 2 -> 4 [] OTHER -> 0,
                             y |-> CASE b = -1 -> 2 [] b = -2 -> 40 [] OTHER -> 0]]}
MCWindows == {{-2, -1, 0, 1}, {-1, 0}, {0}}
MCAmounts == {0, 1, 2, 3, 5, 8, 13, 20, 40}

=============================================================================
