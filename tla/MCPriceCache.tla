---------------------------- MODULE MCPriceCache ----------------------------
(***************************************************************************)
(* Two goroutines and three bins: the all-zero key, which an empty slot    *)
(* also carries, a negative id that shares its slot, and one whose price   *)
(* overflows.  Four objects are one more than a slot and two calls can     *)
(* reach, so no allocation waits.                                          *)
(***************************************************************************)
EXTENDS PriceCache, TLC

CONSTANTS g1, g2

MCGoroutines == {g1, g2}

Bin(id, step) == [activeID |-> id, binStep |-> step]

MCPrices  == {10, 20}
MCCompute == (Bin(0, 0) :> 10) @@ (Bin(-2, 0) :> 20) @@ (Bin(1, 1) :> Overflow)
MCInputs  == DOMAIN MCCompute

=============================================================================
