------------------------------- MODULE DammSqrt -------------------------------
(***************************************************************************)
(* SqrtU256 of math/damm/utils_math.go: a square root, one pair of bits    *)
(* per iteration of its loop.                                              *)
(***************************************************************************)
EXTENDS Integers, FiniteSetsExt

CONSTANT Bits  \* 256

VARIABLES radicand, bit, n, result

vars == <<radicand, bit, n, result>>

BitLen(x) == Min({k \in 0 .. Bits : x < 2 ^ k})

even(x) == 2 * (x \div 2)

Init ==
    /\ radicand \in 1 .. 2 ^ Bits - 1
    /\ bit = 2 ^ even((Bits - 1) - (BitLen(radicand) - 1))
    /\ n = radicand /\ result = 0

Iterate ==
    /\ bit # 0
    /\ IF n >= result + bit
       THEN n' = n - (result + bit) /\ result' = result \div 2 + bit
       ELSE n' = n /\ result' = result \div 2
    /\ bit' = bit \div 4
    /\ UNCHANGED radicand

Done == bit = 0 /\ UNCHANGED vars

Spec == Init /\ [][Iterate \/ Done]_vars

\* "expected floor sqrt" (safe_utils_fee_test.go:69): when the loop is over, result is
\* the integer square root.
SqrtIsFloor == bit = 0 => result * result <= radicand /\ radicand < (result + 1) * (result + 1)

=============================================================================
