----------------------------- MODULE PriceOracle -----------------------------
(***************************************************************************)
(* What GetPriceFromID promises its callers: an unshared memo of a pure    *)
(* function.  Each caller asks for the price of a bin and gets the value   *)
(* of the arithmetic, or its error, as if no cache and no other caller     *)
(* existed.  The answer then belongs to the caller, who may overwrite it;  *)
(* no step of anybody else changes it.                                     *)
(***************************************************************************)

CONSTANTS Goroutines,   \* the callers
          Inputs,       \* the (activeID, binStep) pairs they ask for
          ComputePrice, \* ComputePrice[in]: the price, or Overflow
          Prices,       \* the values a *big.Int can hold
          Overflow      \* the error of the arithmetic

VARIABLES asked,        \* asked[g]: the input of g's latest call
          answer        \* answer[g]: what g holds

oracleVars == <<asked, answer>>

Idle    == "idle"
Pending == "pending"

OracleInit ==
    /\ asked \in [Goroutines -> Inputs]
    /\ answer = [g \in Goroutines |-> <<Idle>>]

Ask(g, in) ==
    /\ answer[g] = <<Idle>>
    /\ asked'  = [asked EXCEPT ![g] = in]
    /\ answer' = [answer EXCEPT ![g] = <<Pending>>]

Answer(g) ==
    /\ answer[g] = <<Pending>>
    /\ answer' = [answer EXCEPT ![g] = <<"answered", ComputePrice[asked[g]]>>]
    /\ UNCHANGED asked

Overwrite(g, p) ==
    /\ answer[g][1] = "answered"
    /\ answer[g][2] # Overflow
    /\ answer' = [answer EXCEPT ![g] = <<"answered", p>>]
    /\ UNCHANGED asked

Forget(g) ==
    /\ answer[g][1] = "answered"
    /\ answer' = [answer EXCEPT ![g] = <<Idle>>]
    /\ UNCHANGED asked

OracleNext ==
    \E g \in Goroutines :
        \/ \E in \in Inputs : Ask(g, in)
        \/ Answer(g)
        \/ \E p \in Prices : Overwrite(g, p)
        \/ Forget(g)

OracleSpec == OracleInit /\ [][OracleNext]_oracleVars

=============================================================================
