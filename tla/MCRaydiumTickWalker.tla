------------------------ MODULE MCRaydiumTickWalker ------------------------
(***************************************************************************)
(* Instance of RaydiumTickWalker: arrays of two ticks at spacing two, on   *)
(* both sides of zero, so that unaligned current ticks, negative floors,   *)
(* empty initialized arrays and gaps between arrays all occur.             *)
(***************************************************************************)
EXTENDS RaydiumTickWalker

MCLowTick == -6

=============================================================================
