----------------------------- MODULE MCSwapBuild -----------------------------
(* Instances of SwapBuild for TLC. *)
EXTENDS SwapBuild, TLC

\* Reserves for one lamport: no token, no reserves, one token.
MCReserves == {<<3, 2>>, <<0, 3>>, <<2, 3>>}

MCSymmetry == Permutations(Builder)
=============================================================================
