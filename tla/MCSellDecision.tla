--------------------------- MODULE MCSellDecision ---------------------------
(* Instances of SellDecision for TLC. *)
EXTENDS SellDecision, TLC

MCSymmetry == Permutations(Handler)
=============================================================================
