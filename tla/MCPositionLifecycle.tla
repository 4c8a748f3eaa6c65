------------------------ MODULE MCPositionLifecycle ------------------------
(* Instances of PositionLifecycle for TLC. *)
EXTENDS PositionLifecycle, TLC

Interchangeable == Permutations(Mint) \cup Permutations(BuyTask)
                     \cup Permutations(SellTask) \cup Permutations(Monitor)
=============================================================================
