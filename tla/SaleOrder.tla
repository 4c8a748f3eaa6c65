------------------------------ MODULE SaleOrder ------------------------------
(***************************************************************************)
(* What fr_execute_sell promises its caller, whatever retries it makes:    *)
(* one answer, given once; "sold" only after one of its own sales took     *)
(* effect on the chain.  It promises no more: after "failed" a sale may    *)
(* still take effect, and a sale that took effect may be rolled back       *)
(* with the block it was in.                                               *)
(***************************************************************************)
EXTENDS Naturals

CONSTANT Amount           \* of the token in the wallet when the order is given

VARIABLES
  balance,                \* of the token in the wallet
  tookEffect,             \* a sale of this order was seen in a block
  answer                  \* "pending", then "sold" or "failed"

vars == <<balance, tookEffect, answer>>

Init ==
  /\ balance = Amount
  /\ tookEffect = FALSE
  /\ answer = "pending"

\* A sale of this order takes effect, answered or not.
Sale ==
  /\ balance' \in Nat /\ balance' < balance
  /\ tookEffect' = TRUE
  /\ answer' = answer

\* The block of such a sale is dropped.
RollBack ==
  /\ tookEffect
  /\ balance' \in Nat /\ balance' > balance
  /\ UNCHANGED <<tookEffect, answer>>

\* Another handler sells what is left.
SoldByOther ==
  /\ balance > 0 /\ balance' = 0
  /\ UNCHANGED <<tookEffect, answer>>

Answer ==
  /\ answer = "pending"
  /\ answer' \in {"sold", "failed"}
  /\ answer' = "sold" => tookEffect
  /\ UNCHANGED <<balance, tookEffect>>

Next == Sale \/ RollBack \/ SoldByOther \/ Answer

Spec == Init /\ [][Next]_vars
=============================================================================
