-------------------------- MODULE Portfolio_proofs --------------------------
(* What every engine that keeps the promise of Portfolio gives its owner. *)
EXTENDS Portfolio, TLAPS

\* Whatever is held is listed or being bought, and what is being bought was not
\* bought before, for every token that did not go astray.
THEOREM PortfolioInvariant == Spec => []PortfolioInv
<1> USE DEF PortfolioInv, HeldIsAccounted, BoughtOnce
<1>1. Init => PortfolioInv
  BY DEF Init
<1>2. ASSUME PortfolioInv, [Next]_vars PROVE PortfolioInv'
  <2>1. ASSUME NEW m \in Mint, Order(m) PROVE PortfolioInv'
    BY <1>2, <2>1 DEF Order
  <2>2. ASSUME NEW m \in Mint, Fill(m) PROVE PortfolioInv'
    BY <1>2, <2>2 DEF Fill
  <2>3. ASSUME NEW m \in Mint, GiveUp(m) PROVE PortfolioInv'
    BY <1>2, <2>3 DEF GiveUp, CloseOrder
  <2>4. ASSUME NEW m \in Mint, Book(m) PROVE PortfolioInv'
    BY <1>2, <2>4 DEF Book, CloseOrder
  <2>5. ASSUME NEW m \in Mint, Relist(m) PROVE PortfolioInv'
    BY <1>2, <2>5 DEF Relist
  <2>6. ASSUME NEW m \in Mint, Sell(m) PROVE PortfolioInv'
    BY <1>2, <2>6 DEF Sell
  <2>7. ASSUME NEW m \in Mint, Delist(m) PROVE PortfolioInv'
    BY <1>2, <2>7 DEF Delist
  <2>8. ASSUME NEW m \in Mint, Misread(m) PROVE PortfolioInv'
    BY <1>2, <2>8 DEF Misread
  <2>9. CASE UNCHANGED vars
    BY <1>2, <2>9 DEF vars
  <2> QED BY <1>2, <2>1, <2>2, <2>3, <2>4, <2>5, <2>6, <2>7, <2>8, <2>9 DEF Next
<1> QED BY <1>1, <1>2, PTL DEF Spec

\* A token that was bought and sold is not bought a second time, whatever the
\* engine's tasks do, unless it went astray.
THEOREM OnePosition == Spec => NoSecondPosition
<1>1. ASSUME PortfolioInv, Next, NEW m \in bought
      PROVE  m \in bought' /\ (m \in held' => m \in held \cup astray)
  BY <1>1 DEF Next, Order, Fill, GiveUp, CloseOrder, Book, Relist, Sell, Delist, Misread,
              PortfolioInv, BoughtOnce
<1>2. PortfolioInv /\ [Next]_vars =>
        [\A m \in bought : /\ m \in bought'
                           /\ m \in held' => m \in held \cup astray]_vars
  BY <1>1
<1> QED BY <1>2, PortfolioInvariant, PTL DEF Spec, NoSecondPosition
=============================================================================
