----------------------------- MODULE Portfolio -----------------------------
(***************************************************************************)
(* What the sniper engine promises about the tokens it buys, its tasks,    *)
(* maps and RPCs left out.  A token is ordered, comes into the wallet and  *)
(* is booked: from then on it is never ordered again, and it stays listed, *)
(* where sales and the sweeper look for it, until the wallet holds it no   *)
(* more.  A token leads this life unless it went astray: two orders of it  *)
(* were open at once, or an order was given up whose fate was unknown.  A  *)
(* token that some other token's trade is read as may be sold before its   *)
(* own buy is booked, and then is booked, and listed, empty.               *)
(***************************************************************************)
CONSTANT Mint

VARIABLES
  ordered,                \* a buy of the token is being made
  bought,                 \* a buy of it was confirmed at some time
  listed,                 \* taken for held
  held,                   \* in the wallet
  astray,                 \* an order of it got lost, or two of them overlapped
  misread                 \* the trade of another token was taken for one of it

vars == <<ordered, bought, listed, held, astray, misread>>

Init ==
  /\ ordered = {} /\ bought = {} /\ listed = {} /\ held = {}
  /\ astray = {} /\ misread = {}

\* Nothing is ordered that was bought before.
Order(m) ==
  /\ m \notin bought
  /\ ordered' = ordered \cup {m}
  /\ astray' = astray \cup (ordered \cap {m})
  /\ UNCHANGED <<bought, listed, held, misread>>

Fill(m) ==
  /\ m \in ordered \cup astray
  /\ held' = held \cup {m}
  /\ UNCHANGED <<ordered, bought, listed, astray, misread>>

\* An order is done with; of two that overlap, the other one may still be open.
CloseOrder(m) ==
  /\ m \in ordered
  /\ \/ ordered' = ordered \ {m}
     \/ m \in astray /\ ordered' = ordered

\* The order is lost sight of, or dropped with nothing bought.
GiveUp(m) ==
  /\ CloseOrder(m)
  /\ \/ astray' = astray \cup {m}
     \/ m \notin held \ astray /\ astray' = astray
  /\ UNCHANGED <<bought, listed, held, misread>>

\* The buy is confirmed.
Book(m) ==
  /\ CloseOrder(m)
  /\ m \in held \cup astray \cup misread
  /\ bought' = bought \cup {m}
  /\ listed' = listed \cup {m}
  /\ UNCHANGED <<held, astray, misread>>

\* The second booking of overlapping orders, or the end of one whose token was
\* sold meanwhile, may list the token once more.
Relist(m) ==
  /\ m \in bought \cap (astray \cup misread)
  /\ listed' = listed \cup {m}
  /\ UNCHANGED <<ordered, bought, held, astray, misread>>

\* The last of the token is sold.
Sell(m) ==
  /\ m \in bought \cup misread
  /\ held' = held \ {m}
  /\ UNCHANGED <<ordered, bought, listed, astray, misread>>

Delist(m) ==
  /\ m \notin held \ astray
  /\ listed' = listed \ {m}
  /\ UNCHANGED <<ordered, bought, held, astray, misread>>

Misread(m) ==
  /\ misread' = misread \cup {m}
  /\ UNCHANGED <<ordered, bought, listed, held, astray>>

Next ==
  \E m \in Mint :
    \/ Order(m) \/ Fill(m) \/ GiveUp(m) \/ Book(m)
    \/ Relist(m) \/ Sell(m) \/ Delist(m) \/ Misread(m)

Spec == Init /\ [][Next]_vars
-----------------------------------------------------------------------------
\* Whatever the wallet holds is listed or being bought, unless it went astray.
HeldIsAccounted == held \subseteq listed \cup ordered \cup astray

\* No token has an order open after it was bought, unless it went astray.
BoughtOnce == ordered \cap bought \subseteq astray

PortfolioInv ==
  /\ listed \subseteq bought
  /\ HeldIsAccounted
  /\ BoughtOnce

\* A token that was sold never comes back into the wallet, and one that was
\* bought is never forgotten.
NoSecondPosition ==
  [][\A m \in bought : /\ m \in bought'
                       /\ m \in held' => m \in held \cup astray]_vars
=============================================================================
