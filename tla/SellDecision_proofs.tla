------------------------- MODULE SellDecision_proofs -------------------------
(***************************************************************************)
(* That the entry price stays in the range of traded prices, that a trade  *)
(* which leaves it is sold unless it is overtaken, and that the runtime is *)
(* stuck only after a verdict that was, for any number of handlers and     *)
(* threads and any limits.                                                 *)
(*                                                                         *)
(* The verdicts are about the metrics as a handler finds them, so the      *)
(* invariant says what a handler that has not been overtaken still knows   *)
(* of them: its trade left the range, its verdict was a whale sale.        *)
(***************************************************************************)
EXTENDS SellDecision, FiniteSetTheorems, TLAPS

InRange(m) ==
  /\ m.lowest_price <= m.current_price /\ m.current_price <= m.highest_price
  /\ m.entry_price # 0 => m.lowest_price <= m.entry_price /\ m.entry_price <= m.highest_price

\* Before the buy is booked nobody handles a trade.
UnbookedIsIdle ==
  boughtAt = 0 => metrics = {} /\ last = "none" /\ \A h \in Handler : pc[h] = "idle"

EntryIsBooked ==
  ~moved => /\ boughtAt # 0 => metrics # {}
            /\ \A m \in metrics : m.entry_price \in {0, boughtAt}

HoldIsSeen == last = "hold" => \A m \in metrics : ~WhaleSale(m) /\ ~RegularSale(m)

LeftIsSellable ==
  \A h \in left \ overtaken :
    pc[h] = "evaluate" => \E m \in metrics : WhaleSale(m) \/ Loses(m, StopLoss)

RereadIsWhale ==
  \A h \in Handler \ overtaken : pc[h] = "reread" => \E m \in metrics : WhaleSale(m)

GuardIsOvertaken == Guards \subseteq overtaken

StuckHasGuard == ~Running => Guards # {}

DecisionInv ==
  /\ TypeOK /\ EntryWithinRange /\ UnbookedIsIdle /\ EntryIsBooked /\ HoldIsSeen
  /\ LeftIsSellable /\ RereadIsWhale /\ GuardIsOvertaken /\ StuckHasGuard
-----------------------------------------------------------------------------
(* Arithmetic *)

\* Multiplication by a natural number keeps the order.
LEMMA FactorMonotone ==
  ASSUME NEW a \in Nat, NEW b \in Nat, NEW c \in Nat, a <= b
  PROVE  a * c <= b * c /\ c * a <= c * b
BY Z3

\* Division rounds down.
LEMMA QuotientBounds ==
  ASSUME NEW n \in Nat, NEW d \in Nat \ {0}
  PROVE  /\ n \div d \in Nat
         /\ (n \div d) * d <= n
         /\ n < (n \div d + 1) * d
BY Z3

\* An average lies between what it is the average of.
LEMMA AverageBetween ==
  ASSUME NEW e \in Nat, NEW p \in Nat, NEW h \in Nat \ {0}, NEW t \in Nat,
         NEW lo \in Nat, NEW hi \in Nat, lo <= e, lo <= p, e <= hi, p <= hi
  PROVE  /\ WeightedAverage(e, h, p, t) \in Nat
         /\ lo <= WeightedAverage(e, h, p, t)
         /\ WeightedAverage(e, h, p, t) <= hi
<1> DEFINE n == e * h + p * t
           d == h + t
           q == n \div d
<1>1. n \in Nat /\ d \in Nat \ {0}
  OBVIOUS
<1>2. lo * d <= n
  <2>1. lo * h <= e * h /\ lo * t <= p * t
    BY FactorMonotone
  <2>2. lo * d = lo * h + lo * t
    BY Z3
  <2>3. lo * h \in Nat /\ lo * t \in Nat /\ e * h \in Nat /\ p * t \in Nat
    OBVIOUS
  <2> QED BY <2>1, <2>2, <2>3
<1>3. n <= hi * d
  <2>1. e * h <= hi * h /\ p * t <= hi * t
    BY FactorMonotone
  <2>2. hi * d = hi * h + hi * t
    BY Z3
  <2>3. hi * h \in Nat /\ hi * t \in Nat /\ e * h \in Nat /\ p * t \in Nat
    OBVIOUS
  <2> QED BY <2>1, <2>2, <2>3
<1> HIDE DEF n, d
<1>4. q \in Nat /\ q * d <= n /\ n < (q + 1) * d
  BY <1>1, QuotientBounds
<1> HIDE DEF q
<1>5. lo <= q
  <2> SUFFICES ASSUME q + 1 <= lo PROVE FALSE
    BY <1>4
  <2>1. (q + 1) * d <= lo * d
    BY <1>1, <1>4, FactorMonotone
  <2>2. (q + 1) * d \in Nat /\ lo * d \in Nat
    BY <1>1, <1>4
  <2> QED BY <1>1, <1>2, <1>4, <2>1, <2>2
<1>6. q <= hi
  <2> SUFFICES ASSUME hi + 1 <= q PROVE FALSE
    BY <1>4
  <2>1. (hi + 1) * d <= q * d
    BY <1>1, <1>4, FactorMonotone
  <2>2. (hi + 1) * d = hi * d + d /\ hi * d \in Nat /\ q * d \in Nat
    BY <1>1, <1>4
  <2> QED BY <1>1, <1>3, <1>4, <2>1, <2>2
<1> QED BY <1>4, <1>5, <1>6 DEF WeightedAverage, q, n, d
-----------------------------------------------------------------------------
(* fr_refresh_metrics *)

\* Metrics that are made at a trade.
LEMMA NewInRange ==
  ASSUME NEW p \in Price, NEW l \in Liquidity
  PROVE  NewMetrics(p, l) \in Metrics /\ InRange(NewMetrics(p, l))
BY DecisionAssumption DEF NewMetrics, Metrics, InRange

\* A trade keeps the entry price in the range, which grows with it.
LEMMA EntryStaysInRange ==
  ASSUME NEW m \in Metrics, InRange(m), NEW trade \in Trade, trade.price # 0,
         NEW hi \in Nat, NEW lo \in Nat, m.highest_price <= hi, trade.price <= hi,
         lo <= m.lowest_price, lo <= trade.price
  PROVE  /\ EntryAfter(m, trade) \in Nat
         /\ EntryAfter(m, trade) # 0 => lo <= EntryAfter(m, trade) /\ EntryAfter(m, trade) <= hi
<1>1. /\ trade.price \in Nat /\ trade.tokens \in Nat /\ trade.is_buy \in BOOLEAN
      /\ m.entry_price \in Nat /\ m.amount_held \in Nat
      /\ m.highest_price \in Nat /\ m.lowest_price \in Nat /\ m.current_price \in Nat
  BY DecisionAssumption DEF Trade, Metrics
<1>2. m.entry_price # 0 => lo <= m.entry_price /\ m.entry_price <= hi
  BY <1>1 DEF InRange
<1>3. CASE trade.is_buy /\ trade.tokens > 0 /\ m.amount_held > 0 /\ m.entry_price > 0
  <2> DEFINE a == WeightedAverage(m.entry_price, m.amount_held, trade.price, trade.tokens)
  <2>1. a \in Nat /\ lo <= a /\ a <= hi
    <3>1. m.amount_held \in Nat \ {0} /\ lo <= m.entry_price /\ m.entry_price <= hi
      BY <1>1, <1>2, <1>3
    <3> QED BY <1>1, <3>1, AverageBetween, Zenon
  <2>2. EntryAfter(m, trade) = a
    BY <1>3 DEF EntryAfter
  <2> QED BY <2>1, <2>2
<1>4. CASE ~(trade.is_buy /\ trade.tokens > 0 /\ m.amount_held > 0 /\ m.entry_price > 0)
  <2>1. EntryAfter(m, trade) \in {trade.price, m.entry_price}
    BY <1>4 DEF EntryAfter
  <2> QED BY <1>1, <1>2, <2>1
<1> QED BY <1>3, <1>4

\* The metrics after a trade.
LEMMA UpdatedInRange ==
  ASSUME NEW m \in Metrics, InRange(m), NEW trade \in Trade, trade.price # 0,
         NEW balance \in Amount, NEW l \in Liquidity
  PROVE  LET n == Updated(m, trade, balance, l)
         IN /\ n \in Metrics /\ InRange(n)
            /\ n.current_price = trade.price /\ n.entry_price = EntryAfter(m, trade)
<1> DEFINE n == Updated(m, trade, balance, l)
           hi == IF trade.price > m.highest_price THEN trade.price ELSE m.highest_price
           lo == IF trade.price < m.lowest_price THEN trade.price ELSE m.lowest_price
<1>1. /\ trade.price \in Price /\ trade.price \in Nat /\ trade.is_buy \in BOOLEAN
      /\ m.highest_price \in Price /\ m.lowest_price \in Price
      /\ m.highest_price \in Nat /\ m.lowest_price \in Nat
  BY DecisionAssumption DEF Trade, Metrics
<1>2. /\ hi \in Price /\ hi \in Nat /\ lo \in Price /\ lo \in Nat
      /\ m.highest_price <= hi /\ trade.price <= hi
      /\ lo <= m.lowest_price /\ lo <= trade.price
  BY <1>1
<1>3. /\ EntryAfter(m, trade) \in Nat
      /\ EntryAfter(m, trade) # 0 => lo <= EntryAfter(m, trade) /\ EntryAfter(m, trade) <= hi
  <2> HIDE DEF hi, lo
  <2> QED BY <1>1, <1>2, EntryStaysInRange
<1>4. /\ n.highest_price = hi /\ n.lowest_price = lo /\ n.current_price = trade.price
      /\ n.entry_price = EntryAfter(m, trade)
  BY DEF Updated, Metrics
<1>5. n \in Metrics
  <2> HIDE DEF hi, lo
  <2> QED BY <1>1, <1>2, <1>3, <1>4 DEF Updated, Metrics, hi, lo
<1> HIDE DEF hi, lo, n
<1> QED BY <1>1, <1>2, <1>3, <1>4, <1>5 DEF InRange, n

\* A sale out of the range meets a whale tier or the stop loss.
LEMMA LeavingIsSellable ==
  ASSUME NEW m \in Metrics, InRange(m), m.entry_price # 0, NEW n \in Metrics,
         n.entry_price = m.entry_price, LeavesRange(m, n.current_price)
  PROVE  WhaleSale(n) \/ Loses(n, StopLoss)
<1> DEFINE e == m.entry_price
           p == n.current_price
           hi == m.highest_price
           lo == m.lowest_price
<1>1. e \in Nat \ {0} /\ p \in Nat \ {0} /\ hi \in Nat /\ lo \in Nat /\ lo <= e /\ e <= hi
  BY DecisionAssumption DEF Metrics, InRange
<1>2. ASSUME NEW tier \in WhaleTiers, 100 * (p - hi) >= tier * hi
      PROVE  WhaleSale(n)
  <2>1. tier \in Nat
    BY DecisionAssumption
  <2>2. tier * e <= tier * hi /\ tier * e \in Nat /\ tier * hi \in Nat
    BY <1>1, <2>1, FactorMonotone
  <2>3. 100 * (p - e) >= tier * e
    BY <1>1, <1>2, <2>2
  <2> QED BY <1>1, <2>3 DEF WhaleSale, Gains
<1>3. ASSUME 100 * (p - lo) <= -StopLoss * lo
      PROVE  Loses(n, StopLoss)
  <2> DEFINE s == StopLoss
  <2>1. s \in Nat
    BY DecisionAssumption
  <2>2. 100 * p + s * lo <= 100 * lo
    <3>1. s * lo \in Nat /\ -StopLoss * lo = -(s * lo)
      BY <1>1, <2>1
    <3> QED BY <1>1, <1>3, <3>1
  <2>3. 100 * p + s * e <= 100 * e
    <3> DEFINE k == e - lo
    <3>1. k \in Nat /\ e = lo + k
      BY <1>1
    <3>2. s * e = s * lo + s * k
      BY <1>1, <2>1, <3>1, Z3
    <3>3. s <= 100
      <4> SUFFICES ASSUME 100 <= s PROVE 100 * p <= 0
        BY <1>1, <2>1
      <4>1. 100 * lo <= s * lo /\ s * lo \in Nat
        BY <1>1, <2>1, FactorMonotone
      <4> QED BY <1>1, <2>2, <4>1
    <3>4. s * k <= 100 * k /\ s * k \in Nat /\ s * lo \in Nat
      BY <1>1, <2>1, <3>1, <3>3, FactorMonotone
    <3> HIDE DEF s, p, lo, e, k
    <3> QED BY <1>1, <2>1, <2>2, <3>1, <3>2, <3>4
  <2>4. 100 * (p - e) <= -StopLoss * e
    <3>1. s * e \in Nat /\ -StopLoss * e = -(s * e)
      BY <1>1, <2>1
    <3> QED BY <1>1, <2>3, <3>1
  <2> QED BY <1>1, <2>4 DEF Loses
<1> QED BY <1>2, <1>3 DEF LeavesRange
-----------------------------------------------------------------------------
(* Steps *)

\* A refresh with a price makes or updates the one record there is.
LEMMA RefreshedMetrics ==
  ASSUME TypeOK, EntryWithinRange, NEW trade \in Trade, trade.price # 0,
         NEW balance \in Amount, NEW l \in Liquidity
  PROVE  \E m \in Metrics :
           /\ InRange(m)
           /\ metrics # {} => metrics = {m}
           /\ metrics = {} => m.entry_price = 0
           /\ Refreshed(trade, balance, l) = {Updated(m, trade, balance, l)}
<1>1. trade.price \in Price
  BY DEF Trade
<1>2. CASE metrics = {}
  <2> DEFINE m == NewMetrics(trade.price, l)
  <2>1. m \in Metrics /\ InRange(m) /\ m.entry_price = 0
    BY <1>1, NewInRange DEF NewMetrics
  <2>2. Refreshed(trade, balance, l) = {Updated(m, trade, balance, l)}
    BY <1>2 DEF Refreshed
  <2> HIDE DEF m
  <2> QED BY <1>2, <2>1, <2>2
<1>3. CASE metrics # {}
  <2>1. PICK m \in metrics : TRUE
    BY <1>3
  <2>2. m \in Metrics /\ metrics = {m} /\ InRange(m)
    BY <2>1 DEF TypeOK, EntryWithinRange, InRange
  <2> QED BY <1>3, <2>2 DEF Refreshed
<1> QED BY <1>2, <1>3

\* With fewer threads blocked the runtime goes on.
LEMMA FewerBlocked ==
  ASSUME pc \in [Handler -> {"idle", "blocked", "evaluate", "reread", "selling"}],
         cleanUpWaits \in BOOLEAN, Running,
         Blocked' \subseteq Blocked, cleanUpWaits' => cleanUpWaits, cleanUpWaits' \in BOOLEAN
  PROVE  Running'
<1>1. IsFiniteSet(Blocked)
  BY DecisionAssumption, FS_Subset DEF Blocked
<1>2. /\ IsFiniteSet(Blocked') /\ Cardinality(Blocked') \in Nat /\ Cardinality(Blocked) \in Nat
      /\ Cardinality(Blocked') <= Cardinality(Blocked)
  BY <1>1, FS_Subset, FS_CardinalityType
<1> QED BY <1>2, DecisionAssumption DEF Running

LEMMA InitDecision == Init => DecisionInv
<1> SUFFICES ASSUME Init PROVE DecisionInv
  OBVIOUS
<1>1. Blocked = {} /\ ~cleanUpWaits
  BY DEF Init, Blocked
<1>2. Running
  BY <1>1, FS_EmptySet, DecisionAssumption DEF Running
<1> QED BY <1>2 DEF Init, DecisionInv, TypeOK, EntryWithinRange, UnbookedIsIdle, EntryIsBooked,
             HoldIsSeen, LeftIsSellable, RereadIsWhale, GuardIsOvertaken, StuckHasGuard, Guards

\* What a refresh leaves are metrics of the type, and in the range.
LEMMA RefreshedTyping ==
  ASSUME TypeOK, EntryWithinRange, NEW trade \in Trade, trade.price # 0,
         NEW balance \in Amount, NEW l \in Liquidity, metrics' = Refreshed(trade, balance, l)
  PROVE  /\ metrics' \subseteq Metrics /\ \A m, n \in metrics' : m = n
         /\ \A m \in metrics' : \E p \in Price : m.entry_price <= p
         /\ EntryWithinRange'
<1>1. PICK m \in Metrics : InRange(m) /\ metrics' = {Updated(m, trade, balance, l)}
  BY RefreshedMetrics
<1> DEFINE n == Updated(m, trade, balance, l)
<1>2. n \in Metrics /\ InRange(n)
  BY <1>1, UpdatedInRange
<1>3. n.highest_price \in Price /\ n.entry_price \in Nat /\ n.highest_price \in Nat
  BY <1>2, DecisionAssumption DEF Metrics
<1> HIDE DEF n
<1>4. n.entry_price <= n.highest_price
  BY <1>2, <1>3 DEF InRange
<1>5. metrics' = {n}
  BY <1>1 DEF n
<1> QED BY <1>2, <1>3, <1>4, <1>5 DEF EntryWithinRange, InRange

\* A trade that has a price.
LEMMA PricedTrade ==
  ASSUME NEW trade \in Trade, trade.price > 0
  PROVE  trade.price \in Price /\ trade.price \in Nat /\ trade.price # 0
<1>1. trade.price \in Price \cup {0}
  <2>1. CASE trade \in [is_buy : {TRUE}, price : Price \cup {0}, tokens : Amount]
    BY <2>1, Zenon
  <2>2. CASE trade \in [is_buy : {FALSE}, price : Price \cup {0}, tokens : {0}]
    BY <2>2
  <2> QED BY <2>1, <2>2 DEF Trade
<1>2. Price \subseteq Nat
  BY DecisionAssumption
<1>3. trade.price # 0
  OBVIOUS
<1> QED BY <1>1, <1>2, <1>3

LEMMA BookBuyKeeps ==
  ASSUME DecisionInv, NEW trade \in Trade, NEW balance \in Amount, NEW l \in Liquidity,
         BookBuy(trade, balance, l)
  PROVE  DecisionInv'
<1>1. /\ trade.price \in Price /\ trade.price \in Nat /\ trade.price # 0
      /\ boughtAt' = trade.price /\ metrics' = Refreshed(trade, balance, l)
      /\ UNCHANGED <<pc, cleanUpWaits, moved, left, overtaken, last>>
  BY PricedTrade DEF BookBuy, handlerVars
<1>2. /\ metrics = {} /\ last = "none" /\ \A h \in Handler : pc[h] = "idle"
  BY DEF DecisionInv, UnbookedIsIdle, BookBuy
<1>3. /\ metrics' \subseteq Metrics /\ \A m, n \in metrics' : m = n
      /\ \A m \in metrics' : \E p \in Price : m.entry_price <= p
      /\ EntryWithinRange'
  BY <1>1, RefreshedTyping DEF DecisionInv
<1>4. TypeOK'
  BY <1>1, <1>3 DEF DecisionInv, TypeOK
<1>5. EntryIsBooked'
  <2>1. PICK m \in Metrics : m.entry_price = 0 /\ metrics' = {Updated(m, trade, balance, l)}
                              /\ InRange(m)
    BY <1>1, <1>2, RefreshedMetrics DEF DecisionInv
  <2>2. Updated(m, trade, balance, l).entry_price = EntryAfter(m, trade)
    BY <1>1, <2>1, UpdatedInRange
  <2>3. EntryAfter(m, trade) \in {0, trade.price}
    BY <2>1 DEF EntryAfter
  <2> QED BY <1>1, <2>1, <2>2, <2>3 DEF EntryIsBooked
<1>6. UnbookedIsIdle' /\ HoldIsSeen'
  BY <1>1, <1>2 DEF UnbookedIsIdle, HoldIsSeen
<1>7. LeftIsSellable' /\ RereadIsWhale'
  BY <1>1, <1>2 DEF LeftIsSellable, RereadIsWhale, DecisionInv, TypeOK
<1>8. GuardIsOvertaken' /\ StuckHasGuard'
  BY <1>1 DEF GuardIsOvertaken, StuckHasGuard, Guards, Running, Blocked, DecisionInv
<1> QED BY <1>3, <1>4, <1>5, <1>6, <1>7, <1>8 DEF DecisionInv

\* No handler is stuck after a step without guards, or with one more.
LEMMA NextStuckHasGuard ==
  ASSUME DecisionInv, pc' \in [Handler -> {"idle", "blocked", "evaluate", "reread", "selling"}],
         cleanUpWaits' \in BOOLEAN,
         \/ Guards' # {}
         \/ Running /\ Blocked' \subseteq Blocked /\ (cleanUpWaits' => cleanUpWaits)
  PROVE  StuckHasGuard'
<1>1. CASE Guards' # {}
  BY <1>1 DEF StuckHasGuard
<1>2. CASE Running /\ Blocked' \subseteq Blocked /\ (cleanUpWaits' => cleanUpWaits)
  <2>1. Running'
    BY <1>2, FewerBlocked DEF DecisionInv, TypeOK
  <2> QED BY <2>1 DEF StuckHasGuard
<1> QED BY <1>1, <1>2

LEMMA RefreshKeeps ==
  ASSUME DecisionInv, NEW h \in Handler, NEW trade \in Trade, NEW balance \in Amount,
         NEW l \in Liquidity, Refresh(h, trade, balance, l)
  PROVE  DecisionInv'
<1>1. /\ trade.price \in Price /\ trade.price \in Nat /\ trade.price # 0
      /\ boughtAt # 0 /\ boughtAt' = boughtAt /\ metrics' = Refreshed(trade, balance, l)
      /\ Guards = {} /\ pc' = [pc EXCEPT ![h] = "evaluate"] /\ cleanUpWaits' = cleanUpWaits
      /\ moved' = (moved \/ \E m \in metrics', n \in metrics : m.entry_price # n.entry_price)
      /\ left' = IF Leaves(trade) THEN left \cup {h} ELSE left \ {h}
      /\ overtaken' = Looking /\ last' = "none"
  <2>1. trade.price > 0
    BY DEF Refresh
  <2>2. trade.price \in Price /\ trade.price \in Nat /\ trade.price # 0
    BY <2>1, PricedTrade
  <2> QED BY <2>2 DEF Refresh, Goto
<1>2. TypeOK /\ pc \in [Handler -> {"idle", "blocked", "evaluate", "reread", "selling"}]
  BY DEF DecisionInv, TypeOK
<1>3. /\ metrics' \subseteq Metrics /\ \A m, n \in metrics' : m = n
      /\ \A m \in metrics' : \E p \in Price : m.entry_price <= p
      /\ EntryWithinRange'
  BY <1>1, RefreshedTyping DEF DecisionInv
<1>4. TypeOK'
  <2>1. moved' \in BOOLEAN /\ left' \subseteq Handler /\ overtaken' \subseteq Handler
    BY <1>1, <1>2 DEF TypeOK, Looking
  <2>2. pc' \in [Handler -> {"idle", "blocked", "evaluate", "reread", "selling"}]
    BY <1>1, <1>2
  <2> QED BY <1>1, <1>2, <1>3, <2>1, <2>2 DEF TypeOK
<1>5. PICK m \in Metrics : /\ InRange(m) /\ (metrics # {} => metrics = {m})
                           /\ (metrics = {} => m.entry_price = 0)
                           /\ metrics' = {Updated(m, trade, balance, l)}
  BY <1>1, <1>2, RefreshedMetrics DEF DecisionInv
<1>6. /\ Updated(m, trade, balance, l) \in Metrics
      /\ Updated(m, trade, balance, l).entry_price = EntryAfter(m, trade)
      /\ Updated(m, trade, balance, l).current_price = trade.price
  BY <1>1, <1>5, UpdatedInRange
<1> DEFINE u == Updated(m, trade, balance, l)
<1> HIDE DEF u
<1>7. EntryIsBooked'
  <2> SUFFICES ASSUME ~moved' PROVE u.entry_price \in {0, boughtAt}
    BY <1>1, <1>5 DEF EntryIsBooked, u
  <2>1. metrics = {m} /\ metrics' = {u} /\ m.entry_price \in {0, boughtAt}
    BY <1>1, <1>5 DEF EntryIsBooked, DecisionInv, u
  <2> QED BY <1>1, <2>1
<1>8. UnbookedIsIdle' /\ HoldIsSeen'
  BY <1>1 DEF UnbookedIsIdle, HoldIsSeen
<1>9. \A g \in Handler : /\ pc'[g] = "reread" => g \in Looking
                         /\ pc'[g] = "evaluate" => g = h \/ g \in Looking
                         /\ pc'[g] # "selling"
  BY <1>1, <1>2 DEF Looking, Guards
<1>10. LeftIsSellable'
  <2> SUFFICES ASSUME NEW g \in left' \ overtaken', pc'[g] = "evaluate"
               PROVE  WhaleSale(u) \/ Loses(u, StopLoss)
    BY <1>5 DEF LeftIsSellable, u
  <2>1. g = h /\ Leaves(trade)
    BY <1>1, <1>2, <1>9 DEF TypeOK
  <2>2. ~trade.is_buy /\ m.entry_price # 0 /\ LeavesRange(m, trade.price)
    BY <1>5, <2>1 DEF Leaves
  <2>3. u \in Metrics /\ u.entry_price = m.entry_price /\ u.current_price = trade.price
    BY <1>6, <2>2 DEF EntryAfter, u
  <2> QED BY <1>5, <2>2, <2>3, LeavingIsSellable
<1>11. RereadIsWhale' /\ GuardIsOvertaken'
  BY <1>1, <1>9 DEF RereadIsWhale, GuardIsOvertaken, Guards
<1>12. StuckHasGuard'
  <2>1. Blocked' \subseteq Blocked
    BY <1>1, <1>2 DEF Blocked
  <2>2. Running
    BY <1>1 DEF DecisionInv, StuckHasGuard
  <2> QED BY <1>1, <1>4, <2>1, <2>2, NextStuckHasGuard DEF TypeOK
<1> QED BY <1>3, <1>4, <1>7, <1>8, <1>10, <1>11, <1>12 DEF DecisionInv

\* The steps of a handler that leave the metrics and their histories alone.
LEMMA QuietStepKeeps ==
  ASSUME DecisionInv, NEW h \in Handler, boughtAt # 0,
         RefreshErr(h) \/ RefreshBlocks(h) \/ SaleReturns(h) \/ Reread(h)
  PROVE  DecisionInv'
<1>1. /\ TypeOK /\ pc \in [Handler -> {"idle", "blocked", "evaluate", "reread", "selling"}]
      /\ cleanUpWaits' = cleanUpWaits
      /\ UNCHANGED <<metrics, boughtAt, moved, overtaken, last>>
      /\ left' \subseteq left
      /\ \E state \in {"idle", "blocked", "evaluate", "selling"} : pc' = [pc EXCEPT ![h] = state]
  BY DEF DecisionInv, TypeOK, RefreshErr, RefreshBlocks, SaleReturns, Reread, AfterReread, Goto
<1>2. /\ \A g \in Handler \ {h} : pc'[g] = pc[g]
      /\ pc'[h] = "evaluate" => h \notin left'
      /\ pc'[h] = "selling" => h \in overtaken
      /\ pc'[h] # "reread"
      /\ pc'[h] = "blocked" => Guards # {}
  <2>1. CASE RefreshErr(h) \/ RefreshBlocks(h) \/ SaleReturns(h)
    BY <1>1, <2>1 DEF RefreshErr, RefreshBlocks, SaleReturns, Goto
  <2>2. CASE Reread(h)
    <3>1. pc[h] = "reread" /\ pc' = [pc EXCEPT ![h] = AfterReread(metrics)]
      BY <2>2 DEF Reread, Goto
    <3>2. h \notin overtaken => AfterReread(metrics) = "idle"
      BY <1>1, <3>1 DEF DecisionInv, RereadIsWhale, TypeOK, AfterReread
    <3>3. AfterReread(metrics) \in {"idle", "selling"}
      BY DEF AfterReread
    <3> QED BY <1>1, <3>1, <3>2, <3>3
  <2> QED BY <2>1, <2>2
<1>3. TypeOK' /\ EntryWithinRange' /\ EntryIsBooked' /\ HoldIsSeen'
  BY <1>1 DEF DecisionInv, TypeOK, EntryWithinRange, EntryIsBooked, HoldIsSeen
<1>4. UnbookedIsIdle'
  BY <1>1 DEF UnbookedIsIdle
<1>5. LeftIsSellable' /\ RereadIsWhale'
  BY <1>1, <1>2 DEF LeftIsSellable, RereadIsWhale, DecisionInv, TypeOK
<1>6. GuardIsOvertaken'
  BY <1>1, <1>2 DEF GuardIsOvertaken, Guards, DecisionInv
<1>7. StuckHasGuard'
  <2>1. Running
    BY DEF RefreshErr, RefreshBlocks, SaleReturns, Reread
  <2>2. CASE pc'[h] = "blocked"
    <3>1. PICK g \in Guards : TRUE
      BY <1>2, <2>2
    <3>2. g \in Guards'
      <4>1. pc[h] # "selling"
        BY <1>1, <2>2 DEF RefreshErr, RefreshBlocks, SaleReturns, Reread, Goto, AfterReread
      <4> QED BY <1>2, <4>1 DEF Guards
    <3> QED BY <1>1, <1>3, <3>2, NextStuckHasGuard DEF TypeOK
  <2>3. CASE pc'[h] # "blocked"
    <3>1. Blocked' \subseteq Blocked
      BY <1>2, <2>3 DEF Blocked
    <3> QED BY <1>1, <1>3, <2>1, <3>1, NextStuckHasGuard DEF TypeOK
  <2> QED BY <2>2, <2>3
<1> QED BY <1>3, <1>4, <1>5, <1>6, <1>7 DEF DecisionInv

\* What the three verdicts say of the metrics.
LEMMA Verdicts ==
  ASSUME TypeOK
  PROVE  /\ Verdict(metrics) \in {"whale", "regular", "hold"}
         /\ Verdict(metrics) = "hold" => \A m \in metrics : ~WhaleSale(m) /\ ~RegularSale(m)
         /\ Verdict(metrics) = "whale" => \E m \in metrics : WhaleSale(m)
BY DEF Verdict

LEMMA EvaluateKeeps ==
  ASSUME DecisionInv, NEW h \in Handler, Evaluate(h)
  PROVE  DecisionInv'
<1>1. /\ TypeOK /\ pc \in [Handler -> {"idle", "blocked", "evaluate", "reread", "selling"}]
      /\ cleanUpWaits' = cleanUpWaits /\ UNCHANGED <<metrics, boughtAt, moved>>
      /\ last' = Verdict(metrics) /\ pc[h] = "evaluate" /\ Running
      /\ pc' = [pc EXCEPT ![h] = IF last' = "whale" THEN "reread" ELSE "idle"]
      /\ left' = left \ {h} /\ overtaken' = overtaken \ {h}
  BY DEF DecisionInv, TypeOK, Evaluate, Goto
<1>2. /\ \A g \in Handler \ {h} : pc'[g] = pc[g]
      /\ pc'[h] \in {"reread", "idle"}
      /\ pc'[h] = "reread" => \E m \in metrics : WhaleSale(m)
  BY <1>1, Verdicts
<1>3. TypeOK'
  <2>1. last' \in {"none", "hold", "whale", "regular"}
    BY <1>1, Verdicts
  <2>2. pc' \in [Handler -> {"idle", "blocked", "evaluate", "reread", "selling"}]
    BY <1>1
  <2> QED BY <1>1, <2>1, <2>2 DEF TypeOK
<1>4. EntryWithinRange' /\ EntryIsBooked'
  BY <1>1 DEF DecisionInv, EntryWithinRange, EntryIsBooked
<1>5. HoldIsSeen'
  BY <1>1, Verdicts DEF HoldIsSeen, WhaleSale, RegularSale
<1>6. UnbookedIsIdle'
  BY <1>1 DEF UnbookedIsIdle, DecisionInv
<1>7. LeftIsSellable'
  BY <1>1, <1>2 DEF LeftIsSellable, DecisionInv, TypeOK
<1>8. RereadIsWhale'
  BY <1>1, <1>2 DEF RereadIsWhale, DecisionInv
<1>9. GuardIsOvertaken'
  BY <1>1, <1>2 DEF GuardIsOvertaken, Guards, DecisionInv
<1>10. StuckHasGuard'
  <2>1. Blocked' \subseteq Blocked
    BY <1>2 DEF Blocked
  <2> QED BY <1>1, <1>3, <2>1, NextStuckHasGuard DEF TypeOK
<1> QED BY <1>3, <1>4, <1>5, <1>6, <1>7, <1>8, <1>9, <1>10 DEF DecisionInv

\* Time passes, or a cleanup waits or is done.
LEMMA OtherStepKeeps ==
  ASSUME DecisionInv, HoldTimePasses \/ CleanUp \/ CleanUpBlocks
  PROVE  DecisionInv'
<1>0. TypeOK /\ pc \in [Handler -> {"idle", "blocked", "evaluate", "reread", "selling"}]
  BY DEF DecisionInv, TypeOK
<1>1. CASE HoldTimePasses
  <2>1. PICK m \in Metrics : metrics = {m} /\ InRange(m)
    BY <1>1 DEF DecisionInv, HoldTimePasses, TypeOK, EntryWithinRange, InRange
  <2> DEFINE n == [m EXCEPT !.overdue = TRUE]
  <2>2. /\ metrics' = {n} /\ last' = "none"
        /\ UNCHANGED <<pc, cleanUpWaits, boughtAt, moved, left, overtaken>>
    BY <1>1, <2>1 DEF HoldTimePasses, handlerVars
  <2>3. /\ n \in Metrics /\ n.entry_price = m.entry_price /\ n.current_price = m.current_price
        /\ n.lowest_price = m.lowest_price /\ n.highest_price = m.highest_price
    BY DEF Metrics
  <2> HIDE DEF n
  <2>4. TypeOK'
    BY <1>0, <2>1, <2>2, <2>3 DEF TypeOK
  <2>5. EntryWithinRange' /\ EntryIsBooked'
    BY <2>1, <2>2, <2>3 DEF DecisionInv, EntryWithinRange, EntryIsBooked
  <2>6. UnbookedIsIdle' /\ HoldIsSeen'
    BY <2>1, <2>2 DEF DecisionInv, UnbookedIsIdle, HoldIsSeen
  <2>7. /\ WhaleSale(m) => WhaleSale(n)
        /\ Loses(m, StopLoss) => Loses(n, StopLoss)
    BY <2>3 DEF WhaleSale, Gains, Loses
  <2>8. LeftIsSellable' /\ RereadIsWhale'
    BY <2>1, <2>2, <2>7 DEF DecisionInv, LeftIsSellable, RereadIsWhale
  <2>9. GuardIsOvertaken' /\ StuckHasGuard'
    BY <2>2 DEF DecisionInv, GuardIsOvertaken, StuckHasGuard, Guards, Running, Blocked
  <2> QED BY <2>4, <2>5, <2>6, <2>8, <2>9 DEF DecisionInv
<1>2. CASE CleanUp
  <2>1. /\ metrics' = {} /\ ~cleanUpWaits' /\ cleanUpWaits' \in BOOLEAN
        /\ moved' = TRUE /\ last' = "none"
        /\ overtaken' = Looking /\ UNCHANGED <<pc, boughtAt, left>> /\ Guards = {}
    BY <1>2 DEF CleanUp
  <2>2. TypeOK'
    BY <1>0, <2>1 DEF TypeOK, Looking
  <2>3. EntryWithinRange' /\ EntryIsBooked' /\ HoldIsSeen' /\ UnbookedIsIdle'
    BY <2>1 DEF DecisionInv, EntryWithinRange, EntryIsBooked, HoldIsSeen, UnbookedIsIdle
  <2>4. LeftIsSellable' /\ RereadIsWhale' /\ GuardIsOvertaken'
    BY <1>0, <2>1 DEF LeftIsSellable, RereadIsWhale, GuardIsOvertaken, Guards, Looking, TypeOK
  <2>5. StuckHasGuard'
    <3>1. Running /\ Blocked' = Blocked
      BY <2>1 DEF DecisionInv, StuckHasGuard, Blocked
    <3> QED BY <1>0, <2>1, <3>1, NextStuckHasGuard
  <2> QED BY <2>2, <2>3, <2>4, <2>5 DEF DecisionInv
<1>3. CASE CleanUpBlocks
  <2>1. /\ cleanUpWaits' = TRUE /\ Guards # {}
        /\ UNCHANGED <<metrics, pc, boughtAt, moved, left, overtaken, last>>
    BY <1>3 DEF CleanUpBlocks
  <2>2. TypeOK'
    BY <1>0, <2>1 DEF TypeOK
  <2>3. EntryWithinRange' /\ EntryIsBooked' /\ HoldIsSeen' /\ UnbookedIsIdle'
    BY <2>1 DEF DecisionInv, EntryWithinRange, EntryIsBooked, HoldIsSeen, UnbookedIsIdle
  <2>4. LeftIsSellable' /\ RereadIsWhale' /\ GuardIsOvertaken' /\ StuckHasGuard'
    BY <2>1 DEF DecisionInv, LeftIsSellable, RereadIsWhale, GuardIsOvertaken, StuckHasGuard, Guards
  <2> QED BY <2>2, <2>3, <2>4 DEF DecisionInv
<1> QED BY <1>1, <1>2, <1>3

LEMMA StepDecision == DecisionInv /\ [Next]_vars => DecisionInv'
<1> SUFFICES ASSUME DecisionInv, [Next]_vars PROVE DecisionInv'
  OBVIOUS
<1>1. ASSUME NEW trade \in Trade, NEW balance \in Amount, NEW l \in Liquidity,
             BookBuy(trade, balance, l)
      PROVE  DecisionInv'
  BY <1>1, BookBuyKeeps
<1>2. ASSUME NEW h \in Handler, HandlerStep(h)
      PROVE  DecisionInv'
  <2>1. CASE \E trade \in Trade, balance \in Amount, l \in Liquidity : Refresh(h, trade, balance, l)
    BY <2>1, RefreshKeeps
  <2>2. CASE Evaluate(h)
    BY <2>2, EvaluateKeeps
  <2>3. CASE RefreshErr(h) \/ RefreshBlocks(h) \/ SaleReturns(h) \/ Reread(h)
    <3>1. boughtAt # 0
      <4>1. pc[h] # "idle" \/ Guards # {} \/ RefreshErr(h)
        BY <2>3 DEF RefreshBlocks, SaleReturns, Reread
      <4>2. CASE RefreshErr(h)
        BY <4>2 DEF RefreshErr
      <4>3. CASE pc[h] # "idle" \/ Guards # {}
        BY <4>3 DEF DecisionInv, UnbookedIsIdle, Guards
      <4> QED BY <4>1, <4>2, <4>3
    <3> QED BY <2>3, <3>1, QuietStepKeeps
  <2> QED BY <1>2, <2>1, <2>2, <2>3 DEF HandlerStep
<1>3. CASE HoldTimePasses \/ CleanUp \/ CleanUpBlocks
  BY <1>3, OtherStepKeeps
<1>4. CASE UNCHANGED vars
  BY <1>4 DEF vars, handlerVars, DecisionInv, TypeOK, EntryWithinRange, UnbookedIsIdle, EntryIsBooked,
     HoldIsSeen, LeftIsSellable, RereadIsWhale, GuardIsOvertaken, StuckHasGuard, Guards, Running, Blocked
<1> QED BY <1>1, <1>2, <1>3, <1>4 DEF Next
-----------------------------------------------------------------------------
(* Theorems *)

\* The inductive invariant: the entry price is in the range and moved only by
\* others' buys and cleanups, and a handler nobody overtook finds the metrics as
\* it left them (fr_handle_parsed_data_for_selling).
THEOREM DecisionInvariant == Spec => []DecisionInv
BY InitDecision, StepDecision, PTL DEF Spec

\* Type correctness: one record of metrics at most, its prices within Price.
THEOREM DecisionTyping == Spec => []TypeOK
<1>1. DecisionInv => TypeOK
  BY DEF DecisionInv
<1> QED BY <1>1, DecisionInvariant, PTL

\* The weighted average of fr_refresh_metrics never leaves the range of prices
\* the token was traded at, whatever the amounts and balances.
THEOREM EntryStays == Spec => []EntryWithinRange
<1>1. DecisionInv => EntryWithinRange
  BY DEF DecisionInv
<1> QED BY <1>1, DecisionInvariant, PTL

\* A stop loss measured from the price of our buy is passed over only when the
\* entry price was moved.
THEOREM LossHeld == Spec => []LossHeldOnlyIfMoved
<1>1. DecisionInv => LossHeldOnlyIfMoved
  <2> SUFFICES ASSUME DecisionInv, NEW m \in metrics, last = "hold",
                      100 * (m.current_price - boughtAt) <= -StopLoss * boughtAt,
                      ~moved, m.entry_price # 0
               PROVE  FALSE
    BY DEF LossHeldOnlyIfMoved
  <2>1. m.entry_price = boughtAt /\ m.entry_price \in Nat
    BY DEF DecisionInv, EntryIsBooked, TypeOK, Metrics
  <2>2. Loses(m, StopLoss)
    BY <2>1 DEF Loses
  <2>3. ~RegularSale(m)
    BY DEF DecisionInv, HoldIsSeen
  <2> QED BY <2>2, <2>3 DEF RegularSale
<1> QED BY <1>1, DecisionInvariant, PTL

\* The runtime is stuck on the metrics only after a whale verdict that another
\* task overtook.
THEOREM NotStuck == Spec => []StuckOnlyIfOvertaken
<1>1. DecisionInv => StuckOnlyIfOvertaken
  BY DEF DecisionInv, StuckHasGuard, GuardIsOvertaken, StuckOnlyIfOvertaken
<1> QED BY <1>1, DecisionInvariant, PTL

\* A handler whose trade left the range of prices sells, unless overtaken.
THEOREM LeftRangeIsSold == Spec => RangeLeftIsSold
<1>1. DecisionInv /\ [Next]_vars =>
        [\A h \in left \ overtaken : pc[h] = "evaluate" /\ pc'[h] # "evaluate" => last' # "hold"]_vars
  <2> SUFFICES ASSUME DecisionInv, [Next]_vars, NEW h \in left \ overtaken,
                      pc[h] = "evaluate", pc'[h] # "evaluate"
               PROVE  last' # "hold"
    OBVIOUS
  <2>1. h \in Handler /\ pc \in [Handler -> {"idle", "blocked", "evaluate", "reread", "selling"}]
    BY DEF DecisionInv, TypeOK
  <2>2. PICK m \in metrics : WhaleSale(m) \/ Loses(m, StopLoss)
    BY DEF DecisionInv, LeftIsSellable
  <2>3. Verdict(metrics) # "hold"
    BY <2>2, Verdicts DEF DecisionInv, RegularSale
  <2>4. Evaluate(h)
    <3>1. pc' # pc
      OBVIOUS
    <3>2. PICK g \in Handler : HandlerStep(g)
      BY <3>1 DEF Next, vars, handlerVars, BookBuy, HoldTimePasses, CleanUp, CleanUpBlocks
    <3>3. \E state : pc' = [pc EXCEPT ![g] = state]
      BY <3>2, Zenon DEF HandlerStep, Refresh, RefreshErr, RefreshBlocks, Evaluate, Reread, SaleReturns,
         Goto
    <3>4. g = h
      BY <2>1, <3>3
    <3> QED BY <2>1, <3>2, <3>4 DEF HandlerStep, Refresh, RefreshErr, RefreshBlocks, Reread,
               SaleReturns, Goto
  <2> QED BY <2>3, <2>4 DEF Evaluate
<1> QED BY <1>1, DecisionInvariant, PTL DEF Spec, RangeLeftIsSold
=============================================================================
