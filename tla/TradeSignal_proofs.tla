--------------------------- MODULE TradeSignal_proofs ---------------------------
(***************************************************************************)
(* That the prices the program computes keep the order of the pool's, and  *)
(* show no loss the pool does not have, in saturating integer arithmetic   *)
(* of any width and whatever is deposited and withdrawn, but where the     *)
(* price is saturated and the pool has grown.                              *)
(***************************************************************************)
EXTENDS TradeSignal, TLAPS

-----------------------------------------------------------------------------
(* Arithmetic *)

\* Multiplication by a natural number keeps the order.
LEMMA MulMonotone ==
  ASSUME NEW a \in Nat, NEW b \in Nat, NEW c \in Nat, a <= b
  PROVE  a * c <= b * c /\ c * a <= c * b
BY Z3

\* Division rounds down.
LEMMA DivBounds ==
  ASSUME NEW n \in Nat, NEW d \in Nat \ {0}
  PROVE  /\ n \div d \in Nat
         /\ (n \div d) * d <= n
         /\ n < (n \div d + 1) * d
BY Z3

\* Products can be compared factor by factor.
LEMMA MulCancel ==
  ASSUME NEW a \in Nat, NEW b \in Nat, NEW c \in Nat, c * a < c * b
  PROVE  a < b
<1> SUFFICES ASSUME b <= a PROVE FALSE
  OBVIOUS
<1> QED BY MulMonotone

\* A quotient grows with its numerator and falls with its denominator.
LEMMA DivMonotone ==
  ASSUME NEW a \in Nat, NEW b \in Nat, NEW c \in Nat \ {0}, NEW d \in Nat \ {0},
         a <= b, d <= c
  PROVE  a \div c <= b \div d
<1> DEFINE q == a \div c
           r == b \div d
<1>1. q \in Nat /\ q * c <= a
  BY DivBounds
<1>2. r \in Nat /\ b < (r + 1) * d
  BY DivBounds
<1>3. q * d <= q * c
  BY <1>1, MulMonotone
<1>4. q * d < (r + 1) * d /\ q * d \in Nat /\ (r + 1) * d \in Nat
  BY <1>1, <1>2, <1>3
<1> HIDE DEF q, r
<1>5. d * q < d * (r + 1)
  BY <1>1, <1>2, <1>4
<1>6. q < r + 1
  BY <1>1, <1>2, <1>5, MulCancel
<1> QED BY <1>1, <1>2, <1>6 DEF q, r

\* If the quotient Y/u, rounded up, is at most r percent of X/t, rounded down,
\* then so it is before rounding.
LEMMA QuotientLoss ==
  ASSUME NEW X \in Nat, NEW Y \in Nat, NEW t \in Nat \ {0}, NEW u \in Nat \ {0}, NEW r \in Nat,
         100 * (Y \div u + 1) <= r * (X \div t)
  PROVE  100 * (Y * t) < r * (X * u)
<1> DEFINE A == X \div t
           B == Y \div u
<1>1. A \in Nat /\ A * t <= X
  BY DivBounds
<1>2. B \in Nat /\ Y < (B + 1) * u
  BY DivBounds
<1>3. 100 * (B + 1) <= r * A
  OBVIOUS
<1> HIDE DEF A, B
<1>4. Y * t < ((B + 1) * u) * t
  BY <1>2
<1>5. (100 * (B + 1)) * (u * t) <= (r * A) * (u * t)
  BY <1>1, <1>2, <1>3, MulMonotone
<1>6. (r * u) * (A * t) <= (r * u) * X
  BY <1>1, MulMonotone
<1>7. 100 * (Y * t) < (100 * (B + 1)) * (u * t)
  BY <1>2, <1>4
<1>8. (r * A) * (u * t) = (r * u) * (A * t)
  BY <1>1
<1>9. (r * u) * X = r * (X * u)
  OBVIOUS
<1> QED BY <1>1, <1>2, <1>5, <1>6, <1>7, <1>8, <1>9

\* If Y/u is at most r percent of X/t, then so it is after rounding, but for a unit.
LEMMA QuotientFall ==
  ASSUME NEW X \in Nat, NEW Y \in Nat, NEW t \in Nat \ {0}, NEW u \in Nat \ {0}, NEW r \in Nat,
         100 * (Y * t) <= r * (X * u)
  PROVE  100 * (Y \div u) <= r * (X \div t + 1)
<1> DEFINE A == X \div t
           B == Y \div u
<1>1. A \in Nat /\ X < (A + 1) * t
  BY DivBounds
<1>2. B \in Nat /\ B * u <= Y
  BY DivBounds
<1> SUFFICES ASSUME r * (A + 1) < 100 * B PROVE FALSE
  BY <1>1, <1>2
<1> HIDE DEF A, B
<1>3. r * (X * u) <= r * (((A + 1) * t) * u)
  <2>1. X * u <= ((A + 1) * t) * u
    BY <1>1, MulMonotone
  <2> QED BY <1>1, <2>1, MulMonotone
<1>4. 100 * ((B * u) * t) <= 100 * (Y * t)
  <2>1. (B * u) * t <= Y * t
    BY <1>2, MulMonotone
  <2> QED BY <1>2, <2>1
<1>5. r * (((A + 1) * t) * u) = (u * t) * (r * (A + 1)) /\ 100 * ((B * u) * t) = (u * t) * (100 * B)
  BY <1>1, <1>2
<1>6. (u * t) * (r * (A + 1) + 1) <= (u * t) * (100 * B)
  <2>1. r * (A + 1) + 1 <= 100 * B /\ r * (A + 1) + 1 \in Nat /\ 100 * B \in Nat /\ u * t \in Nat
    BY <1>1, <1>2
  <2> QED BY <2>1, MulMonotone
<1>7. (u * t) * (r * (A + 1) + 1) = (u * t) * (r * (A + 1)) + u * t
  BY <1>1
<1>8. u * t \in Nat /\ u * t > 0
  OBVIOUS
<1> QED BY <1>1, <1>2, <1>3, <1>4, <1>5, <1>6, <1>7, <1>8
-----------------------------------------------------------------------------
(* The parser's arithmetic *)

\* A price is a u64; more SOL or fewer tokens never lower it.
LEMMA RatioMonotone ==
  ASSUME NEW s \in Nat, NEW z \in Nat, NEW t \in Nat \ {0}, NEW u \in Nat \ {0}, s <= z, u <= t
  PROVE  /\ Ratio(s, t) <= Ratio(z, u)
         /\ FloatRatio(s, t) <= FloatRatio(z, u)
         /\ Saturated(FloatRatio(s, t)) <= Saturated(FloatRatio(z, u))
<1>1. s * LAMPORTS \in Nat /\ z * LAMPORTS \in Nat /\ s * LAMPORTS <= z * LAMPORTS
  BY MulMonotone, DecodingAssumption
<1>2. /\ Saturated(s * LAMPORTS) \in Nat /\ Saturated(z * LAMPORTS) \in Nat
      /\ Saturated(s * LAMPORTS) <= Saturated(z * LAMPORTS)
  BY <1>1, DecodingAssumption DEF Saturated
<1>3. Ratio(s, t) <= Ratio(z, u)
  BY <1>2, DivMonotone DEF Ratio, SaturatingMul
<1>4. FloatRatio(s, t) <= FloatRatio(z, u)
  <2>1. (s * LAMPORTS) \div t <= (z * LAMPORTS) \div u
    BY <1>1, DivMonotone
  <2> QED BY <2>1 DEF FloatRatio
<1>5. FloatRatio(s, t) \in Nat /\ FloatRatio(z, u) \in Nat
  BY <1>1, DivBounds DEF FloatRatio
<1> QED BY <1>3, <1>4, <1>5, DecodingAssumption DEF Saturated

\* Prices are natural numbers, and those of the parser fit a u64.
LEMMA RatioTyped ==
  ASSUME NEW s \in Nat, NEW t \in Nat
  PROVE  /\ Ratio(s, t) \in Nat /\ Ratio(s, t) <= U64MAX
         /\ FloatRatio(s, t) \in Nat
         /\ Saturated(FloatRatio(s, t)) \in Nat /\ Saturated(FloatRatio(s, t)) <= U64MAX
<1>1. s * LAMPORTS \in Nat
  BY DecodingAssumption
<1>2. Saturated(s * LAMPORTS) \in Nat /\ Saturated(s * LAMPORTS) <= U64MAX
  BY <1>1, DecodingAssumption DEF Saturated
<1>3. ASSUME NEW n \in Nat, NEW d \in Nat \ {0} PROVE n \div d \in Nat /\ n \div d <= n
  <2>1. n \div d \in Nat /\ (n \div d) * d <= n
    BY DivBounds
  <2>2. (n \div d) * 1 <= (n \div d) * d
    BY <2>1, MulMonotone, 1 <= d
  <2>3. (n \div d) * 1 = n \div d
    BY <2>1
  <2> QED BY <2>1, <2>2, <2>3
<1>4. Ratio(s, t) \in Nat /\ Ratio(s, t) <= U64MAX
  BY <1>2, <1>3, DecodingAssumption DEF Ratio, SaturatingMul
<1>5. FloatRatio(s, t) \in Nat
  BY <1>1, <1>3 DEF FloatRatio
<1> QED BY <1>4, <1>5, DecodingAssumption DEF Saturated
-----------------------------------------------------------------------------
(* What a trade is decoded as *)

\* The price of a pool at p, of depth d, as the parser computes it, and as the
\* metrics do.
ParserPrice(p, d) ==
  CASE kind = "reverse"   -> Ratio(Tok(p) * d, Sol(p) * d)
    [] kind = "launchpad" -> Saturated(FloatRatio(Sol(p), Tok(p)))
    [] kind = "pumpfun"   -> Ratio(Sol(p), Tok(p))
    [] OTHER              -> Ratio(Sol(p) * d, Tok(p) * d)

PoolMetrics(p, d) == IF kind = "pumpfun" THEN FloatRatio(Sol(p), Tok(p)) ELSE ParserPrice(p, d)

\* Reserves are positive, and a later position has more SOL and fewer tokens.
LEMMA CurveFacts ==
  ASSUME NEW p \in DOMAIN Curve
  PROVE  /\ Sol(p) \in Nat \ {0} /\ Tok(p) \in Nat \ {0} /\ p \in Nat
         /\ Sol(1) \in Nat \ {0} /\ Tok(1) \in Nat \ {0}
         /\ \A q \in DOMAIN Curve : p < q => Sol(p) < Sol(q) /\ Tok(p) > Tok(q)
<1>1. Curve[p] \in (Nat \ {0}) \X (Nat \ {0}) /\ 1 \in DOMAIN Curve /\ p \in Nat
  BY SignalAssumption
<1>2. Curve[1] \in (Nat \ {0}) \X (Nat \ {0})
  BY <1>1, SignalAssumption
<1>3. \A q \in DOMAIN Curve : p < q => Sol(p) < Sol(q) /\ Tok(p) > Tok(q)
  BY SignalAssumption
<1> QED BY <1>1, <1>2, <1>3 DEF Sol, Tok

\* Depths are positive.
LEMMA DepthFacts == \A d \in Depth : d \in Nat \ {0}
BY SignalAssumption

\* Whatever an event of a pool at p is decoded as, and Meteora's are as nothing,
\* its slot is 0, its price fits a u64, and a price that is not 0 is the pool's.
LEMMA Decoded ==
  ASSUME kind \in Kind, NEW p \in DOMAIN Curve, NEW d \in Depth,
         NEW mint, NEW bought, NEW bundled, NEW b,
         NEW trade \in OfToken(Transaction(p, d, mint, bought, bundled, b))
  PROVE  /\ trade.slot = 0 /\ kind # "meteora"
         /\ trade.price \in Nat /\ trade.price <= U64MAX
         /\ MetricsPrice(trade) \in Nat
         /\ kind = "pumpfun" => mint = Token
         /\ MetricsPrice(trade) > 0
              => trade.price = ParserPrice(p, d) /\ MetricsPrice(trade) = PoolMetrics(p, d)
<1> DEFINE tx == Transaction(p, d, mint, bought, bundled, b)
           s == Sol(p) * d
           t == Tok(p) * d
<1>0. /\ trade \in fr_interpret_transaction_data(tx) /\ trade.mint = Token
      /\ tx.event = Event(p, d, mint, bought)
  BY DEF OfToken, Transaction
<1>1. /\ Sol(p) \in Nat \ {0} /\ Tok(p) \in Nat \ {0} /\ Sol(1) \in Nat /\ Tok(1) \in Nat
      /\ Token # WSOL
  BY CurveFacts, SignalAssumption
<1>2. s \in Nat \ {0} /\ t \in Nat \ {0}
  BY <1>1, DepthFacts
<1>3. /\ Ratio(Sol(p), Tok(p)) \in Nat /\ Ratio(Sol(p), Tok(p)) <= U64MAX
      /\ FloatRatio(Sol(p), Tok(p)) \in Nat
      /\ Saturated(FloatRatio(Sol(p), Tok(p))) \in Nat
      /\ Saturated(FloatRatio(Sol(p), Tok(p))) <= U64MAX
      /\ 0 <= U64MAX
  BY <1>1, RatioTyped, DecodingAssumption
<1> HIDE DEF tx, s, t
<1>4. /\ Ratio(s, t) \in Nat /\ Ratio(s, t) <= U64MAX
      /\ Ratio(t, s) \in Nat /\ Ratio(t, s) <= U64MAX
  BY <1>2, RatioTyped
<1>5. /\ kind = "pumpswap"  => tx.event = [length |-> 368, base |-> t, quote |-> s]
      /\ kind = "migration" => tx.event = [length |-> 270, base |-> t, quote |-> s]
      /\ kind = "reverse"   => tx.event = [length |-> 368, base |-> s, quote |-> t]
  BY <1>0 DEF Event, s, t
<1>6. /\ kind = "reverse" => ParserPrice(p, d) = Ratio(t, s)
      /\ kind \in {"pumpswap", "migration"} => ParserPrice(p, d) = Ratio(s, t)
      /\ kind # "pumpfun" => PoolMetrics(p, d) = ParserPrice(p, d)
  BY DEF ParserPrice, PoolMetrics, s, t
<1>7. CASE kind = "pumpswap"
  <2>1. tx.event = [length |-> 368, base |-> t, quote |-> s]
    BY <1>7, <1>5
  <2>2. trade = PumpSwapTrade(tx)
    BY <1>0, <2>1 DEF fr_interpret_transaction_data
  <2> QED BY <1>1, <1>2, <1>7, <1>3, <1>4, <1>6, <2>1, <2>2
        DEF PumpSwapTrade, Parsed, MetricsPrice
<1>8. CASE kind = "reverse"
  <2>1. tx.event = [length |-> 368, base |-> s, quote |-> t]
    BY <1>8, <1>5
  <2>2. trade = PumpSwapTrade(tx)
    BY <1>0, <2>1 DEF fr_interpret_transaction_data
  <2> QED BY <1>1, <1>2, <1>8, <1>3, <1>4, <1>6, <2>1, <2>2
        DEF PumpSwapTrade, Parsed, MetricsPrice
<1>9. CASE kind = "migration"
  <2>1. tx.event = [length |-> 270, base |-> t, quote |-> s]
    BY <1>9, <1>5
  <2>2. trade = PumpSwapMigrationTrade(tx)
    BY <1>0, <2>1 DEF fr_interpret_transaction_data
  <2> QED BY <1>0, <1>1, <1>2, <1>9, <1>3, <1>4, <1>6, <2>1, <2>2
        DEF PumpSwapMigrationTrade, Parsed, MetricsPrice
<1>10. CASE kind = "pumpfun"
  <2>1. tx.event = [length |-> 266, mint |-> mint, is_buy |-> bought,
                    virtual_sol |-> Sol(p), virtual_token |-> Tok(p)]
    BY <1>0, <1>10 DEF Event
  <2>2. trade = PumpFunTrade(tx)
    BY <1>0, <2>1 DEF fr_interpret_transaction_data
  <2> QED BY <1>0, <1>1, <1>3, <1>10, <2>1, <2>2
        DEF PumpFunTrade, Parsed, MetricsPrice, ParserPrice, PoolMetrics
<1>11. CASE kind = "launchpad"
  <2>1. tx.event = [length |-> 146, is_sell |-> ~bought,
                    virtual_quote |-> Sol(1), real_quote_after |-> Sol(p) - Sol(1),
                    virtual_base |-> Tok(1), real_base_after |-> Tok(1) - Tok(p)]
    BY <1>0, <1>11 DEF Event
  <2>2. trade = LaunchpadTrade(tx)
    BY <1>0, <2>1 DEF fr_interpret_transaction_data
  <2>3. Sol(1) + (Sol(p) - Sol(1)) = Sol(p) /\ Tok(1) - (Tok(1) - Tok(p)) = Tok(p)
    BY <1>1
  <2> QED BY <1>1, <1>3, <1>11, <2>1, <2>2, <2>3
        DEF LaunchpadTrade, Parsed, MetricsPrice, ParserPrice, PoolMetrics
<1>12. CASE kind = "meteora"
  <2>1. tx.event = [length |-> 170]
    BY <1>0, <1>12 DEF Event
  <2> QED BY <1>0, <2>1 DEF fr_interpret_transaction_data
<1> QED BY <1>7, <1>8, <1>9, <1>10, <1>11, <1>12, SignalAssumption DEF AMM
-----------------------------------------------------------------------------
(* The invariant *)

\* The slot of an entry is the parser's 0, its prices are those of its pool as it
\* was, and PumpFun's are of the token's own.
Faithful(entry) ==
  /\ entry.slot = 0 /\ kind # "meteora"
  /\ kind = "pumpfun" => entry.own
  /\ entry.metrics > 0
       => /\ entry.price = ParserPrice(entry.at, entry.depth)
          /\ entry.metrics = PoolMetrics(entry.at, entry.depth)

SignalInv ==
  /\ TypeOK
  /\ \A i \in DOMAIN slot_price_history : Faithful(slot_price_history[i])
  /\ ~two_slot_drop_active

\* Appending a good entry and dropping the oldest keeps the history good.
LEMMA HistoryKept ==
  ASSUME SignalInv, NEW e \in Entry, e.price <= U64MAX, Faithful(e)
  PROVE  LET h == Capped(Append(slot_price_history, e))
         IN  /\ h \in Seq(Entry) /\ Len(h) <= HistoryCap
             /\ \A i \in DOMAIN h : h[i].price <= U64MAX /\ Faithful(h[i])
<1> DEFINE h == slot_price_history
           g == Append(h, e)
           Good(x) == x.price <= U64MAX /\ Faithful(x)
<1>1. h \in Seq(Entry) /\ Len(h) <= HistoryCap /\ Len(h) \in Nat /\ HistoryCap \in Nat
  BY SignalAssumption DEF SignalInv, TypeOK
<1>2. /\ g \in Seq(Entry) /\ Len(g) = Len(h) + 1
      /\ \A i \in 1..Len(g) : g[i] = IF i <= Len(h) THEN h[i] ELSE e
  BY <1>1
<1>3. \A i \in DOMAIN h : Good(h[i])
  BY DEF SignalInv, TypeOK
<1>4. Good(e)
  OBVIOUS
<1> HIDE DEF h, g, Good
<1>5. \A i \in 1..Len(g) : Good(g[i])
  BY <1>1, <1>2, <1>3, <1>4
<1>6. Capped(g) \in Seq(Entry) /\ Len(Capped(g)) <= HistoryCap
  BY <1>1, <1>2 DEF Capped
<1>7. \A i \in DOMAIN Capped(g) : Good(Capped(g)[i])
  <2>1. CASE Len(g) > HistoryCap
    <3>1. /\ Tail(g) \in Seq(Entry) /\ Len(Tail(g)) = Len(h)
          /\ \A i \in 1..Len(Tail(g)) : Tail(g)[i] = g[i + 1]
      BY <1>1, <1>2, <2>1
    <3>2. \A i \in 1..Len(Tail(g)) : i + 1 \in 1..Len(g)
      BY <1>1, <1>2, <3>1
    <3>3. \A i \in 1..Len(Tail(g)) : Good(Tail(g)[i])
      BY <1>5, <3>1, <3>2
    <3> QED BY <2>1, <3>1, <3>3 DEF Capped
  <2>2. CASE ~(Len(g) > HistoryCap)
    BY <1>2, <1>5, <2>2 DEF Capped
  <2> QED BY <2>1, <2>2
<1> QED BY <1>6, <1>7 DEF h, g, Good

\* Entries that are all of slot 0 are in no rising slots.
LEMMA NoRisingSlots ==
  ASSUME NEW h \in Seq(Entry), \A i \in DOMAIN h : h[i].slot = 0
  PROVE  ~two_slot_drop(h)
<1> SUFFICES ASSUME Len(h) >= 3 PROVE ~(FromEnd(h, 3).slot < FromEnd(h, 2).slot)
  BY DEF two_slot_drop
<1>1. Len(h) \in Nat /\ DOMAIN h = 1..Len(h)
  OBVIOUS
<1>2. Len(h) + 1 - 3 \in DOMAIN h /\ Len(h) + 1 - 2 \in DOMAIN h
  BY <1>1
<1> QED BY <1>2 DEF FromEnd

\* A handled event of a pool at p, of depth d, leaves a history that is typed and
\* faithful.
LEMMA HandleKeeps ==
  ASSUME SignalInv, kind' = kind, depth' = depth, slot' = slot, at' \in DOMAIN Curve,
         NEW p \in DOMAIN Curve, NEW d \in Depth,
         NEW mint, NEW bought, NEW bundled, NEW b, NEW own \in BOOLEAN, ~own => mint # Token,
         Handle(Transaction(p, d, mint, bought, bundled, b), p, d, own)
  PROVE  SignalInv'
<1> DEFINE tx == Transaction(p, d, mint, bought, bundled, b)
<1>0. kind \in Kind /\ slot \in 1..MaxSlot /\ depth \in Depth
  BY DEF SignalInv, TypeOK
<1>1. CASE UNCHANGED <<slot_price_history, two_slot_drop_active>>
  BY <1>0, <1>1 DEF SignalInv, TypeOK, Faithful, ParserPrice, PoolMetrics
<1>2. CASE \E trade \in OfToken(tx) :
             /\ slot_price_history' =
                  Capped(Append(slot_price_history,
                           [slot |-> trade.slot, price |-> trade.price,
                            metrics |-> MetricsPrice(trade), made |-> slot,
                            at |-> p, depth |-> d, own |-> own]))
             /\ two_slot_drop_active' = two_slot_drop(slot_price_history')
  <2>1. PICK trade \in OfToken(tx) :
             /\ slot_price_history' =
                  Capped(Append(slot_price_history,
                           [slot |-> trade.slot, price |-> trade.price,
                            metrics |-> MetricsPrice(trade), made |-> slot,
                            at |-> p, depth |-> d, own |-> own]))
             /\ two_slot_drop_active' = two_slot_drop(slot_price_history')
    BY <1>2
  <2> DEFINE e == [slot |-> trade.slot, price |-> trade.price,
                   metrics |-> MetricsPrice(trade), made |-> slot,
                            at |-> p, depth |-> d, own |-> own]
  <2>2. /\ trade.slot = 0 /\ kind # "meteora"
        /\ trade.price \in Nat /\ trade.price <= U64MAX
        /\ MetricsPrice(trade) \in Nat
        /\ kind = "pumpfun" => mint = Token
        /\ MetricsPrice(trade) > 0
             => trade.price = ParserPrice(p, d) /\ MetricsPrice(trade) = PoolMetrics(p, d)
    BY <1>0, Decoded
  <2>3. e \in Entry /\ e.price <= U64MAX
    BY <1>0, <2>2 DEF Entry
  <2>4. Faithful(e)
    BY <2>2 DEF Faithful
  <2>5. LET h == Capped(Append(slot_price_history, e))
        IN  /\ h \in Seq(Entry) /\ Len(h) <= HistoryCap
            /\ \A i \in DOMAIN h : h[i].price <= U64MAX /\ Faithful(h[i])
    BY <2>3, <2>4, HistoryKept
  <2>6. slot_price_history' = Capped(Append(slot_price_history, e))
    BY <2>1
  <2> HIDE DEF e, tx
  <2>7. \A x : Faithful(x)' <=> Faithful(x)
    BY DEF Faithful, ParserPrice, PoolMetrics
  <2>8. two_slot_drop(slot_price_history') \in BOOLEAN
    BY DEF two_slot_drop
  <2>9. TypeOK'
    BY <1>0, <2>1, <2>5, <2>6, <2>8 DEF TypeOK
  <2>10. \A i \in DOMAIN slot_price_history' : Faithful(slot_price_history'[i])
    BY <2>5, <2>6
  <2>11. ~two_slot_drop_active'
    BY <2>1, <2>5, <2>6, <2>10, NoRisingSlots DEF Faithful
  <2> QED BY <2>7, <2>9, <2>10, <2>11 DEF SignalInv
<1> QED BY <1>1, <1>2 DEF Handle

\* A record that starts over is typed and has nothing to be wrong about.
LEMMA Restarted ==
  ASSUME TypeOK, slot_price_history = <<>>, ~two_slot_drop_active PROVE SignalInv
BY DEF SignalInv

\* SignalInv holds initially and is kept by every step.
LEMMA SignalInductive ==
  /\ Init => SignalInv
  /\ SignalInv /\ [Next]_vars => SignalInv'
<1>0. <<>> \in Seq(Entry) /\ DOMAIN <<>> = {} /\ Len(<<>>) <= HistoryCap
  BY SignalAssumption
<1>1. Init => SignalInv
  <2> SUFFICES ASSUME Init PROVE TypeOK /\ slot_price_history = <<>> /\ ~two_slot_drop_active
    BY Restarted
  <2>1. slot \in 1..MaxSlot
    BY SignalAssumption DEF Init
  <2> QED BY <1>0, <2>1, SignalAssumption DEF Init, TypeOK
<1>2. SignalInv /\ [Next]_vars => SignalInv'
  <2> SUFFICES ASSUME SignalInv, [Next]_vars PROVE SignalInv'
    OBVIOUS
  <2>0. TypeOK
    BY DEF SignalInv
  <2>1. ASSUME SlotPasses PROVE SignalInv'
    <3>1. slot \in 1..MaxSlot /\ slot < MaxSlot /\ MaxSlot \in Nat
      BY <2>0, <2>1, SignalAssumption DEF TypeOK, SlotPasses
    <3>2. slot' \in 1..MaxSlot
      BY <2>1, <3>1 DEF SlotPasses
    <3> QED BY <2>0, <2>1, <3>2
          DEF SlotPasses, SignalInv, TypeOK, Faithful, ParserPrice, PoolMetrics
  <2>2. ASSUME NEW to \in DOMAIN Curve, NEW bundled \in BOOLEAN, NEW b \in Balances,
               Trade(to, bundled, b)
        PROVE  SignalInv'
    <3>1. at' = to /\ kind' = kind /\ slot' = slot /\ to \in DOMAIN Curve
      BY <2>2 DEF Trade
    <3>2. Handle(Transaction(to, depth, Token, to > at, bundled, b), to, depth, TRUE)
      BY <2>2, Zenon DEF Trade
    <3>3. depth' = depth /\ depth \in Depth /\ TRUE \in BOOLEAN
      BY <2>0, <2>2 DEF Trade, TypeOK
    <3> DEFINE bought == to > at
               own == TRUE
    <3>4. /\ own \in BOOLEAN /\ (~own => Token # Token)
          /\ Handle(Transaction(to, depth, Token, bought, bundled, b), to, depth, own)
      BY <3>2
    <3> HIDE DEF bought, own
    <3> QED BY <3>1, <3>3, <3>4, HandleKeeps
  <2>3. ASSUME NEW p \in OtherAt, NEW b \in Balances, RoutedTrade(p, b)
        PROVE  SignalInv'
    <3>1. Handle(Transaction(p, 1, Other, TRUE, FALSE, b), p, 1, FALSE)
      BY <2>3 DEF RoutedTrade
    <3>2. at' = at /\ kind' = kind /\ depth' = depth /\ slot' = slot /\ at' \in DOMAIN Curve
      BY <2>0, <2>3 DEF RoutedTrade, TypeOK
    <3>3. p \in DOMAIN Curve /\ 1 \in Depth /\ Other # Token
      BY SignalAssumption
    <3> DEFINE bought == TRUE
               own == FALSE
    <3>4. own \in BOOLEAN /\ Handle(Transaction(p, 1, Other, bought, own, b), p, 1, own)
      BY <3>1
    <3> HIDE DEF bought, own
    <3> QED BY <3>1, <3>2, <3>3, <3>4, HandleKeeps
  <2>4. ASSUME RecordReplaced PROVE SignalInv'
    <3>1. TypeOK' /\ slot_price_history' = <<>> /\ ~two_slot_drop_active'
      BY <1>0, <2>0, <2>4 DEF RecordReplaced, TypeOK
    <3> QED BY <3>1 DEF SignalInv
  <2>5. ASSUME NEW d \in Depth, Deposit(d) PROVE SignalInv'
    BY <2>0, <2>5 DEF Deposit, SignalInv, TypeOK, Faithful, ParserPrice, PoolMetrics
  <2>6. ASSUME UNCHANGED vars PROVE SignalInv'
    BY <2>6 DEF vars, SignalInv, TypeOK, Faithful, ParserPrice, PoolMetrics
  <2> QED BY <2>1, <2>2, <2>3, <2>4, <2>6, <2>5 DEF Next
<1> QED BY <1>1, <1>2
-----------------------------------------------------------------------------
(* Prices along the curve, and across depths *)

\* A quotient is the greatest such number.
LEMMA DivGreatest ==
  ASSUME NEW n \in Nat, NEW d \in Nat \ {0}, NEW a \in Nat, a * d <= n
  PROVE  a <= n \div d
<1> DEFINE q == n \div d
<1>1. q \in Nat /\ n < (q + 1) * d
  BY DivBounds
<1> HIDE DEF q
<1>2. d * a < d * (q + 1)
  BY <1>1
<1>3. a < q + 1
  BY <1>1, <1>2, MulCancel
<1> QED BY <1>1, <1>3 DEF q

\* Factors can be cancelled from an order that is not strict, too.
LEMMA MulCancelled ==
  ASSUME NEW a \in Nat, NEW b \in Nat, NEW c \in Nat \ {0}, c * a <= c * b
  PROVE  a <= b
<1> SUFFICES ASSUME b + 1 <= a PROVE FALSE
  OBVIOUS
<1>1. c * (b + 1) <= c * a
  BY MulMonotone
<1>2. c * (b + 1) = c * b + c
  OBVIOUS
<1> QED BY <1>1, <1>2

\* A common factor of both sides can be cancelled.
LEMMA CancelFactor ==
  ASSUME NEW x \in Nat \ {0}, NEW s \in Nat, NEW z \in Nat, NEW t \in Nat, NEW u \in Nat,
         NEW r \in Nat, 100 * ((z * x) * t) < r * ((s * x) * u)
  PROVE  100 * (z * t) < r * (s * u)
<1>1. 100 * ((z * x) * t) = x * (100 * (z * t))
  OBVIOUS
<1>2. r * ((s * x) * u) = x * (r * (s * u))
  OBVIOUS
<1>3. 100 * (z * t) \in Nat /\ r * (s * u) \in Nat
  OBVIOUS
<1> QED BY <1>1, <1>2, <1>3, MulCancel

\* What a pool's price is the quotient of, at depth d.
Numerator(s, d) == Saturated((s * d) * LAMPORTS)

\* A pool's price is its saturated SOL, in units of price, by its tokens.
LEMMA RatioIsQuotient ==
  ASSUME NEW s \in Nat \ {0}, NEW t \in Nat \ {0}, NEW d \in Nat \ {0}
  PROVE  /\ Ratio(s * d, t * d) = Numerator(s, d) \div (t * d)
         /\ (s * d) * LAMPORTS \in Nat /\ t * d \in Nat \ {0}
         /\ Numerator(s, d) \in Nat /\ Numerator(s, d) <= (s * d) * LAMPORTS
         /\ Numerator(s, d) = IF (s * d) * LAMPORTS <= U64MAX THEN (s * d) * LAMPORTS ELSE U64MAX
         /\ Numerator(s, d) \div (t * d) \in Nat
<1> DEFINE X == Numerator(s, d)
<1>1. t * d \in Nat \ {0} /\ s * d \in Nat
  OBVIOUS
<1>2. (s * d) * LAMPORTS \in Nat
  BY <1>1, DecodingAssumption
<1>3. /\ X \in Nat /\ X <= (s * d) * LAMPORTS
      /\ X = IF (s * d) * LAMPORTS <= U64MAX THEN (s * d) * LAMPORTS ELSE U64MAX
  BY <1>2, DecodingAssumption DEF Saturated, Numerator
<1>4. Ratio(s * d, t * d) = X \div (t * d)
  BY <1>1 DEF Ratio, SaturatingMul, Numerator
<1> HIDE DEF X
<1>5. X \div (t * d) \in Nat
  BY <1>1, <1>3, DivBounds
<1> QED BY <1>1, <1>2, <1>3, <1>4, <1>5 DEF X

\* Of two pools the one with more SOL and fewer tokens on the curve has no lower
\* price, unless it is saturated and deeper.
LEMMA RatioOrdered ==
  ASSUME NEW s \in Nat \ {0}, NEW z \in Nat \ {0}, NEW t \in Nat \ {0}, NEW u \in Nat \ {0},
         NEW d \in Nat \ {0}, NEW e \in Nat \ {0}, s <= z, u <= t,
         e <= d \/ ~(U64MAX < z * e * LAMPORTS)
  PROVE  Ratio(s * d, t * d) <= Ratio(z * e, u * e)
<1> DEFINE L == LAMPORTS
           X == Numerator(s, d)
           Y == Numerator(z, e)
           A == X \div (t * d)
<1>1. L \in Nat \ {0} /\ U64MAX \in Nat
  BY DecodingAssumption
<1>2. /\ Ratio(s * d, t * d) = A /\ A \in Nat
      /\ t * d \in Nat \ {0} /\ X \in Nat /\ X <= (s * d) * L /\ (s * d) * L \in Nat
      /\ X = IF (s * d) * L <= U64MAX THEN (s * d) * L ELSE U64MAX
  BY RatioIsQuotient
<1>3. /\ Ratio(z * e, u * e) = Y \div (u * e)
      /\ u * e \in Nat \ {0} /\ Y \in Nat /\ (z * e) * L \in Nat
      /\ Y = IF (z * e) * L <= U64MAX THEN (z * e) * L ELSE U64MAX
  BY RatioIsQuotient
<1> HIDE DEF X
<1>4. A * (t * d) <= X
  BY <1>2, DivBounds
<1> HIDE DEF L, Y, A
<1>5. /\ Ratio(s * d, t * d) = A /\ Ratio(z * e, u * e) = Y \div (u * e)
      /\ t * d \in Nat \ {0} /\ u * e \in Nat \ {0}
      /\ X \in Nat /\ X <= U64MAX /\ X <= (s * d) * L
      /\ A \in Nat /\ Y \in Nat
  BY <1>1, <1>2, <1>3
<1>6. A * t <= s * L
  <2>1. A * t \in Nat /\ s * L \in Nat
    BY <1>1, <1>5
  <2>2. d * (A * t) = A * (t * d) /\ d * (s * L) = (s * d) * L
    BY <1>1, <1>5
  <2>3. A * (t * d) \in Nat /\ (s * d) * L \in Nat
    BY <1>1, <1>5
  <2>4. d * (A * t) <= d * (s * L)
    BY <1>5, <1>4, <2>2, <2>3
  <2> QED BY <2>1, <2>4, MulCancelled
<1>7. A * u <= A * t /\ s * L <= z * L
  BY <1>1, <1>5, MulMonotone
<1>8. A * u \in Nat /\ A * t \in Nat /\ s * L \in Nat /\ z * L \in Nat
  BY <1>1, <1>5
<1>9. A * (u * e) <= (z * e) * L
  <2>1. A * u <= z * L
    BY <1>6, <1>7, <1>8
  <2>2. (A * u) * e <= (z * L) * e
    BY <1>8, <2>1, MulMonotone
  <2>3. (A * u) * e = A * (u * e) /\ (z * L) * e = (z * e) * L
    BY <1>1, <1>5
  <2> QED BY <2>2, <2>3
<1>10. A * (u * e) <= Y
  <2>1. CASE (z * e) * L <= U64MAX
    BY <1>3, <1>9, <2>1
  <2>2. CASE ~((z * e) * L <= U64MAX)
    <3>1. e <= d
      BY <1>1, <2>2 DEF L
    <3>2. u * e <= t * e /\ t * e <= t * d
      BY <3>1, MulMonotone
    <3>3. u * e <= t * d
      BY <1>5, <3>2, t * e \in Nat
    <3>4. A * (u * e) <= A * (t * d)
      BY <1>5, <3>3, MulMonotone
    <3>5. A * (u * e) \in Nat /\ A * (t * d) \in Nat
      BY <1>5
    <3> QED BY <1>1, <1>5, <1>4, <1>3, <2>2, <3>4, <3>5
  <2> QED BY <2>1, <2>2
<1> QED BY <1>5, <1>10, DivGreatest

\* If the price falls to r percent, a unit aside, from (s, t) to (z, u), so does the
\* pool's, unless the price is saturated at the end and the pool is deeper there.
LEMMA RatioLoss ==
  ASSUME NEW s \in Nat \ {0}, NEW z \in Nat \ {0}, NEW t \in Nat \ {0}, NEW u \in Nat \ {0},
         NEW d \in Nat \ {0}, NEW e \in Nat \ {0}, NEW r \in Nat, r <= 99,
         t < u => z <= s,
         100 * (Ratio(z * e, u * e) + 1) <= r * Ratio(s * d, t * d),
         e <= d \/ ~(U64MAX < z * e * LAMPORTS)
  PROVE  100 * (z * t) < r * (s * u)
<1> DEFINE L == LAMPORTS
           X == Numerator(s, d)
           Y == Numerator(z, e)
<1>1. L \in Nat \ {0} /\ U64MAX \in Nat
  BY DecodingAssumption
<1>2. /\ Ratio(s * d, t * d) = X \div (t * d)
      /\ t * d \in Nat \ {0} /\ (s * d) * L \in Nat
      /\ X \in Nat /\ X <= (s * d) * L
      /\ X = IF (s * d) * L <= U64MAX THEN (s * d) * L ELSE U64MAX
  BY RatioIsQuotient
<1>3. /\ Ratio(z * e, u * e) = Y \div (u * e)
      /\ u * e \in Nat \ {0} /\ (z * e) * L \in Nat
      /\ Y \in Nat
  BY RatioIsQuotient
<1>4. Y = IF (z * e) * L <= U64MAX THEN (z * e) * L ELSE U64MAX
  BY RatioIsQuotient
<1> HIDE DEF L, X, Y
<1>5. /\ Ratio(s * d, t * d) = X \div (t * d)
      /\ t * d \in Nat \ {0} /\ (s * d) * L \in Nat
      /\ X \in Nat /\ X <= U64MAX /\ X <= (s * d) * L
  BY <1>1, <1>2
<1>6. 100 * (Y * (t * d)) < r * (X * (u * e))
  BY <1>5, <1>3, QuotientLoss
<1>7. X * (u * e) \in Nat /\ 100 * (Y * (t * d)) \in Nat
  BY <1>5, <1>3
<1>8. CASE (z * e) * L <= U64MAX
  <2> DEFINE c == (e * L) * d
  <2>1. c \in Nat
    BY <1>1
  <2>2. X * (u * e) <= ((s * d) * L) * (u * e)
    BY <1>5, <1>3, MulMonotone
  <2>3. ((s * d) * L) * (u * e) \in Nat
    BY <1>5, <1>3
  <2>4. r * (X * (u * e)) <= r * (((s * d) * L) * (u * e))
    BY <1>7, <2>2, <2>3, MulMonotone
  <2>5. r * (X * (u * e)) \in Nat /\ r * (((s * d) * L) * (u * e)) \in Nat
    BY <1>7, <2>3
  <2>6. ((z * e) * L) * (t * d) = c * (z * t) /\ ((s * d) * L) * (u * e) = c * (s * u)
    BY <1>1
  <2>7. 100 * (c * (z * t)) < r * (c * (s * u))
    BY <1>4, <1>6, <1>7, <1>8, <2>4, <2>5, <2>6
  <2> HIDE DEF c
  <2>8. 100 * (c * (z * t)) = c * (100 * (z * t)) /\ r * (c * (s * u)) = c * (r * (s * u))
    BY <2>1
  <2>9. 100 * (z * t) \in Nat /\ r * (s * u) \in Nat
    OBVIOUS
  <2> QED BY <2>1, <2>7, <2>8, <2>9, MulCancel
<1>9. CASE ~((z * e) * L <= U64MAX)
  <2>1. Y = U64MAX /\ e <= d
    BY <1>1, <1>3, <1>4, <1>9 DEF L
  <2>2. X * (u * e) <= U64MAX * (u * d)
    <3>1. X * (u * e) <= U64MAX * (u * e)
      BY <1>1, <1>5, <1>3, MulMonotone
    <3>2. u * e <= u * d /\ u * d \in Nat
      BY <2>1, MulMonotone
    <3>3. U64MAX * (u * e) <= U64MAX * (u * d)
      BY <1>1, <1>3, <3>2, MulMonotone
    <3>4. U64MAX * (u * e) \in Nat /\ U64MAX * (u * d) \in Nat
      BY <1>1, <1>3, <3>2
    <3> QED BY <1>7, <3>1, <3>3, <3>4
  <2> DEFINE c == U64MAX * d
  <2>3. c \in Nat
    BY <1>1
  <2>4. U64MAX * (u * d) = c * u /\ Y * (t * d) = c * t
    BY <1>1, <2>1
  <2> HIDE DEF c
  <2>5. r * (X * (u * e)) <= r * (c * u)
    BY <1>7, <2>2, <2>3, <2>4, MulMonotone, c * u \in Nat
  <2>6. 100 * (c * t) < r * (c * u)
    BY <1>6, <1>7, <2>3, <2>4, <2>5, c * u \in Nat, c * t \in Nat,
       r * (X * (u * e)) \in Nat, r * (c * u) \in Nat
  <2>7. 100 * (c * t) = c * (100 * t) /\ r * (c * u) = c * (r * u)
    BY <2>3
  <2>8. 100 * t < r * u
    BY <2>3, <2>6, <2>7, MulCancel, 100 * t \in Nat, r * u \in Nat
  <2>9. r * u <= 99 * u
    BY MulMonotone
  <2>10. z <= s
    BY <2>8, <2>9
  <2>11. (100 * t) * z < (r * u) * z
    <3> DEFINE v == 100 * t
               w == r * u
    <3>1. v \in Nat /\ w \in Nat /\ v + 1 <= w
      BY <2>8
    <3> HIDE DEF v, w
    <3>2. (v + 1) * z <= w * z /\ (v + 1) * z = v * z + z /\ v * z \in Nat /\ w * z \in Nat
      BY <3>1, MulMonotone
    <3>3. v * z < w * z
      BY <3>2
    <3> QED BY <3>3 DEF v, w
  <2>12. (r * u) * z <= (r * u) * s
    BY <2>10, MulMonotone, r * u \in Nat
  <2>13. (100 * t) * z = 100 * (z * t) /\ (r * u) * s = r * (s * u)
    OBVIOUS
  <2> QED BY <2>11, <2>12, <2>13, 100 * (z * t) \in Nat, r * (s * u) \in Nat, (r * u) * z \in Nat
<1> QED BY <1>8, <1>9

\* If the pool falls to r percent from (s, t) to (z, u), so does the price, a unit
\* aside, unless it is saturated at the start.
LEMMA RatioFall ==
  ASSUME NEW s \in Nat \ {0}, NEW z \in Nat \ {0}, NEW t \in Nat \ {0}, NEW u \in Nat \ {0},
         NEW d \in Nat \ {0}, NEW e \in Nat \ {0}, NEW r \in Nat,
         100 * (z * t) <= r * (s * u), ~(U64MAX < s * d * LAMPORTS)
  PROVE  100 * Ratio(z * e, u * e) <= r * (Ratio(s * d, t * d) + 1)
<1> DEFINE L == LAMPORTS
           X == (s * d) * L
           W == (z * e) * L
           Y == Numerator(z, e)
<1>1. L \in Nat \ {0} /\ U64MAX \in Nat
  BY DecodingAssumption
<1>2. /\ Ratio(s * d, t * d) = Numerator(s, d) \div (t * d)
      /\ t * d \in Nat \ {0} /\ X \in Nat
  BY RatioIsQuotient
<1>3. Numerator(s, d) = X
  BY <1>1, <1>2, RatioIsQuotient
<1>4. /\ Ratio(z * e, u * e) = Y \div (u * e)
      /\ u * e \in Nat \ {0} /\ W \in Nat /\ Y \in Nat /\ Y <= W /\ Y \div (u * e) \in Nat
  BY RatioIsQuotient
<1>5. 100 * (W * (t * d)) <= r * (X * (u * e))
  <2> DEFINE c == (e * L) * d
  <2>1. c \in Nat
    BY <1>1
  <2>2. W * (t * d) = c * (z * t) /\ X * (u * e) = c * (s * u)
    BY <1>1
  <2> HIDE DEF c, W, X
  <2>3. c * (100 * (z * t)) <= c * (r * (s * u))
    BY <2>1, MulMonotone, 100 * (z * t) \in Nat, r * (s * u) \in Nat
  <2>4. c * (100 * (z * t)) = 100 * (c * (z * t)) /\ c * (r * (s * u)) = r * (c * (s * u))
    BY <2>1
  <2> QED BY <2>2, <2>3, <2>4
<1> HIDE DEF L, X, W, Y
<1>6. 100 * (W \div (u * e)) <= r * (X \div (t * d) + 1)
  BY <1>2, <1>4, <1>5, QuotientFall
<1>7. Y \div (u * e) <= W \div (u * e) /\ W \div (u * e) \in Nat
  <2> DEFINE v == u * e
  <2>1. v \in Nat \ {0} /\ v <= v
    BY <1>4
  <2> HIDE DEF v
  <2>2. Y \div v <= W \div v
    BY <1>4, <2>1, DivMonotone
  <2>3. W \div v \in Nat
    BY <1>4, <2>1, DivBounds
  <2> QED BY <2>2, <2>3 DEF v
<1>8. X \div (t * d) \in Nat
  BY <1>2, DivBounds
<1> DEFINE f == Y \div (u * e)
           g == W \div (u * e)
           h == X \div (t * d)
<1>9. f \in Nat /\ g \in Nat /\ h \in Nat /\ f <= g /\ 100 * g <= r * (h + 1)
  BY <1>4, <1>6, <1>7, <1>8
<1>10. Ratio(z * e, u * e) = f /\ Ratio(s * d, t * d) = h
  BY <1>2, <1>3, <1>4
<1> HIDE DEF f, g, h
<1>11. r * (h + 1) \in Nat
  BY <1>9
<1> QED BY <1>9, <1>10, <1>11

\* Up the curve a price never falls, unless the greater is saturated and its pool
\* deeper; that of a reverse pool never rises.
LEMMA PricesOrdered ==
  ASSUME kind \in Kind, kind # "meteora", NEW p \in DOMAIN Curve, NEW q \in DOMAIN Curve,
         NEW d \in Depth, NEW e \in Depth, p <= q
  PROVE  IF kind = "reverse"
         THEN \/ ParserPrice(p, d) >= ParserPrice(q, e) /\ PoolMetrics(p, d) >= PoolMetrics(q, e)
              \/ Saturates(p, d) /\ d > e
         ELSE \/ ParserPrice(p, d) <= ParserPrice(q, e) /\ PoolMetrics(p, d) <= PoolMetrics(q, e)
              \/ Saturates(q, e) /\ e > d
<1> DEFINE s == Sol(p)
           z == Sol(q)
           t == Tok(p)
           u == Tok(q)
<1>1. /\ s \in Nat \ {0} /\ t \in Nat \ {0} /\ z \in Nat \ {0} /\ u \in Nat \ {0}
      /\ s <= z /\ u <= t
  BY CurveFacts
<1>2. d \in Nat \ {0} /\ e \in Nat \ {0}
  BY DepthFacts
<1>3. /\ kind = "launchpad" => /\ ParserPrice(p, d) = Saturated(FloatRatio(s, t))
                               /\ ParserPrice(q, e) = Saturated(FloatRatio(z, u))
      /\ kind = "pumpfun" => /\ ParserPrice(p, d) = Ratio(s, t) /\ ParserPrice(q, e) = Ratio(z, u)
                             /\ PoolMetrics(p, d) = FloatRatio(s, t)
                             /\ PoolMetrics(q, e) = FloatRatio(z, u)
      /\ kind = "reverse" => /\ ParserPrice(p, d) = Ratio(t * d, s * d)
                             /\ ParserPrice(q, e) = Ratio(u * e, z * e)
      /\ kind \in {"pumpswap", "migration"} => /\ ParserPrice(p, d) = Ratio(s * d, t * d)
                                               /\ ParserPrice(q, e) = Ratio(z * e, u * e)
      /\ kind # "pumpfun" => /\ PoolMetrics(p, d) = ParserPrice(p, d)
                             /\ PoolMetrics(q, e) = ParserPrice(q, e)
  BY DEF ParserPrice, PoolMetrics
<1>4. /\ kind = "reverse" => (Saturates(p, d) <=> U64MAX < t * d * LAMPORTS)
      /\ kind \in {"pumpswap", "migration"} => (Saturates(q, e) <=> U64MAX < z * e * LAMPORTS)
  BY DEF Saturates
<1>5. kind \in {"launchpad", "pumpfun", "reverse", "pumpswap", "migration"}
  BY SignalAssumption DEF AMM
<1> HIDE DEF s, z, t, u
<1>6. /\ Ratio(s, t) <= Ratio(z, u) /\ FloatRatio(s, t) <= FloatRatio(z, u)
      /\ Saturated(FloatRatio(s, t)) <= Saturated(FloatRatio(z, u))
  BY <1>1, RatioMonotone
<1>7. CASE kind \in {"launchpad", "pumpfun"}
  BY <1>3, <1>6, <1>7
<1>8. CASE kind = "reverse"
  <2>1. SUFFICES ASSUME ~(Saturates(p, d) /\ d > e)
                 PROVE  Ratio(u * e, z * e) <= Ratio(t * d, s * d)
    <3>1. t * d \in Nat /\ s * d \in Nat /\ u * e \in Nat /\ z * e \in Nat
      BY <1>1, <1>2
    <3>2. Ratio(t * d, s * d) \in Nat /\ Ratio(u * e, z * e) \in Nat
      BY <3>1, RatioTyped
    <3> QED BY <1>3, <1>8, <3>2
  <2>2. d <= e \/ ~(U64MAX < t * d * LAMPORTS)
    BY <1>2, <1>4, <1>8, <2>1
  <2> QED BY <1>1, <1>2, <2>2, RatioOrdered
<1>9. CASE kind \in {"pumpswap", "migration"}
  <2>1. SUFFICES ASSUME ~(Saturates(q, e) /\ e > d)
                 PROVE  Ratio(s * d, t * d) <= Ratio(z * e, u * e)
    BY <1>3, <1>9
  <2>2. e <= d \/ ~(U64MAX < z * e * LAMPORTS)
    BY <1>2, <1>4, <1>9, <2>1
  <2> QED BY <1>1, <1>2, <2>2, RatioOrdered
<1> QED BY <1>5, <1>7, <1>8, <1>9

\* If the metrics' price falls by StopLoss percent and a unit, the pool's does, or
\* the pool is saturated and deeper than it was; in a reverse pool it rose.
LEMMA MeasuredFall ==
  ASSUME kind \in Kind, kind # "meteora", NEW p \in DOMAIN Curve, NEW q \in DOMAIN Curve,
         NEW d \in Depth, NEW e \in Depth,
         PoolMetrics(p, d) \in Nat, PoolMetrics(q, e) \in Nat,
         Fell(PoolMetrics(p, d), PoolMetrics(q, e) + 1)
  PROVE  \/ IF kind = "reverse" THEN p < q ELSE PoolFell(p, q)
         \/ Saturates(q, e) /\ e > d
<1> DEFINE r == 100 - StopLoss
           m == PoolMetrics(p, d)
           n == PoolMetrics(q, e)
           s == Sol(p)
           z == Sol(q)
           t == Tok(p)
           u == Tok(q)
<1>1. r \in Nat /\ r <= 99 /\ StopLoss \in Nat /\ StopLoss = 100 - r
  BY SignalAssumption
<1>2. 100 * (n + 1) <= r * m
  <2>1. 100 * ((n + 1) - m) <= -StopLoss * m
    BY DEF Fell
  <2> HIDE DEF m, n
  <2>2. m \in Nat /\ n \in Nat
    BY DEF m, n
  <2>3. -StopLoss * m = r * m - 100 * m
    BY <1>1, <2>2
  <2> QED BY <1>1, <2>1, <2>2, <2>3
<1>3. m \in Nat /\ n \in Nat /\ p \in Nat /\ q \in Nat /\ d \in Nat \ {0} /\ e \in Nat \ {0}
  BY CurveFacts, DepthFacts
<1>4. /\ s \in Nat \ {0} /\ z \in Nat \ {0} /\ t \in Nat \ {0} /\ u \in Nat \ {0}
      /\ t < u => z <= s
  BY CurveFacts
<1>5. PoolFell(p, q) <=> 100 * (z * t - s * u) <= -StopLoss * (s * u)
  BY DEF PoolFell, Fell
<1>6. /\ kind = "launchpad" => /\ m = Saturated(FloatRatio(s, t))
                               /\ n = Saturated(FloatRatio(z, u))
      /\ kind = "pumpfun" => m = FloatRatio(s, t) /\ n = FloatRatio(z, u)
      /\ kind \in {"pumpswap", "migration"} => /\ m = Ratio(s * d, t * d)
                                               /\ n = Ratio(z * e, u * e)
      /\ kind \in {"pumpswap", "migration"} => (Saturates(q, e) <=> U64MAX < z * e * LAMPORTS)
  BY DEF ParserPrice, PoolMetrics, Saturates
<1>7. kind \in {"launchpad", "pumpfun", "reverse", "pumpswap", "migration"}
  BY SignalAssumption DEF AMM
<1> HIDE DEF r
<1>8. n < m
  <2> HIDE DEF m, n
  <2>1. r * m <= 99 * m
    BY <1>1, <1>3, MulMonotone
  <2> QED BY <1>1, <1>2, <1>3, <2>1
<1>9. CASE kind = "reverse"
  <2>1. q <= p => n >= m \/ (Saturates(q, e) /\ e > d)
    BY <1>9, PricesOrdered
  <2> HIDE DEF m, n
  <2> QED BY <1>3, <1>8, <1>9, <2>1
<1> HIDE DEF m, n, s, z, t, u
<1>10. ASSUME 100 * (z * t) < r * (s * u) PROVE PoolFell(p, q)
  <2> DEFINE v == z * t
             w == s * u
  <2>1. v \in Nat /\ w \in Nat
    BY <1>4
  <2>2. 100 * v < r * w
    BY <1>10
  <2>3. PoolFell(p, q) <=> 100 * (v - w) <= -StopLoss * w
    BY <1>5
  <2> HIDE DEF v, w
  <2>4. -StopLoss * w = r * w - 100 * w
    BY <1>1, <2>1
  <2> QED BY <1>1, <2>1, <2>2, <2>3, <2>4
<1>11. CASE kind \in {"launchpad", "pumpfun"}
  <2>1. LAMPORTS \in Nat \ {0} /\ U64MAX \in Nat /\ s * LAMPORTS \in Nat /\ z * LAMPORTS \in Nat
    BY <1>4, DecodingAssumption
  <2>2. FloatRatio(s, t) = (s * LAMPORTS) \div t /\ FloatRatio(z, u) = (z * LAMPORTS) \div u
        /\ FloatRatio(s, t) \in Nat /\ FloatRatio(z, u) \in Nat
    BY <1>4, <2>1, DivBounds DEF FloatRatio
  <2>3. n = FloatRatio(z, u) /\ m <= FloatRatio(s, t)
    BY <1>6, <1>8, <1>11, <2>1, <2>2 DEF Saturated
  <2>4. 100 * (FloatRatio(z, u) + 1) <= r * FloatRatio(s, t)
    <3>1. r * m <= r * FloatRatio(s, t) /\ r * m \in Nat /\ r * FloatRatio(s, t) \in Nat
      BY <1>1, <1>3, <2>2, <2>3, MulMonotone
    <3> QED BY <1>2, <1>3, <2>2, <2>3, <3>1
  <2>5. 100 * ((z * LAMPORTS) * t) < r * ((s * LAMPORTS) * u)
    BY <1>1, <1>4, <2>1, <2>2, <2>4, QuotientLoss
  <2>6. 100 * (z * t) < r * (s * u)
    BY <1>1, <1>4, <2>1, <2>5, CancelFactor
  <2> QED BY <1>10, <1>11, <2>6
<1>12. CASE kind \in {"pumpswap", "migration"}
  <2>1. SUFFICES ASSUME ~(Saturates(q, e) /\ e > d) PROVE 100 * (z * t) < r * (s * u)
    BY <1>10, <1>12
  <2>2. 100 * (Ratio(z * e, u * e) + 1) <= r * Ratio(s * d, t * d)
    BY <1>2, <1>6, <1>12
  <2>3. e <= d \/ ~(U64MAX < z * e * LAMPORTS)
    BY <1>3, <1>6, <1>12, <2>1
  <2> QED BY <1>1, <1>3, <1>4, <2>2, <2>3, RatioLoss
<1> QED BY <1>7, <1>9, <1>11, <1>12

\* If the pool falls by StopLoss percent, the metrics' price does, but for a unit,
\* unless it was saturated before.
LEMMA FallMeasured ==
  ASSUME kind \in Kind \ {"reverse", "meteora"}, NEW p \in DOMAIN Curve, NEW q \in DOMAIN Curve,
         NEW d \in Depth, NEW e \in Depth,
         PoolFell(p, q), kind = "pumpfun" \/ ~Saturates(p, d)
  PROVE  Fell(PoolMetrics(p, d) + 1, PoolMetrics(q, e))
<1> DEFINE r == 100 - StopLoss
           m == PoolMetrics(p, d)
           n == PoolMetrics(q, e)
           s == Sol(p)
           z == Sol(q)
           t == Tok(p)
           u == Tok(q)
<1>1. r \in Nat /\ StopLoss \in Nat /\ StopLoss = 100 - r
  BY SignalAssumption
<1>2. /\ s \in Nat \ {0} /\ z \in Nat \ {0} /\ t \in Nat \ {0} /\ u \in Nat \ {0}
      /\ d \in Nat \ {0} /\ e \in Nat \ {0}
  BY CurveFacts, DepthFacts
<1>3. LAMPORTS \in Nat \ {0} /\ U64MAX \in Nat /\ s * LAMPORTS \in Nat /\ z * LAMPORTS \in Nat
  BY <1>2, DecodingAssumption
<1>4. 100 * (z * t - s * u) <= -StopLoss * (s * u)
  BY DEF PoolFell, Fell
<1>5. /\ kind = "launchpad" => /\ m = Saturated(FloatRatio(s, t))
                               /\ n = Saturated(FloatRatio(z, u))
                               /\ ~(U64MAX < FloatRatio(s, t))
      /\ kind = "pumpfun" => m = FloatRatio(s, t) /\ n = FloatRatio(z, u)
      /\ kind \in {"pumpswap", "migration"} => /\ m = Ratio(s * d, t * d)
                                               /\ n = Ratio(z * e, u * e)
      /\ kind \in {"pumpswap", "migration"} => ~(U64MAX < s * d * LAMPORTS)
  BY DEF ParserPrice, PoolMetrics, Saturates
<1>6. kind \in {"launchpad", "pumpfun", "pumpswap", "migration"}
  BY SignalAssumption DEF AMM
<1> HIDE DEF r, m, n, s, z, t, u
<1>7. 100 * (z * t) <= r * (s * u)
  <2> DEFINE v == z * t
             w == s * u
  <2>1. v \in Nat /\ w \in Nat /\ 100 * (v - w) <= -StopLoss * w
    BY <1>2, <1>4
  <2> HIDE DEF v, w
  <2>2. -StopLoss * w = r * w - 100 * w
    BY <1>1, <2>1
  <2>3. 100 * v <= r * w
    BY <1>1, <2>1, <2>2
  <2> QED BY <2>3 DEF v, w
<1>8. m \in Nat /\ n \in Nat /\ 100 * n <= r * (m + 1)
  <2>1. CASE kind \in {"launchpad", "pumpfun"}
    <3> DEFINE x == (s * LAMPORTS) \div t
               y == (z * LAMPORTS) \div u
    <3>1. x \in Nat /\ y \in Nat /\ FloatRatio(s, t) = x /\ FloatRatio(z, u) = y
      BY <1>2, <1>3, DivBounds DEF FloatRatio
    <3>2. 100 * ((z * LAMPORTS) * t) <= r * ((s * LAMPORTS) * u)
      <4> DEFINE a == 100 * (z * t)
                 b == r * (s * u)
      <4>1. a \in Nat /\ b \in Nat /\ a <= b
        BY <1>1, <1>2, <1>7
      <4>2. 100 * ((z * LAMPORTS) * t) = a * LAMPORTS /\ r * ((s * LAMPORTS) * u) = b * LAMPORTS
        BY <1>1, <1>2, <1>3
      <4> HIDE DEF a, b
      <4> QED BY <1>3, <4>1, <4>2, MulMonotone
    <3>3. 100 * y <= r * (x + 1)
      BY <1>1, <1>2, <1>3, <3>2, QuotientFall
    <3> HIDE DEF x, y
    <3>4. m = x /\ n \in Nat /\ n <= y
      BY <1>3, <1>5, <2>1, <3>1 DEF Saturated
    <3>5. r * (x + 1) \in Nat
      BY <1>1, <3>1
    <3> QED BY <3>1, <3>3, <3>4, <3>5
  <2>2. CASE kind \in {"pumpswap", "migration"}
    <3>1. m = Ratio(s * d, t * d) /\ n = Ratio(z * e, u * e) /\ ~(U64MAX < s * d * LAMPORTS)
      BY <1>5, <2>2
    <3>2. m \in Nat /\ n \in Nat
      BY <1>2, <3>1, RatioIsQuotient
    <3> QED BY <1>1, <1>2, <1>7, <3>1, <3>2, RatioFall
  <2> QED BY <1>6, <2>1, <2>2
<1>9. -StopLoss * (m + 1) = r * (m + 1) - 100 * (m + 1)
  BY <1>1, <1>8
<1>10. 100 * (n - (m + 1)) <= -StopLoss * (m + 1)
  BY <1>1, <1>8, <1>9
<1> QED BY <1>10 DEF Fell, m, n
-----------------------------------------------------------------------------
(* Theorems *)

\* Every behaviour has its types and faithful entries.
THEOREM SignalInvariant == Spec => []SignalInv
BY SignalInductive, PTL DEF Spec

\* Type correctness: the history is capped and its prices fit a u64.
THEOREM SignalTyping == Spec => []TypeOK
<1>1. SignalInv => TypeOK
  BY DEF SignalInv
<1> QED BY <1>1, SignalInvariant, PTL

\* Whatever a stream brings, at whatever prices and in whatever slots, the drop
\* that arms a sniper buy is never seen: every arm of the parser leaves the slot
\* at 0, and the handler asks for three rising ones (sniper-bot.rs:3325).
THEOREM NoDropEverSeen == Spec => []~two_slot_drop_active
<1>1. SignalInv => ~two_slot_drop_active
  BY DEF SignalInv
<1> QED BY <1>1, SignalInvariant, PTL

\* Two entries of the token's pool with a price have the prices of the pool as it was.
LEMMA PricedEntries ==
  ASSUME SignalInv, NEW i \in DOMAIN slot_price_history, NEW j \in DOMAIN slot_price_history,
         Before(i, j) \/ Before(j, i)
  PROVE  LET a == slot_price_history[i]
             b == slot_price_history[j]
         IN  /\ kind \in Kind /\ kind # "meteora"
             /\ a.at \in DOMAIN Curve /\ b.at \in DOMAIN Curve
             /\ a.at \in Nat /\ b.at \in Nat /\ a.depth \in Depth /\ b.depth \in Depth
             /\ a.price = ParserPrice(a.at, a.depth) /\ a.metrics = PoolMetrics(a.at, a.depth)
             /\ b.price = ParserPrice(b.at, b.depth) /\ b.metrics = PoolMetrics(b.at, b.depth)
             /\ a.metrics \in Nat /\ b.metrics \in Nat
<1>1. slot_price_history[i] \in Entry /\ slot_price_history[j] \in Entry /\ kind \in Kind
  BY DEF SignalInv, TypeOK
<1>2. slot_price_history[i].metrics > 0 /\ slot_price_history[j].metrics > 0
  BY DEF Before
<1>3. Faithful(slot_price_history[i]) /\ Faithful(slot_price_history[j])
  BY DEF SignalInv
<1>4. slot_price_history[i].at \in Nat /\ slot_price_history[j].at \in Nat
  BY <1>1, CurveFacts DEF Entry
<1> QED BY <1>1, <1>2, <1>3, <1>4 DEF Faithful, Entry

\* Prices of one record are ordered as the positions of the pool that made them,
\* unless the greater is saturated and the pool was deeper when it was made.
THEOREM PricesFollowPools == Spec => []PriceFollowsPool
<1>1. SignalInv => PriceFollowsPool
  <2>0. SignalInv => \A i \in DOMAIN slot_price_history :
                       kind = "pumpfun" => slot_price_history[i].own
    BY DEF SignalInv, Faithful
  <2> SUFFICES ASSUME SignalInv, NEW i \in DOMAIN slot_price_history,
                      NEW j \in DOMAIN slot_price_history, Before(i, j) \/ Before(j, i),
                      slot_price_history[i].at < slot_price_history[j].at
               PROVE  LET a == slot_price_history[i]
                          b == slot_price_history[j]
                      IN  IF kind = "reverse" THEN a.price >= b.price \/ Diluted(a, b)
                          ELSE (a.price <= b.price /\ a.metrics <= b.metrics) \/ Diluted(b, a)
    BY <2>0 DEF PriceFollowsPool
  <2> DEFINE a == slot_price_history[i]
             b == slot_price_history[j]
  <2>1. /\ kind \in Kind /\ kind # "meteora"
        /\ a.at \in DOMAIN Curve /\ b.at \in DOMAIN Curve /\ a.at \in Nat /\ b.at \in Nat
        /\ a.depth \in Depth /\ b.depth \in Depth
        /\ a.price = ParserPrice(a.at, a.depth) /\ a.metrics = PoolMetrics(a.at, a.depth)
        /\ b.price = ParserPrice(b.at, b.depth) /\ b.metrics = PoolMetrics(b.at, b.depth)
    BY PricedEntries
  <2>2. a.at < b.at
    OBVIOUS
  <2> HIDE DEF a, b
  <2>3. IF kind = "reverse"
        THEN \/ a.price >= b.price /\ a.metrics >= b.metrics
             \/ Saturates(a.at, a.depth) /\ a.depth > b.depth
        ELSE \/ a.price <= b.price /\ a.metrics <= b.metrics
             \/ Saturates(b.at, b.depth) /\ b.depth > a.depth
    BY <2>1, <2>2, PricesOrdered
  <2> QED BY <2>3 DEF a, b, Diluted
<1> QED BY <1>1, SignalInvariant, PTL

\* A stop loss is sold on a loss the pool has, whatever saturates or is rounded,
\* deposited or withdrawn, but for a pool that is saturated when it is sold and
\* deeper than it was: there the price fell because liquidity came.
THEOREM LossesAreReal == Spec => []LossIsReal
<1>1. SignalInv => LossIsReal
  <2> SUFFICES ASSUME SignalInv, NEW i \in DOMAIN slot_price_history,
                      NEW j \in DOMAIN slot_price_history, Before(i, j),
                      Fell(slot_price_history[i].metrics, slot_price_history[j].metrics + 1)
               PROVE  LET a == slot_price_history[i]
                          b == slot_price_history[j]
                      IN  \/ IF kind = "reverse" THEN a.at < b.at ELSE PoolFell(a.at, b.at)
                          \/ Diluted(b, a)
    BY DEF LossIsReal
  <2> DEFINE a == slot_price_history[i]
             b == slot_price_history[j]
  <2>1. /\ kind \in Kind /\ kind # "meteora"
        /\ a.at \in DOMAIN Curve /\ b.at \in DOMAIN Curve /\ a.depth \in Depth /\ b.depth \in Depth
        /\ a.metrics = PoolMetrics(a.at, a.depth) /\ a.metrics \in Nat
        /\ b.metrics = PoolMetrics(b.at, b.depth) /\ b.metrics \in Nat
    BY PricedEntries
  <2>2. Fell(a.metrics, b.metrics + 1)
    OBVIOUS
  <2> HIDE DEF a, b
  <2>3. \/ IF kind = "reverse" THEN a.at < b.at ELSE PoolFell(a.at, b.at)
        \/ Saturates(b.at, b.depth) /\ b.depth > a.depth
    BY <2>1, <2>2, MeasuredFall
  <2> QED BY <2>3 DEF a, b, Diluted
<1> QED BY <1>1, SignalInvariant, PTL

\* No loss of the pool is missed by the metrics but where the price was saturated.
THEOREM LossesAreMeasured == Spec => []LossIsMeasured
<1>1. SignalInv => LossIsMeasured
  <2> SUFFICES ASSUME SignalInv, NEW i \in DOMAIN slot_price_history,
                      NEW j \in DOMAIN slot_price_history, Before(i, j), kind # "reverse",
                      PoolFell(slot_price_history[i].at, slot_price_history[j].at),
                      \/ kind = "pumpfun"
                      \/ ~Saturates(slot_price_history[i].at, slot_price_history[i].depth)
               PROVE  Fell(slot_price_history[i].metrics + 1, slot_price_history[j].metrics)
    BY DEF LossIsMeasured
  <2> DEFINE a == slot_price_history[i]
             b == slot_price_history[j]
  <2>1. /\ kind \in Kind \ {"reverse", "meteora"}
        /\ a.at \in DOMAIN Curve /\ b.at \in DOMAIN Curve /\ a.depth \in Depth /\ b.depth \in Depth
        /\ a.metrics = PoolMetrics(a.at, a.depth) /\ b.metrics = PoolMetrics(b.at, b.depth)
    BY PricedEntries
  <2>2. PoolFell(a.at, b.at) /\ (kind = "pumpfun" \/ ~Saturates(a.at, a.depth))
    OBVIOUS
  <2> HIDE DEF a, b
  <2>3. Fell(a.metrics + 1, b.metrics)
    BY <2>1, <2>2, FallMeasured
  <2> QED BY <2>3 DEF a, b
<1> QED BY <1>1, SignalInvariant, PTL

\* A trade is decoded with its own side, the named exceptions aside.
THEOREM SidesAreRight == Spec => []SideIsRight
<1>1. SignalInv => SideIsRight
  <2> SUFFICES ASSUME SignalInv, NEW to \in DOMAIN Curve, NEW bundled \in BOOLEAN, NEW b,
                      NEW trade \in OfToken(Transaction(to, depth, Token, to > at, bundled, b)),
                      kind # "reverse", ~(bundled /\ trade.dex_type = "PumpSwap"),
                      ~(kind = "pumpswap" /\ Ratio(Tok(to) * depth, Sol(to) * depth) = 0)
               PROVE  trade.is_buy = (to > at)
    BY DEF SideIsRight
  <2> DEFINE tx == Transaction(to, depth, Token, to > at, bundled, b)
  <2>0. trade \in fr_interpret_transaction_data(tx) /\ trade.mint = Token
        /\ tx.event = Event(to, depth, Token, to > at)
        /\ tx.logs = IF bundled THEN {"Buy", "Sell"} ELSE {Instruction(to > at)}
    BY DEF OfToken, Transaction
  <2>1. (to > at) \in BOOLEAN /\ Token # WSOL /\ kind \in Kind
    BY SignalAssumption, CurveFacts DEF SignalInv, TypeOK
  <2>2. Ratio(Tok(to) * depth, Sol(to) * depth) \in Nat
    <3>1. depth \in Nat /\ Tok(to) \in Nat /\ Sol(to) \in Nat
      BY CurveFacts, DepthFacts DEF SignalInv, TypeOK
    <3>2. Tok(to) * depth \in Nat /\ Sol(to) * depth \in Nat
      BY <3>1
    <3> QED BY <3>2, RatioTyped
  <2>3. ~bundled => ("Buy" \in tx.logs) = (to > at)
    BY <2>0, <2>1 DEF Instruction
  <2> HIDE DEF tx
  <2>4. CASE kind = "pumpswap"
    <3>1. tx.event = [length |-> 368, base |-> Tok(to) * depth, quote |-> Sol(to) * depth]
      BY <2>0, <2>4 DEF Event
    <3>2. trade = PumpSwapTrade(tx)
      BY <2>0, <3>1 DEF fr_interpret_transaction_data
    <3>3. trade.is_buy = ("Buy" \in tx.logs) /\ trade.dex_type = "PumpSwap"
      BY <2>2, <2>4, <3>1, <3>2 DEF PumpSwapTrade, Parsed, PumpSwapSide, fr_has_buy_instruction
    <3> QED BY <2>3, <3>3
  <2>5. CASE kind = "migration"
    <3>1. tx.event = [length |-> 270, base |-> Tok(to) * depth, quote |-> Sol(to) * depth]
      BY <2>0, <2>5 DEF Event
    <3>2. trade = PumpSwapMigrationTrade(tx)
      BY <2>0, <3>1 DEF fr_interpret_transaction_data
    <3>3. trade.is_buy = ("Buy" \in tx.logs) /\ trade.dex_type = "PumpSwap"
      BY <2>0, <2>1, <3>2 DEF PumpSwapMigrationTrade, Parsed, PumpSwapSide, fr_has_buy_instruction
    <3> QED BY <2>3, <3>3
  <2>6. CASE kind = "pumpfun"
    <3>1. tx.event = [length |-> 266, mint |-> Token, is_buy |-> (to > at),
                      virtual_sol |-> Sol(to), virtual_token |-> Tok(to)]
      BY <2>0, <2>6 DEF Event
    <3>2. trade = PumpFunTrade(tx)
      BY <2>0, <3>1 DEF fr_interpret_transaction_data
    <3> QED BY <3>1, <3>2 DEF PumpFunTrade, Parsed
  <2>7. CASE kind = "launchpad"
    <3>1. tx.event = [length |-> 146, is_sell |-> ~(to > at),
                      virtual_quote |-> Sol(1), real_quote_after |-> Sol(to) - Sol(1),
                      virtual_base |-> Tok(1), real_base_after |-> Tok(1) - Tok(to)]
      BY <2>0, <2>7 DEF Event
    <3>2. trade = LaunchpadTrade(tx)
      BY <2>0, <3>1 DEF fr_interpret_transaction_data
    <3>3. trade.is_buy = ~tx.event.is_sell
      BY <3>2 DEF LaunchpadTrade, Parsed
    <3>4. tx.event.is_sell = ~(to > at)
      BY <3>1
    <3> QED BY <2>1, <3>3, <3>4, Zenon
  <2>8. CASE kind = "meteora"
    <3>1. tx.event = [length |-> 170]
      BY <2>0, <2>8 DEF Event
    <3> QED BY <2>0, <3>1 DEF fr_interpret_transaction_data
  <2> QED BY <2>1, <2>4, <2>5, <2>6, <2>7, <2>8, SignalAssumption DEF AMM
<1> QED BY <1>1, SignalInvariant, PTL
=============================================================================
