------------------------------ MODULE TradeSignal ------------------------------
(***************************************************************************)
(* What the prices of a token tell the program: the pool of the token      *)
(* moves along its curve, and liquidity is deposited in a PumpSwap pool or *)
(* withdrawn.  Each trade is decoded from its transaction, the handler of  *)
(* the trade appends (slot, price) to the token's focus record and         *)
(* computes the two-slot drop that arms a sniper buy, and a monitor's      *)
(* handler computes the price its metrics see.                             *)
(*                                                                         *)
(* A transaction may log the instructions of another trade, or go through  *)
(* two pools, in which case the event that is read may be the other pool's.*)
(***************************************************************************)
EXTENDS TradeDecoding

CONSTANTS
  Kind,                   \* of pools: a DEX and the side WSOL is on
  Curve,                  \* <<sol, token>> reserves, by rising price of the token
  Depth,                  \* liquidity of a pool: its reserves are these times the curve's
  Balances,               \* orders of the mints in the token balances
  Token, Other,           \* this token, and that of another pool
  OtherAt,                \* positions of that pool, on a curve like this one's
  StopLoss,               \* percentage
  HistoryCap,             \* length of slot_price_history (16 in the code)
  MaxSlot                 \* bound: slots of the stream

Sol(at) == Curve[at][1]
Tok(at) == Curve[at][2]

\* The formats of PumpSwap, whose pools take deposits and give withdrawals.
AMM == {"pumpswap", "reverse", "migration"}

\* On a curve whoever pays SOL in takes tokens out.
ASSUME SignalAssumption ==
  /\ Kind \subseteq AMM \cup {"pumpfun", "launchpad", "meteora"}
  /\ Curve \in Seq((Nat \ {0}) \X (Nat \ {0}))
  /\ \A i, j \in DOMAIN Curve : i < j => Sol(i) < Sol(j) /\ Tok(i) > Tok(j)
  /\ Depth \subseteq Nat \ {0} /\ 1 \in Depth
  /\ {Token, Other, WSOL} \cap {DefaultMint} = {} /\ Token # Other /\ WSOL \notin {Token, Other}
  /\ OtherAt \subseteq DOMAIN Curve
  /\ StopLoss \in 1..100 /\ HistoryCap \in Nat \ {0, 1, 2} /\ MaxSlot \in Nat \ {0}

VARIABLES
  kind,                   \* of the token's pool
  at,                     \* where the pool is on its curve
  depth,                  \* of its liquidity
  slot,                   \* of the stream
  slot_price_history,     \* of the focus record, with what each entry was made from
  two_slot_drop_active

vars == <<kind, at, depth, slot, slot_price_history, two_slot_drop_active>>

\* slot and price are the code's entry, metrics the price fr_refresh_metrics
\* computes; made: the stream's slot; at, depth, own: where the pool was, of what
\* depth, and whether it is the token's.
Entry == [slot : Nat, price : Nat, metrics : Nat,
          made : 1..MaxSlot, at : DOMAIN Curve, depth : Depth, own : BOOLEAN]

TypeOK ==
  /\ kind \in Kind /\ at \in DOMAIN Curve /\ depth \in Depth /\ slot \in 1..MaxSlot
  /\ slot_price_history \in Seq(Entry) /\ Len(slot_price_history) <= HistoryCap
  /\ \A i \in DOMAIN slot_price_history : slot_price_history[i].price <= U64MAX
  /\ two_slot_drop_active \in BOOLEAN

Init ==
  /\ kind \in Kind /\ at \in DOMAIN Curve /\ depth = 1 /\ slot = 1
  /\ slot_price_history = <<>> /\ two_slot_drop_active = FALSE
-----------------------------------------------------------------------------
(* Transactions *)

\* The event a pool of depth d emits for a trade that left it at p.
Event(p, d, mint, bought) ==
  CASE kind = "pumpswap"  -> [length |-> 368, base |-> Tok(p) * d, quote |-> Sol(p) * d]
    [] kind = "migration" -> [length |-> 270, base |-> Tok(p) * d, quote |-> Sol(p) * d]
    [] kind = "reverse"   -> [length |-> 368, base |-> Sol(p) * d, quote |-> Tok(p) * d]
    [] kind = "pumpfun"   -> [length |-> 266, mint |-> mint, is_buy |-> bought,
                              virtual_sol |-> Sol(p), virtual_token |-> Tok(p)]
    [] kind = "launchpad" -> [length |-> 146, is_sell |-> ~bought,
                              virtual_quote |-> Sol(1), real_quote_after |-> Sol(p) - Sol(1),
                              virtual_base |-> Tok(1), real_base_after |-> Tok(1) - Tok(p)]
    [] kind = "meteora"   -> [length |-> 170]

\* The instruction's name speaks of the pool's base.
Instruction(bought) == IF bought # (kind = "reverse") THEN "Buy" ELSE "Sell"

Transaction(p, d, mint, bought, bundled, balances) ==
  [event    |-> Event(p, d, mint, bought),
   logs     |-> IF bundled THEN {"Buy", "Sell"} ELSE {Instruction(bought)},
   balances |-> balances]
-----------------------------------------------------------------------------
(* fr_handle_volume_based_buying *)

FromEnd(s, i) == s[Len(s) + 1 - i]

\* Mutant: a cap that keeps one entry more.
CappedLate(s) == IF Len(s) > HistoryCap + 1 THEN Tail(s) ELSE s

Capped(s) == IF Len(s) > HistoryCap THEN Tail(s) ELSE s

two_slot_drop(h) ==
  /\ Len(h) >= 3
  /\ FromEnd(h, 3).slot < FromEnd(h, 2).slot /\ FromEnd(h, 2).slot < FromEnd(h, 1).slot
  /\ FromEnd(h, 3).price > FromEnd(h, 2).price /\ FromEnd(h, 2).price > FromEnd(h, 1).price

OfToken(tx) == {trade \in fr_interpret_transaction_data(tx) : trade.mint = Token}

\* The handler's part, for an event of the token's pool (own) or of another, at p
\* and of depth d.
Handle(tx, p, d, own) ==
  \/ /\ OfToken(tx) = {}
     /\ UNCHANGED <<slot_price_history, two_slot_drop_active>>
  \/ \E trade \in OfToken(tx) :
       /\ slot_price_history' =
            Capped(Append(slot_price_history,
                     [slot |-> trade.slot, price |-> trade.price,
                      metrics |-> MetricsPrice(trade), made |-> slot,
                      at |-> p, depth |-> d, own |-> own]))
       /\ two_slot_drop_active' = two_slot_drop(slot_price_history')
-----------------------------------------------------------------------------
SlotPasses ==
  /\ slot < MaxSlot
  /\ slot' = slot + 1
  /\ UNCHANGED <<kind, at, depth, slot_price_history, two_slot_drop_active>>

\* Somebody trades in the token's pool.
Trade(to, bundled, balances) ==
  /\ to # at
  /\ at' = to
  /\ Handle(Transaction(to, depth, Token, to > at, bundled, balances), to, depth, TRUE)
  /\ UNCHANGED <<kind, depth, slot>>

\* Liquidity is deposited or withdrawn, or fees stay in the pool: its reserves
\* change together, its price does not.  The parser reads no event of it.
Deposit(d) ==
  /\ kind \in AMM
  /\ d # depth
  /\ depth' = d
  /\ UNCHANGED <<kind, at, slot, slot_price_history, two_slot_drop_active>>

\* A transaction through this pool and another, at p, whose event comes first.
RoutedTrade(p, balances) ==
  /\ at' = at
  /\ Handle(Transaction(p, 1, Other, TRUE, FALSE, balances), p, 1, FALSE)
  /\ UNCHANGED <<kind, depth, slot>>

\* The record grew old, or was added again: it starts over.
RecordReplaced ==
  /\ slot_price_history # <<>>
  /\ slot_price_history' = <<>> /\ two_slot_drop_active' = FALSE
  /\ UNCHANGED <<kind, at, depth, slot>>

Next ==
  \/ SlotPasses
  \/ \E to \in DOMAIN Curve, bundled \in BOOLEAN, b \in Balances : Trade(to, bundled, b)
  \/ \E d \in Depth : Deposit(d)
  \/ \E p \in OtherAt, b \in Balances : RoutedTrade(p, b)
  \/ RecordReplaced

Spec == Init /\ [][Next]_vars
-----------------------------------------------------------------------------
(* Properties *)

\* i before j, both made from the token's own pool and with a price.
Before(i, j) ==
  /\ i < j
  /\ \A k \in {i, j} : slot_price_history[k].own /\ slot_price_history[k].metrics > 0

\* The product a price is the quotient of does not fit a u64; in launchpad's f64
\* arithmetic, the price itself.
Saturates(p, d) ==
  U64MAX < CASE kind = "launchpad"                  -> FloatRatio(Sol(p), Tok(p))
             [] kind = "reverse"                    -> Tok(p) * d * LAMPORTS
             [] kind \in {"pumpswap", "migration"} -> Sol(p) * d * LAMPORTS
             [] OTHER                               -> Sol(p) * LAMPORTS

\* The price of a saturated pool is U64MAX by the other reserve: liquidity lowers
\* it.  One SOL is 10^9 lamports: above 18.4 SOL every PumpSwap pool is there.
Diluted(e, than) == Saturates(e.at, e.depth) /\ e.depth > than.depth

\* In spite of rounding, prices are ordered as the pool's positions are, unless
\* the greater one is diluted; those of a pool with WSOL as its base are ordered
\* the wrong way round, because 368-byte events never show that they are reverse.
\* PumpFun's events name their mint: no other pool's trade is taken for the token's.
PriceFollowsPool ==
  \A i, j \in DOMAIN slot_price_history :
    LET a == slot_price_history[i]
        b == slot_price_history[j]
    IN  /\ kind = "pumpfun" => a.own
        /\ (Before(i, j) \/ Before(j, i)) /\ a.at < b.at
             => IF kind = "reverse" THEN a.price >= b.price \/ Diluted(a, b)
                ELSE (a.price <= b.price /\ a.metrics <= b.metrics) \/ Diluted(b, a)

Fell(before, after) == 100 * (after - before) <= -StopLoss * before

\* The token lost StopLoss percent of its price from p to q.
PoolFell(p, q) == Fell(Sol(p) * Tok(q), Sol(q) * Tok(p))

\* A stop loss is sold on a loss the pool has, a unit of rounding aside, or on a
\* deposit in a pool whose price is saturated, which is no loss.  In a pool with
\* WSOL as its base it is sold on a gain.
LossIsReal ==
  \A i, j \in DOMAIN slot_price_history :
    LET a == slot_price_history[i]
        b == slot_price_history[j]
    IN  Before(i, j) /\ Fell(a.metrics, b.metrics + 1)
        => \/ IF kind = "reverse" THEN a.at < b.at ELSE PoolFell(a.at, b.at)
           \/ Diluted(b, a)

\* A loss of the pool is missed by the metrics, a unit of rounding aside, only
\* where the price before it was saturated, which PumpFun's cannot be, or in a
\* reverse pool.
LossIsMeasured ==
  \A i, j \in DOMAIN slot_price_history :
    LET a == slot_price_history[i]
        b == slot_price_history[j]
    IN  Before(i, j) /\ kind # "reverse" /\ PoolFell(a.at, b.at)
        => \/ Fell(a.metrics + 1, b.metrics)
           \/ kind # "pumpfun" /\ Saturates(a.at, a.depth)

\* A trade is decoded with its own side, but in PumpSwap transactions that log
\* another trade's instruction, in pools with WSOL as their base, and in those
\* so drained of the token that they are taken for such.
SideIsRight ==
  \A to \in DOMAIN Curve \ {at}, bundled \in BOOLEAN, b \in Balances :
    \A trade \in OfToken(Transaction(to, depth, Token, to > at, bundled, b)) :
      \/ trade.is_buy = (to > at)
      \/ bundled /\ trade.dex_type = "PumpSwap"
      \/ kind = "reverse"
      \/ kind = "pumpswap" /\ Ratio(Tok(to) * depth, Sol(to) * depth) = 0

\* "price decreased over each of the last two slots compared to prior slot price":
\* the drop is seen when the last three entries were made in rising slots.
DropIsSeen ==
  LET h == slot_price_history
  IN  /\ Len(h) >= 3
      /\ FromEnd(h, 3).made < FromEnd(h, 2).made /\ FromEnd(h, 2).made < FromEnd(h, 1).made
      /\ FromEnd(h, 3).price > FromEnd(h, 2).price /\ FromEnd(h, 2).price > FromEnd(h, 1).price
      => two_slot_drop_active
=============================================================================
