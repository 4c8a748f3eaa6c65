----------------------------- MODULE SellDecision -----------------------------
(***************************************************************************)
(* When a position is sold: the metrics the selling engine                 *)
(* (selling_prostrategy.rs) keeps of a token and the verdicts given on     *)
(* them (fr_handle_parsed_data_for_selling).                               *)
(*                                                                         *)
(* The trades a monitor brings are anybody's, and each has a handler of    *)
(* its own.  A handler waits for the wallet's balance (a failed RPC counts *)
(* as an empty wallet), refreshes the metrics, evaluates them and, when    *)
(* the verdict is a whale sale, reads them once more; other handlers run   *)
(* between any two of these.  That last read keeps its guard of            *)
(* TOKEN_METRICS for all that follows: if the metrics no longer call for a *)
(* whale sale, for a regular sale that is awaited in place.  Who then      *)
(* writes to the map blocks a worker thread of the runtime, and when all   *)
(* are blocked nobody is left to resume the one who holds the guard.       *)
(*                                                                         *)
(* Prices are natural numbers of a unit small enough that rounding down    *)
(* stands for the rounding of an f64; percentages are compared exactly.    *)
(***************************************************************************)
EXTENDS Integers, FiniteSets

CONSTANTS
  Handler,                \* slots: tasks that handle a trade of the token
  Workers,                \* threads of the runtime
  Price,                  \* of a trade that has one
  Amount,                 \* tokens of a trade or of the wallet, 0 among them
  Liquidity,              \* of a pool, 0 where it is not known
  WhaleTiers,             \* PnL percentages of the whale selling thresholds
  TakeProfit, StopLoss,   \* PnL percentages; stop_loss is -StopLoss
  Retracement,            \* percentage below the highest price
  MinLiquidity, MaxDrop   \* absolute, and a percentage of that at entry

ASSUME DecisionAssumption ==
  /\ IsFiniteSet(Handler) /\ Workers \in Nat \ {0}
  /\ Price \subseteq Nat \ {0}
  /\ Amount \subseteq Nat /\ 0 \in Amount /\ Liquidity \subseteq Nat
  /\ WhaleTiers \subseteq Nat /\ TakeProfit \in Nat /\ StopLoss \in Nat \ {0}
  /\ Retracement \in Nat /\ MinLiquidity \in Nat /\ MaxDrop \in Nat

VARIABLES
  metrics,                \* TOKEN_METRICS of the token: none or one record
  pc,                     \* a handler
  cleanUpWaits,           \* a cleanup is blocked by a guard
  boughtAt,               \* history: price the position was booked at, or 0
  moved,                  \* history: the entry price is another one since
  left,                   \* history: handlers whose trade left the range of prices
  overtaken,              \* history: somebody wrote since the handler's last look
  last                    \* history: the last verdict on the metrics as they are

handlerVars == <<pc, cleanUpWaits>>
vars == <<metrics, handlerVars, boughtAt, moved, left, overtaken, last>>

Metrics ==
  [entry_price : Nat, highest_price : Price, lowest_price : Price, current_price : Price,
   amount_held : Amount, liquidity_at_entry : Liquidity, liquidity_at_current : Liquidity,
   overdue : BOOLEAN]     \* more than max_hold_time since last_update

\* What fr_refresh_metrics takes from a parsed trade (price 0: it has none).  It
\* never looks at the tokens of a sale.
Trade == [is_buy : {TRUE}, price : Price \cup {0}, tokens : Amount]
           \cup [is_buy : {FALSE}, price : Price \cup {0}, tokens : {0}]

TypeOK ==
  /\ metrics \subseteq Metrics /\ \A m, n \in metrics : m = n
  /\ \A m \in metrics : \E p \in Price : m.entry_price <= p
  /\ pc \in [Handler -> {"idle", "blocked", "evaluate", "reread", "selling"}]
  /\ cleanUpWaits \in BOOLEAN
  /\ boughtAt \in Price \cup {0} /\ moved \in BOOLEAN
  /\ left \subseteq Handler /\ overtaken \subseteq Handler
  /\ last \in {"none", "hold", "whale", "regular"}

Init ==
  /\ metrics = {}
  /\ pc = [h \in Handler |-> "idle"] /\ cleanUpWaits = FALSE
  /\ boughtAt = 0 /\ moved = FALSE
  /\ left = {} /\ overtaken = {} /\ last = "none"
-----------------------------------------------------------------------------
(* fr_refresh_metrics *)

\* Mutant: the new tokens are left out of the divisor.
AverageOfHeld(entry, held, price, tokens) ==
  (entry * held + price * tokens) \div held

WeightedAverage(entry, held, price, tokens) ==
  (entry * held + price * tokens) \div (held + tokens)

\* The entry price after a trade of a token with metrics m.
EntryAfter(m, trade) ==
  IF trade.is_buy /\ trade.tokens > 0
    THEN IF m.amount_held > 0 /\ m.entry_price > 0
           THEN WeightedAverage(m.entry_price, m.amount_held, trade.price, trade.tokens)
           ELSE trade.price
    ELSE IF ~trade.is_buy /\ m.entry_price = 0 THEN trade.price ELSE m.entry_price

\* Metrics of a token that has none, with the price as the first of its range.
NewMetrics(price, liquidity) ==
  [entry_price |-> 0, highest_price |-> price, lowest_price |-> price,
   current_price |-> price, amount_held |-> 0, liquidity_at_entry |-> liquidity,
   liquidity_at_current |-> liquidity, overdue |-> FALSE]

Updated(m, trade, balance, liquidity) ==
  [m EXCEPT
     !.entry_price = EntryAfter(m, trade),
     !.highest_price = IF trade.price > @ THEN trade.price ELSE @,
     !.lowest_price = IF trade.price < @ THEN trade.price ELSE @,
     !.current_price = trade.price,
     !.amount_held = balance,
     !.liquidity_at_entry = IF trade.is_buy /\ trade.tokens > 0 THEN liquidity ELSE @,
     !.liquidity_at_current = liquidity]

\* A trade without a price is refused and changes nothing.
Refreshed(trade, balance, liquidity) ==
  IF trade.price = 0 THEN metrics
  ELSE {Updated(m, trade, balance, liquidity) :
          m \in IF metrics = {} THEN {NewMetrics(trade.price, liquidity)} ELSE metrics}
-----------------------------------------------------------------------------
(* fr_evaluate_sell_conditions *)

\* Mutant: the gain is measured against the highest price.
GainsFromHigh(m, percent) ==
  m.entry_price > 0 /\ 100 * (m.current_price - m.highest_price) >= percent * m.highest_price

\* PnL >= percent, where the PnL of a token without an entry price is 0.
Gains(m, percent) ==
  IF m.entry_price > 0
    THEN 100 * (m.current_price - m.entry_price) >= percent * m.entry_price
    ELSE percent <= 0

\* Mutant: a loss of just the limit is not one yet.
LosesMore(m, percent) ==
  m.entry_price > 0 /\ 100 * (m.current_price - m.entry_price) < -percent * m.entry_price

\* PnL <= -percent, for a percentage above 0.
Loses(m, percent) ==
  m.entry_price > 0 /\ 100 * (m.current_price - m.entry_price) <= -percent * m.entry_price

InProfit(m) == m.entry_price > 0 /\ m.current_price > m.entry_price

Retraced(m) ==
  100 * (m.highest_price - m.current_price) >= Retracement * m.highest_price

LiquidityGone(m) ==
  LET now == m.liquidity_at_current
      then == m.liquidity_at_entry
  IN /\ now > 0 /\ then > 0
     /\ now < MinLiquidity \/ 100 * (then - now) >= MaxDrop * then

WhaleSale(m) == \E tier \in WhaleTiers : Gains(m, tier)

RegularSale(m) ==
  \/ m.overdue
  \/ Loses(m, StopLoss)
  \/ InProfit(m) /\ Retraced(m)
  \/ Gains(m, TakeProfit)
  \/ LiquidityGone(m)

Verdict(ms) ==
  CASE \E m \in ms : WhaleSale(m) -> "whale"
    [] \E m \in ms : ~WhaleSale(m) /\ RegularSale(m) -> "regular"
    [] OTHER -> "hold"
-----------------------------------------------------------------------------
(* Handlers *)

\* Guards of the metrics that are held over an await.
Guards == {h \in Handler : pc[h] = "selling"}

\* Handlers that looked at the metrics and will look again.
Looking == {h \in Handler : pc[h] \in {"evaluate", "reread"}}

Blocked == {h \in Handler : pc[h] = "blocked"}

\* A worker thread is left to resume tasks.
Running == Cardinality(Blocked) + (IF cleanUpWaits THEN 1 ELSE 0) < Workers

Goto(h, state) == pc' = [pc EXCEPT ![h] = state] /\ UNCHANGED cleanUpWaits

\* fr_execute_buy refreshes the metrics with the trade that triggered the buy.
BookBuy(trade, balance, liquidity) ==
  /\ boughtAt = 0
  /\ trade.price > 0
  /\ boughtAt' = trade.price
  /\ metrics' = Refreshed(trade, balance, liquidity)
  /\ UNCHANGED <<handlerVars, moved, left, overtaken, last>>

\* A sale by somebody, the kind of trade that does not move the entry price, at
\* a price that leaves the range seen so far by a whale tier upwards or by the
\* stop loss downwards.
LeavesRange(m, price) ==
  \/ \E tier \in WhaleTiers : 100 * (price - m.highest_price) >= tier * m.highest_price
  \/ 100 * (price - m.lowest_price) <= -StopLoss * m.lowest_price
Leaves(trade) ==
  ~trade.is_buy /\ \E m \in metrics : m.entry_price # 0 /\ LeavesRange(m, trade.price)

\* A handler got its balance.  To write it needs the map to itself.
Refresh(h, trade, balance, liquidity) ==
  /\ boughtAt # 0 /\ trade.price > 0
  /\ pc[h] = "blocked" \/ (pc[h] = "idle" /\ Running)
  /\ Guards = {}
  /\ metrics' = Refreshed(trade, balance, liquidity)
  /\ Goto(h, "evaluate")
  /\ moved' = (moved \/ \E m \in metrics', n \in metrics : m.entry_price # n.entry_price)
  /\ left' = IF Leaves(trade) THEN left \cup {h} ELSE left \ {h}
  /\ overtaken' = Looking
  /\ last' = "none"
  /\ UNCHANGED boughtAt

\* A trade without a price is refused before the map is asked for.
RefreshErr(h) ==
  /\ boughtAt # 0 /\ pc[h] = "idle" /\ Running
  /\ Goto(h, "evaluate")
  /\ left' = left \ {h}
  /\ UNCHANGED <<metrics, boughtAt, moved, overtaken, last>>

RefreshBlocks(h) ==
  /\ pc[h] = "idle" /\ Guards # {} /\ Running
  /\ Goto(h, "blocked")
  /\ UNCHANGED <<metrics, boughtAt, moved, left, overtaken, last>>

\* Readers share the map.  A regular sale is awaited without a guard and
\* touches nothing here.
Evaluate(h) ==
  /\ pc[h] = "evaluate" /\ Running
  /\ last' = Verdict(metrics)
  /\ Goto(h, IF last' = "whale" THEN "reread" ELSE "idle")
  /\ left' = left \ {h} /\ overtaken' = overtaken \ {h}
  /\ UNCHANGED <<metrics, boughtAt, moved>>

\* Mutant: the whale sale is awaited in place too.
AwaitedAfterReread(ms) == IF ms = {} THEN "idle" ELSE "selling"

\* A whale sale is spawned, and without metrics no guard is held; otherwise a
\* regular sale is awaited with it.
AfterReread(ms) ==
  IF \E m \in ms : ~WhaleSale(m) THEN "selling" ELSE "idle"

Reread(h) ==
  /\ pc[h] = "reread" /\ Running
  /\ Goto(h, AfterReread(metrics))
  /\ UNCHANGED <<metrics, boughtAt, moved, left, overtaken, last>>

\* Sent or not: the handler ends and lets go of the map.
SaleReturns(h) ==
  /\ pc[h] = "selling" /\ Running
  /\ Goto(h, "idle")
  /\ UNCHANGED <<metrics, boughtAt, moved, left, overtaken, last>>

\* max_hold_time passes; last_update is set once, when the metrics are made.
HoldTimePasses ==
  /\ \E m \in metrics : ~m.overdue
  /\ metrics' = {[m EXCEPT !.overdue = TRUE] : m \in metrics}
  /\ last' = "none"
  /\ UNCHANGED <<handlerVars, boughtAt, moved, left, overtaken>>

\* A cleanup found the wallet empty; handlers that still run start afresh.
CleanUp ==
  /\ metrics # {} /\ Guards = {} /\ (cleanUpWaits \/ Running)
  /\ metrics' = {} /\ cleanUpWaits' = FALSE
  /\ moved' = TRUE /\ overtaken' = Looking /\ last' = "none"
  /\ UNCHANGED <<pc, boughtAt, left>>

CleanUpBlocks ==
  /\ Guards # {} /\ Running /\ ~cleanUpWaits
  /\ cleanUpWaits' = TRUE
  /\ UNCHANGED <<metrics, pc, boughtAt, moved, left, overtaken, last>>

HandlerStep(h) ==
  \/ \E trade \in Trade, balance \in Amount, liquidity \in Liquidity :
        Refresh(h, trade, balance, liquidity)
  \/ RefreshErr(h) \/ RefreshBlocks(h) \/ Evaluate(h) \/ Reread(h) \/ SaleReturns(h)

Next ==
  \/ \E trade \in Trade, balance \in Amount, liquidity \in Liquidity :
        BookBuy(trade, balance, liquidity)
  \/ \E h \in Handler : HandlerStep(h)
  \/ HoldTimePasses
  \/ CleanUp \/ CleanUpBlocks

Spec == Init /\ [][Next]_vars
-----------------------------------------------------------------------------
(* Properties *)

\* Whatever trades move it, the entry price is one the token was traded at, or
\* between two such prices: it lies in the range seen since the metrics were
\* made (0 is an entry price that is not known yet).
EntryWithinRange ==
  \A m \in metrics :
    /\ m.lowest_price <= m.current_price /\ m.current_price <= m.highest_price
    /\ m.entry_price # 0 => m.lowest_price <= m.entry_price /\ m.entry_price <= m.highest_price

\* A trade that leaves the range of prices makes its handler sell, unless
\* somebody wrote to the metrics between its refresh and its evaluation.
RangeLeftIsSold ==
  [][\A h \in left \ overtaken :
       pc[h] = "evaluate" /\ pc'[h] # "evaluate" => last' # "hold"]_vars

\* A position that has lost the stop loss since it was booked is held only if
\* somebody's buy moved the entry price, a cleanup dropped the metrics, or the
\* position was booked with a buy of no tokens.
LossHeldOnlyIfMoved ==
  \A m \in metrics :
    /\ last = "hold"
    /\ 100 * (m.current_price - boughtAt) <= -StopLoss * boughtAt
    => moved \/ m.entry_price = 0

\* "Use non-blocking spawned task to prevent bot from getting stuck"
\* (sniper-bot.rs:3689): all worker threads are blocked on the metrics only
\* after a whale verdict that somebody overtook, and never for a whale sale.
StuckOnlyIfOvertaken ==
  ~Running => Guards \cap overtaken # {}
=============================================================================
