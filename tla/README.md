# A TLA+ model of solana-pumpfunx-sniper-bot

The program watches a Solana stream for trades of new tokens, buys when a token
drops in a certain way, watches what it bought and sells it again. It is one
process of tokio tasks that share process-wide `DashMap`s; no lock ties two maps
together, transactions are broadcast and polled for, and every decision is taken
on what an RPC said a moment ago. These modules model the control of that core,
TLC checks them on small instances, and TLAPS proves the main invariants for
every value of the constants.

The sources have been through a textual rename (`FrPub`, `FrFor`, `fr_insert`,
`fr_str` ...); such words are read as the keyword or method they replace.
Line numbers below are those of `src/src/engine/sniper-bot.rs` (SB),
`selling_prostrategy.rs` (SP), `transaction_retry.rs` (TR).

## Inventory

| Part | State | Operations | Talks to | Hard behaviour | What makes it correct |
|---|---|---|---|---|---|
| Dispatcher (SB 504-633) | `SHOULD_CONTINUE_STREAMING` | subscribe, one spawned handler per trade, stop | everything, by spawning | flag read only between messages, no reconnection | the flag goes down only when nothing is held |
| Focus list (SB 3169-3434) | `FOCUS_TOKEN_LIST`, `PRICE_MONITORING_TASKS` | add a record, launch a price task, evaluate a trade, tick, remove, unregister | configuration mutex, buy | check-then-insert across threads, guards held over awaits, removal by key | every record is watched, every registration runs, old records go |
| Drop signal (SB 3300-3338) | `slot_price_history`, `two_slot_drop_active` of a record | append, cap, compare | parser, focus list | handlers run out of stream order; slots are compared that nobody sets | a drop of the stream is seen |
| Buy (SB 639-1246, 3437-3494, 4154-4247) | `BOUGHT_TOKEN_LIST`, `BOUGHT_TOKENS_BLACKLIST`, `TOKEN_TRACKING` | check limit and blacklist, build, send, verify, refresh metrics, book, set up a monitor | chain, selling engine | verification gives up on a buy that lands; checks and inserts far apart | what is held is listed; nothing is bought twice; the limit holds |
| Monitor (SB 3792-4076) | `MONITORING_TASKS`, cancellation tokens | register, connect, handle trades, stop | sell handlers | overwritten registrations, random select, no restart, trades read as another token's | one monitor per token, and it can be cancelled |
| Emergency sale (SB 3496-3789, SP 1744-2025) | handler's own | detect a whale, evaluate, read balance, send, fall back, cancel monitoring | chain, registries | never verified; two sales in flight | a token is dropped when it is sold |
| Sell decision (SB 3537-3789, SP 916-1265, 341-376) | `TOKEN_METRICS` | refresh metrics, evaluate, look again for a whale sale, clean up | handlers, worker threads | anybody's trades move the entry price; balance errors count as 0; handlers refresh between refresh and verdict; a guard held over an awaited sale | losses and profits past the limits are sold; the threads are not all blocked |
| Standard sale (SB 2281-3105, TR) | attempt and poll counters | read balance, build, send, poll, retry, clean up | chain, relay | late landings, forks, lost answers | one sale stands; "sold" means executed; it comes to an answer |
| Sweeper (SB 1792-1868, 4250-4406, SP 501-611) | snapshots, cycle counter | basic pass each tick, comprehensive pass and the selling engine's pass each fourth | all registries | balance read before an await | drops nothing held, forgets everything sold |
| Copy sell, enhanced sell, wallet monitoring (SB 4089-4153, 1661-1786, 1249-1370) | registries | sell and unregister | sweeper, chain | guard held while the same key is removed | not modelled; no caller in this commit |
| Instruction builders (`dex/pump_fun.rs`, `pump_swap.rs`, `raydium_launchpad.rs`) | `WALLET_TOKEN_ACCOUNTS` | look for accounts, list what is to be created, compute amounts, order swap and closing | RPC, chain | the list is written when an instruction is built, not when it lands; two orders check and insert at once; closing before the swap | where list and chain differ there is a reason; a sale of the balance goes through |
| Account caches (`common/cache.rs`, `cache_maintenance.rs`, `core/token.rs`) | `FR_TOKEN_ACCOUNT_CACHE` with its expiry | insert, fetch, clear expired | builders, RPC | an answer is old before it is cached, and old again when it is used | the age of what a sale goes by is bounded |
| Parser (`transaction_parser.rs`) | none | tell the format by its length, decode a trade, guess mint and side, compute the price | all handlers | saturating u64, rounding, two arithmetics for one price, facts guessed from the rest of the transaction | a measured loss is a loss, and the other way round; sides are right |
| Relay and RPC (`oneslot.rs`, `rpc_client.rs`, `core/tx.rs`) | connection pools | send, resend, batch reads | chain | an error although it was delivered | by their outcomes only |
| Host (`main.rs`), configuration (`config.rs`) | the configuration mutex | read the list of token accounts, start maintenance and engine; `--wrap`, `--unwrap`, `--close` as processes of their own | everything | a guard held for the life of the engine; a run starts while the last one's transactions still land; host commands beside a run | by what they hold, when they end and what they do to the wallet's accounts |
| Logging, error types, spectate | none that matters | | | | not modelled |

## Modules

| Module | Models | State and actions |
|---|---|---|
| `PositionLifecycle` | buy, monitor, emergency sale, sweeper, stop flag | the maps under their names; one program counter per buy handler, monitor task, sell handler and for the sweeper; `BeginSniperBuy`/`BeginCopyBuy` ... `BookBuy`, `Monitor...`, `Sell...`, `Sweep...`, `DispatcherStops`; transactions land or fail on their own |
| `Portfolio` | abstract: what the engine promises about a token | ordered, bought, listed, held, astray, misread; `Order` ... `Book`, `Sell`, `Delist`. `PositionLifecycle` implements it: `ordered` is who a buy handler executes, `bought` the blacklist, `listed` `BOUGHT_TOKEN_LIST`, `held` the wallet, `astray` a buy that returned Err or overlapped, `misread` a token some other token's trade was read as |
| `MCPositionLifecycle` | symmetry sets for TLC | |
| `SaleOrder` | abstract: what a caller may expect of a sale | one answer, "sold" only after a sale took effect |
| `SellRetry` | `fr_execute_sell` and its retry loop | attempt, poll and fate of each broadcast; refines `SaleOrder` |
| `FocusTrigger` | focus list, price tasks, the locks of a trigger | handlers and price tasks with program counters; `Stuck` for a handler that waits for its own guard |
| `TradeDecoding` | the parser's formats and arithmetic | pure operators, one per format: `PumpSwapTrade` ... `LaunchpadTrade`, `MetricsPrice` for the price `fr_refresh_metrics` computes anew |
| `TradeSignal` | what a record's prices say about the pool | the pool's position on its curve and the depth of its liquidity beside the record's history; `Trade`, `RoutedTrade` build a transaction and handle what it is decoded as, `Deposit` changes the depth |
| `MCTradeSignal` | a curve and balance orders for TLC | |
| `SellDecision` | handlers of a token's trades, its metrics and the verdicts | one metrics record or none; a program counter per handler (`Refresh`, `Evaluate`, `Reread`, `SaleReturns`), `RefreshBlocks` and `CleanUpBlocks` for tasks that wait for the map with a worker thread |
| `MCSellDecision` | symmetry for TLC | |
| `SwapBuild` | the three builders for one token, the list and the cache they decide by, the wallet's accounts on the chain, runs of the bot and host commands | an order per slot from its checks (`PumpFunBuyChecks` ...) over `ListMissing` and `...Built` to a transaction, which `TxExecutes` or is lost; `Tick` ages cache and RPCs; `EngineStops`/`EngineStarts` forget and read the list; `WrapSol`, `UnwrapSol`, `CloseAllTokenAccounts` |
| `MCSwapBuild` | reserves and symmetry for TLC | |
| `..._proofs` | theorems about the module they extend | |

`PositionLifecycle` takes from `FocusTrigger` only that some trade triggers a buy,
and from `SellDecision` only a verdict (hold, whale, regular): both are free
choices there, so its safety properties hold whatever they decide. `SellRetry` and
`PositionLifecycle` take from `SwapBuild` only that a build may fail and a transaction may not
land, which it explains.

### Grain and abstractions

* The code a task runs from one suspension point to the next is one step. Reads of
  an RPC are one step with what follows only where nothing is awaited in between;
  the sweeper's balance read and what it does about it are two.
* The amount of a token is counted in lots (one buy, one lot) in
  `PositionLifecycle`, in units in `SellRetry`.
* In `PositionLifecycle` balances that an RPC reported are not rolled back. Both RPC
  clients use `CommitmentConfig::processed()` (config.rs 278-293), so they can be;
  `SellRetry` models exactly that.
* A sale that asks for more than the wallet holds fails on the chain. A PumpSwap sale goes by an amount that may be cached
  (core/token.rs 36): in `PositionLifecycle` `AmountKnown` is the balance of the moment or any other, how old it can be is `SwapBuild`'s subject.
* A monitor's handler works on the mint the parser reads in the message (SB 4064), which for a routed trade is the first balance that is
  not wrapped SOL (transaction_parser.rs 123). `MonitorMessage` takes any mint; `misread` remembers those that were not the
  monitor's own, and no guard reads it.
* Merged although another thread can run in between, because nothing is awaited there: the first two registry writes of
  a verified buy (`VerifyBuyOk`, SB 815 and 823), those of its booking (`BookBuy`, SB 1231 to 3807), lookup and
  removal in `SellCancelMonitoring` (SB 339 and 347) and the three lengths `StopIfAllSold` reads (SB 359-364).
* One sweeper. The Auto arm of a buy (SB 1157) spawns another; it runs the same code
  on the same maps.
* A buy handler of `Entry = "sniper"` holds the configuration guard throughout
  (SB 3296); `Entry = "copy"` is `fr_handle_parsed_data_for_buying`, which has no caller in
  this commit but is the concurrent entry the registries were written for.
* As committed, no sniper buy is ever executed, for three reasons: `main.rs` holds the
  configuration guard itself (run `focus_under_main`), a trigger blocks on its own guard
  (`Stuck` in `FocusTrigger`), and the slot of a trade is never set, so that nothing triggers
  (run `drop_is_seen`). `FocusTrigger` and `PositionLifecycle` leave a trigger as a free choice and model what
  the operations do after it, which is what the rest of the code is about.
* `TradeDecoding` starts from the fields of an event, not from its bytes. Liquidity, `sol_change`,
  `token_change` and addresses are left out: no property depends on them. In `TradeSignal` trades move a pool
  along a curve, any strictly monotone sequence of positive reserves, and `Deposit` multiplies both reserves of a PumpSwap pool (deposits,
  withdrawals, fees that stay): reserves at a depth are exact multiples of the curve's, so that depth alone moves no
  price. An f64 division is exact before it is truncated.
* In `SellDecision` prices are natural numbers and an average is rounded down; a
  second booking of the same position (two overlapping buys) is left out. The lock is
  the one of `dashmap` 5.5: readers share it and do not queue behind a writer that waits, and
  who waits blocks its thread instead of its task. Refresh, verdict and second look are steps of
  their own, since other threads run between them. An `if let` that finds no metrics
  leaves no guard behind. Metrics of other tokens of the same shard are not modelled: they
  would block more, not less.
* `SwapBuild` has one token and its two accounts, the token's and wrapped SOL's. What an RPC says is true
  when the node reads it (its reads at `processed` may be rolled back; the forks are in `SellRetry`).
  A builder's question for several accounts and its listing of what it found are one step: it takes an
  arbitrary part of what is there for missing. Account metas, PDAs and pool lookups are
  layout or may fail. `TOKEN_MINT_CACHE` holds decimals, which do not change: it is answered
  or not. Only full sales have live callers (SB 1734, 2331, 2819, SP 1820); the halved ones
  are modelled because the builders offer them. The insertions SB 802, 915, 1020 and 1127 repeat what a
  builder listed. Host commands may run at any time.
* Left out as deciding nothing: `BOUGHT_TOKENS`, `buy_count`, `fr_record_trade_execution`,
  `price_history` of the metrics, all logging.

## Runs

| Run | Shows | Bounds, and why they suffice |
|---|---|---|
| `position_copy` | which tokens escape, one monitor per token, no third way to buy twice, a safe sweeper, refinement of `Portfolio` | 1 token, 2 buy handlers, 2 monitors, 1 sell handler, 2 lots, comprehensive pass each tick: every hazard is between two handlers of one token, or one and the sweeper |
| `position_sniper` | the inductive invariant (types in it) with trades of one token read as the other's, tracked tokens are monitored, the stop flag is safe, refinement of `Portfolio` | 2 tokens, so that a monitor's handler can work on a token that was never bought, is being booked or was sold; 1 of each task, which the guard serialises anyway; 1 lot. The process ends with the stream, so deadlock is not checked. 2.5 million states |
| `position_limit` | the counter limit | 2 tokens, 2 buy handlers, limit 1, no sell handlers (they only free slots) |
| `position_forgotten` | sold tokens leave the lists | 1 token, 1 buy handler and monitor, 2 sell handlers (so that urgent sales run beside the handler that spawned them, and two sales fly at once), both cycle kinds (`FullCycle` 2); fairness. 500 000 states |
| `sell_retry` | the inductive invariant (types in it), one sale stands, "sold" means executed, each step uses up a budget of steps, refinement of `SaleOrder`, termination | the code's 3 attempts and 5 polls, 4 units, 2 forks |
| `focus_trigger` | watched records, live registrations, one task per token, old records go | 1 token, 2 handlers, 3 price tasks (one leaving, two racing); a trigger really halts the engine, so deadlock is not checked |
| `trade_signal` | types, order of prices, measured losses against the pool's, sides | all six kinds of pools; two depths, so that a saturated price falls by half on a deposit; a curve of 5 positions with a dust price that rounds to 0, a saturated and a drained one; `LAMPORTS` 1000 and `U64MAX` 8191 keep the code's proportion (a u64 overflows at some 18 units of SOL; here at 8); history of 3 (16 in the code: every property is about two or three entries), 2 slots, one position of the other pool |
| `sell_decision` | types, entry in range, what a sale or a loss beyond the limits leads to, when the threads are all blocked | 2 handlers and 2 threads (the smallest number that a guard's owner and a writer can block); 3 prices with 16.7 %, 20 % and 30 % between them, the default thresholds, `MAX_DROP` 50 %; the runtime really may stop, so deadlock is not checked |
| `swap_build` | types, where list and chain differ, why a buy finds its accounts otherwise, sales of the balance land, age of the balance, lost accounts | 2 orders (every race is between two), both venues, reserves that give no token, none at all and one token, 2 units, a cache life and a time-out of one tick each, runs and host commands without bound |
| `must_sell` | violates `pump_swap.rs` 354 "this ensures must sell" because of 329 | the same instance |
| `drop_is_seen` | violates SB 3325 "price decreased over each of the last two slots" because of transaction_parser.rs 242 | PumpFun, 3 slots |
| `focus_under_main` | violates SB 3415 "removed ... for inactivity" because of main.rs 295 | smallest instance; fairness |

`MaxLots`, `MaxForks`, `MaxSlot`, `MaxPending`, `MaxTokens` and the numbers of task slots are bounds of the
model, named as such; the rest are parameters of the code.

### Fairness

* `SF` per task in `FocusTrigger` and `WF(SellerStep)` in `SellRetry`: tokio schedules a ready
  task, its timers fire and its RPCs return, if only an error. The tokio mutex is
  fair, so a task that asks for it again and again gets it (strong fairness).
* `SweeperFairness`: the interval ticks, and not every balance RPC of one kind of pass
  about one token fails (strong fairness of `SweepReadsZero`). It is all that `position_forgotten` assumes:
  no handler or monitor need ever finish.
* Nothing is assumed of the stream, of traders, or of transactions landing rather
  than failing.

### What the properties found

* A buy that is broadcast but returns Err (five polls of 0.5 s, or a lost answer of
  the relay) is neither listed nor blacklisted. `OnlyUnverifiedBuysEscape` and
  `RebuyOnlyThroughHoles` show that this and overlapping handlers are the only holes.
* `TrackingWithinLimit`: the limit can be exceeded, by the concurrent handlers less one.
* A last token that left the wallet while its monitor stayed registered (its sale landed, the handler got an error) does not
  stop the stream: both cleanups check before (or without) clearing `MONITORING_TASKS`, and nothing is left that
  would check again. SB 357 "if all tokens are sold ... stop GRPC streaming" is then not kept.
* SB 3701 "since it's been sold" cancels the monitor of a sale that was accepted by the relay and
  may still fail: the token is then held without a monitor (`TrackedIsMonitoredAndListed` keeps
  the slot and the registration together, so the slot is free as well).
* A monitor that loses its stream (SB 3974, "Try to reconnect") is not restarted.
* A routed trade makes a monitor's handler refresh, sell and cancel a token that was never bought, or whose buy is still being
  booked (SB 4064). What is in the wallet stays listed even so (`OnlyUnverifiedBuysEscape`), but a slot can be left
  without its listing (the exception of `TrackedIsMonitoredAndListed`) and a token be listed that was sold before it was booked
  (`Relist` and `Book` of `Portfolio`); metrics are made for tokens that nobody bought.
* Any trader's buy moves the entry price the stop loss is measured from
  (`LossHeldOnlyIfMoved` names the exceptions); a failed balance RPC makes the next buy
  replace it. With the default limits the take profit rule (25 %) is never reached: the
  first whale tier (10 %) comes before it.
* Every handler that looks again after a whale verdict may find the metrics changed, and then awaits a regular
  sale with the guard it looked through. Every thread that writes to the map meanwhile is blocked;
  `StuckOnlyIfOvertaken` shows that this takes an overtaken whale verdict, and that spawning the
  whale sale, which SB 3689 says is there "to prevent bot from getting stuck", does its work.
* What is listed when its creation is built stays listed when the creation is lost or the account is closed: no
  order of that run opens it again, and PumpFun's buys of the token fail till the restart (`LostUntilRestart`).
* A full PumpSwap sale never goes through: it closes the account before it empties it (`must_sell`). PumpFun's
  order is right (`MatchingSaleLands`).
* A PumpSwap sale goes by a balance of up to the cache's life and two time-outs ago (`AmountIsRecent`).
* `OneSaleStands` needs the code's three attempts: with five, and four blocks dropped between them, two sales of half the
  balance stand, because an attempt built between two dropped blocks sees a part of it.
* `fr_execute_sell` can broadcast only for Raydium: the trade infos it makes for the other
  protocols lack what their builders ask for.
* A price task removes a record by age, not by inactivity as its comment says.
* SB 254 says of the blacklist "never rebuy": `RebuyOnlyThroughHoles` names the two ways in which it happens.
* Every arm of the parser leaves the slot 0 "to be set from transaction data" and nobody
  sets it: `two_slot_drop` compares 0 with 0 and is never true.
* A price saturates in pools of more than 18.4 SOL (2^64 / 10^9 lamports): above that it measures the
  token reserves only, the price being the greatest u64 by the token reserve. A deposit, which raises both reserves, then lowers it: a stop
  loss is sold that the pool never had. `LossIsReal` shows that this is the only loss that is invented, trades and rounding never do;
  `LossIsMeasured` that saturation is the only thing that hides one. PumpFun's metrics price is an f64 and escapes it, its
  parser price does not.
* A PumpSwap pool with WSOL as its base is told by a price below one, which it has only when it
  is drained. Its price is the wrong way round, gains look like losses, and its side too.
* A bundle with a buy in it makes every PumpSwap sale of it a buy, because the side is read from the logs
  of the whole transaction; the mint is the first of the first three token balances that is not WSOL.
* The Meteora formats (170 and 138 bytes) never decode: they are read like PumpFun's, whose
  creator field lies behind their end. `token_change` is scaled by 10^9 whatever the mint's decimals are.

## Theorems

All are proved for every value of the constants, from the assumptions named in the
modules (`ConstantsAssumption`, `SellRetryAssumption`, `FocusAssumption`, `DecodingAssumption`,
`SignalAssumption`, `DecisionAssumption`, `SwapBuildAssumption`). Every invariant and action property of a passing run is
proved, and both refinements (`FocusTyping` proves types that no run repeats). A few theorems hold of some values only, which their `ASSUME` names:

| Theorem | Assumes | Why that |
|---|---|---|
| `OneSaleOfThree` | `MaxRetries = 3` | the code's `FR_MAX_RETRIES`; TLC refutes it for 5 |
| `OneSaleWithoutForks` | `MaxForks = 0` | any number of attempts: only dropped blocks make that number matter |
| `SniperBuysNeverOverlap`, `SniperKeepsBooks` | `Entry = "sniper"` | the only entry with a caller; `Entry = "copy"` refutes both |
| `MainStopsEverybody`, `NothingLeavesUnderMain` | `HostHoldsConfig` | what `main.rs` does |
| `OneHandlerAtATime`, `OneOrderAtATime` | one `Handler`, one `Builder` | overlapping ones are the only reason for the exceptions that `OneTaskPerToken` and `BuyFailureExplained` make |

* `PositionLifecycle_proofs`: `Typing`, then `PositionInvariant`. `OnlyUnverifiedBuysEscape` is
  not inductive: that a landed buy is listed needs to know that a flying one is
  watched or given up (`FlyingIsWatched`), that a buy in progress is of a token nobody
  booked meanwhile (`ExecutingIsFresh`, `OverlapIsContested`, which need `BlacklistedFirst`: what is listed, tracked or watched
  was blacklisted, what else is refreshed, sold or swept was misread),
  and that what the sweeper acts on is still gone (`HitStaysGone`). `PositionInv` is their
  conjunction. From it follow `EscapedBuys`, and by looking at single steps
  `NoOtherRebuy`, `SweeperIsSafe` and `StopIsSafe`. `LimitHolds` counts: a step starts a buy below
  the limit, books one (a busy handler becomes a slot) or adds neither. `WatchInvariant` adds to `PositionInv`
  that a verified buy that is not booked yet is alone with its token (`BookedAlone`: held, listed, and nobody watches, sells or
  sweeps it), which rests on `LandedIsHeld` and `SalesExplained`, and holds of tokens no other's trade was read as
  (`BookedIsHeld`); without it a sale could drop the slot
  the buy is about to take, or a registration could hide a running monitor. From it follow `TrackedAreMonitored` and `OneMonitorEach`.
* The same module proves that the engine implements `Portfolio` (`EngineImplementsPortfolio`), one lemma per kind of task. A buy handler's
  step takes its token off the orders unless another handler executes it too, and then the token is `contested`
  (`OrdersOfOne`, from `OverlapIsContested`). A buy that is given up with nothing bought needs that a token held meanwhile landed from this very
  order or went astray (`HeldWhileOrdered`); a booking, that what it lists is held (`LandedIsHeld`); a sale, that its token was bought or misread (`SalesExplained`);
  the sweeper, that what it drops is still gone. `Portfolio_proofs` proves the promise's own consequences (`PortfolioInvariant`, `OnePosition`), and
  `SoldForGood` carries the second over to the engine: no token that was sold comes back, but for one that went astray.
* `CyclesEnd` is the safety half of `SoldTokenForgotten`: `SweepLeft` weighs the passes that are left in a cycle and the answers left in
  this one, each step of the sweeper between two ticks takes at least one of it, and nobody else touches it. What stays with TLC is
  that the sweeper is scheduled and an RPC answers.
* `SniperBuysNeverOverlap` and `SniperKeepsBooks`: with the sniper entry alone the lists, slots and monitors are kept without the exceptions for
  contested tokens, so that the one hole left is a buy that returned Err and lands (SB 680).
* `SellRetry_proofs`: `RetryInvariant` says that attempts broadcast in order and that what a
  poll may see was in a block; with it `SoldIsExecuted`, and `RetryImplementsOrder`: initial
  states map to initial states and every step to a step or a stutter of `SaleOrder`. `OneSaleOfThree` counts what the
  wallet has and what dropped blocks would give back (`Held`): it never grows, each attempt sells all of the balance it read,
  so that the first two sell everything or the unit of an empty account and the third at most one unit less (`WholeSales`).
  `StepsDoRunOut` is the safety half of `Terminates`: `StepsLeft`, the steps left of this attempt and `MaxPolls + 3` for each
  one to come, falls with every step of the seller, whichever of them fails; `EndIsAnAnswer` says that the loop is not left without one.
* `FocusTrigger_proofs`: `FocusInvariant`, with `FocusTyping`, `NoFocusUnattended`, `NoDeadRegistration`;
  `OneTaskEach` from `UnracedInv`: of a token that no two handlers added at once, at most one handler or staying task is there.
  What a taken configuration guard stops is one lemma (`TakenConfigFreezes`). On it rest: the first trigger is the last (`FirstTriggerIsLast`)
  and stops evaluations and ticks for good (`HaltIsFinal`: what was being inserted or removed still is, launches and leaving tasks
  go on); under `main.rs` nobody gets past the guard (`MainStopsEverybody`) and no
  record goes (`NothingLeavesUnderMain`), which `focus_under_main` shows on one instance.
* `TradeSignal_proofs`: `SignalInvariant` says that an entry with a price has the price of the pool
  where it was made (`Faithful`), for which `Decoded` goes through the formats. `PricesFollowPools` is then monotonicity of the
  saturating quotient in both reserves. `LossesAreReal` and `LossesAreMeasured` move a fall through rounding
  (`QuotientLoss`, `QuotientFall`) and saturation, at any two depths, and cancel what both sides share: where neither product saturates the depths
  cancel in each quotient (`RatioIsQuotient`); a saturated one is the same for both or, in a pool that got deeper, the exception.
  `SidesAreRight` goes through the formats again.
  `NoDropEverSeen` states what `drop_is_seen` shows on one instance for every one: the slots compared are all 0.
* `SellDecision_proofs`: `DecisionInvariant` says what a handler that nobody overtook still knows of the metrics
  (they call for the sale its trade or its verdict called for), that a guard held over an await belongs to a handler that was
  overtaken (`GuardIsOvertaken`), and that the threads are all blocked only while there is such a guard (`StuckHasGuard`).
  `EntryStays` is the weighted average between its
  two prices, in integers; `LossHeld`, `NotStuck` and `LeftRangeIsSold` follow.
* `SwapBuild_proofs`: `ListInvariant` holds what an order relies on: the accounts it needs are listed or to be created by it, a
  creation on its way is listed, two creations of one account on their way were found missing at once (`doubled`). From it `ListExplained` and `BuysExplained`.
  `BalanceIsRecent` adds up ages (an entry is no older than what is left of its life allows), `MatchingSalesLand` and
  `LostTillRestart` look at single steps. `FullPumpSwapSalesFail` states what `must_sell` shows on one instance for every one.

Only model-checked: liveness under fairness (`SoldTokenForgotten`, `Terminates`, `OldFocusRemoved`), which is out of the
prover's reach. The three violations are TLC's too; their counterparts above hold for every instance.

## Not modelled, and why

* Copy sell, enhanced sell and wallet monitoring (SB 4089-4153, 1661-1786, 1249-1370) have no caller in this commit. Copy sell
  holds a `get_mut` guard of `BOUGHT_TOKEN_LIST` while it removes the same key (SB 4122): it would block its thread for ever. The
  hazard is listed and no property covers it.
* A position that nobody watches or that does not stop the stream is modelled, and no property covers it, because nothing in the code
  would end that state: a monitor or stream that ended (SB 3984, 630), a sale that was taken for done (SB 3697), a stop check that can
  no longer succeed (SB 1816, 4320). How many sales a handler sends (SP 1747) is in the states too and promised nowhere; that a first trigger
  blocks (SB 3300) and that a failed balance moves the entry price (SP 942, 1001) are what `OldFocusRemoved` and `LossHeldOnlyIfMoved` except;
  which rule sells (SP 1203) is not told apart.
* Three more hazards have no property. The order in which handlers append to a slot history (SB 3305): the drop flag never
  rises anyway, as `drop_is_seen` shows. The hold limit that is looked at only when somebody trades (SP 1212): traders
  give no fairness to state anything under. `fr_import_env_var`'s loop on a variable that is not set (config.rs 257): configuration is read, not modelled.
* Relay and RPC clients by their outcomes only: sent, not sent, sent but answered with an error. Batching, HTTP and pools are I/O.
* The selling engine's second book-keeping (`FrBoughttokeninfo`'s highs and trailing stop, the dynamic trailing
  table) is read by no live path or only logged.
* Logging, error types, `fr_spectate`: no state that anything depends on.

## Plan

1. A `CopySell` module for the uncalled sell paths, composed with `PositionLifecycle`, if they get callers.
2. The forks of `SellRetry` in `SwapBuild`, so that an account that was seen may be gone again.
3. An abstract account book that `SwapBuild` implements, as `PositionLifecycle` does `Portfolio`.
