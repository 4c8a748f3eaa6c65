-------------------------- MODULE PositionLifecycle --------------------------
(***************************************************************************)
(* The life of a position of the sniper engine (src/engine/sniper-bot.rs): *)
(* a buy is triggered, broadcast, verified and booked; a monitor task      *)
(* watches the token and spawns sell handlers; a handler broadcasts an     *)
(* emergency sale and drops the token from the registries; a sweeper reads *)
(* the wallet and removes what is no longer there.  All of them run as     *)
(* tokio tasks and share process-wide DashMaps that no lock ties together. *)
(*                                                                         *)
(* Grain of atomicity: the code a task runs from one suspension point (an  *)
(* .await that really waits: an RPC, a sleep, a lock, a stream) to the     *)
(* next is one step.  A transaction is an actor of its own: once it is     *)
(* broadcast it lands or fails whether or not anybody waits for it.        *)
(***************************************************************************)
EXTENDS Integers, FiniteSets

CONSTANTS
  Mint,                   \* tokens that trades are seen for
  BuyTask,                \* slots for concurrently running buy handlers
  SellTask,               \* slots for concurrently running sell handlers
  Monitor,                \* identities of monitor tasks (with their cancellation token)
  None,                   \* no mint, no monitor
  Entry,                  \* who calls fr_execute_buy: "sniper" or "copy"
  CounterLimit,           \* FrSniperconfig.counter_limit
  FullCycle,              \* sweeper ticks between comprehensive cleanups (4 in the code)
  MaxLots,                \* bound: buys of one token the wallet can pay for
  ProcessEndsWithStream   \* TRUE for main.rs, which returns when the dispatcher does

ASSUME ConstantsAssumption ==
  /\ IsFiniteSet(Mint) /\ IsFiniteSet(BuyTask) /\ BuyTask # {}
  /\ None \notin Mint /\ None \notin Monitor
  /\ Entry \in {"sniper", "copy"}
  /\ CounterLimit \in Nat
  /\ FullCycle \in Nat \ {0}
  /\ MaxLots \in Nat \ {0}
  /\ ProcessEndsWithStream \in BOOLEAN

VARIABLES
  \* ---- the process-wide registries ----
  BOUGHT_TOKEN_LIST, BOUGHT_TOKENS_BLACKLIST, TOKEN_TRACKING,
  TOKEN_METRICS,               \* of the selling engine
  MONITORING_TASKS,            \* mint -> monitor whose token is registered
  SHOULD_CONTINUE_STREAMING,
  dispatching,                 \* the main stream loop still runs
  \* ---- buy handlers ----
  buyPc, buyMint, buyTx,
  \* ---- monitor tasks ----
  monPc, monMint, cancelled,
  \* ---- sell handlers ----
  sellPc, sellMint, sellKind,
  sale,                        \* amount of each sale in flight, 0 when there is none
  \* ---- the sweeper ----
  sweepPhase, sweepTodo, sweepHit, sweepCycle,
  \* ---- the chain ----
  wallet,                      \* lots of each token in the wallet
  \* ---- history, read by no action ----
  unverified,                  \* mints of buys that returned Err although broadcast
  contested,                   \* mints that two buy handlers executed at once
  misread                      \* mints that a trade of another token was read as

registryVars == <<BOUGHT_TOKEN_LIST, BOUGHT_TOKENS_BLACKLIST, TOKEN_TRACKING,
                  TOKEN_METRICS, MONITORING_TASKS>>
streamVars   == <<SHOULD_CONTINUE_STREAMING, dispatching>>
buyVars      == <<buyPc, buyMint, buyTx>>
monVars      == <<monPc, monMint, cancelled>>
sellVars     == <<sellPc, sellMint, sellKind, sale>>
sweepVars    == <<sweepPhase, sweepTodo, sweepHit, sweepCycle>>
historyVars  == <<unverified, contested, misread>>
vars == <<registryVars, streamVars, buyVars, monVars, sellVars, sweepVars,
          wallet, historyVars>>

Attempt == {"first", "fallback"}

RegistryTypeOK ==
  /\ BOUGHT_TOKEN_LIST \subseteq Mint /\ BOUGHT_TOKENS_BLACKLIST \subseteq Mint
  /\ TOKEN_TRACKING \subseteq Mint    /\ TOKEN_METRICS \subseteq Mint
  /\ MONITORING_TASKS \in [Mint -> Monitor \cup {None}]
  /\ SHOULD_CONTINUE_STREAMING \in BOOLEAN /\ dispatching \in BOOLEAN

BuyTypeOK ==
  /\ buyPc \in [BuyTask -> {"idle", "building", "verifying", "metrics"}]
  /\ buyMint \in [BuyTask -> Mint \cup {None}]
  /\ buyTx \in [BuyTask -> {"none", "flying", "landed"}]
  /\ \A t \in BuyTask :
       /\ buyPc[t] # "idle" => buyMint[t] \in Mint
       /\ buyTx[t] # "none" => buyMint[t] \in Mint /\ buyPc[t] \in {"idle", "verifying"}

MonitorTypeOK ==
  /\ monPc \in [Monitor -> {"off", "connecting", "streaming"}]
  /\ monMint \in [Monitor -> Mint \cup {None}]
  /\ \A k \in Monitor : monPc[k] # "off" => monMint[k] \in Mint
  /\ cancelled \subseteq Monitor

SellTypeOK ==
  /\ sellPc \in [SellTask -> {"idle", "detect", "config", "refresh", "balance", "send", "cancel"}]
  /\ sellMint \in [SellTask -> Mint \cup {None}]
  /\ sellKind \in [SellTask -> {"none", "urgent", "whale", "regular", "fallback"}]
  /\ sale \in [SellTask -> [Attempt -> Nat]]
  /\ \A s \in SellTask :
       /\ sellPc[s] # "idle" => sellMint[s] \in Mint
       /\ (\E a \in Attempt : sale[s][a] # 0) => sellMint[s] \in Mint

SweepTypeOK ==
  /\ sweepPhase \in {"idle", "basic", "full", "manager"}
  /\ sweepTodo \subseteq Mint
  /\ sweepHit \in Mint \cup {None}
  /\ sweepCycle \in 0..FullCycle
  /\ sweepPhase = "idle" => sweepCycle < FullCycle

TypeOK ==
  /\ RegistryTypeOK
  /\ BuyTypeOK
  /\ MonitorTypeOK
  /\ SellTypeOK
  /\ SweepTypeOK
  /\ wallet \in [Mint -> Nat]
  /\ unverified \subseteq Mint /\ contested \subseteq Mint /\ misread \subseteq Mint

\* fr_launch_dex_monitoring has set the flag, spawned the sweeper and subscribed.
Init ==
  /\ BOUGHT_TOKEN_LIST = {} /\ BOUGHT_TOKENS_BLACKLIST = {}
  /\ TOKEN_TRACKING = {} /\ TOKEN_METRICS = {}
  /\ MONITORING_TASKS = [m \in Mint |-> None]
  /\ SHOULD_CONTINUE_STREAMING = TRUE /\ dispatching = TRUE
  /\ buyPc = [t \in BuyTask |-> "idle"]
  /\ buyMint = [t \in BuyTask |-> None]
  /\ buyTx = [t \in BuyTask |-> "none"]
  /\ monPc = [k \in Monitor |-> "off"]
  /\ monMint = [k \in Monitor |-> None]
  /\ cancelled = {}
  /\ sellPc = [s \in SellTask |-> "idle"]
  /\ sellMint = [s \in SellTask |-> None]
  /\ sellKind = [s \in SellTask |-> "none"]
  /\ sale = [s \in SellTask |-> [a \in Attempt |-> 0]]
  /\ sweepPhase = "idle" /\ sweepTodo = {} /\ sweepHit = None /\ sweepCycle = 0
  /\ wallet = [m \in Mint |-> 0]
  /\ unverified = {} /\ contested = {} /\ misread = {}
-----------------------------------------------------------------------------
(* Helpers *)

\* Mutant: the stop check forgets the positions.
StopIfUntracked(bought, monitoring, tracking) ==
  SHOULD_CONTINUE_STREAMING' =
    (SHOULD_CONTINUE_STREAMING
       /\ ~(tracking = {} /\ \A m \in Mint : monitoring[m] = None))

\* fr_verify_and_stop_streaming_if_all_sold, given what the three maps hold.
StopIfAllSold(bought, monitoring, tracking) ==
  SHOULD_CONTINUE_STREAMING' =
    (SHOULD_CONTINUE_STREAMING
       /\ ~(bought = {} /\ tracking = {} /\ \A m \in Mint : monitoring[m] = None))

\* Mutant: the registration goes, the task is not told.
ForgetMonitor(m) ==
  /\ MONITORING_TASKS' = [MONITORING_TASKS EXCEPT ![m] = None]
  /\ cancelled' = cancelled

\* MONITORING_TASKS.remove(m), then cancel() on the token that was there.
DropMonitor(m) ==
  /\ MONITORING_TASKS' = [MONITORING_TASKS EXCEPT ![m] = None]
  /\ cancelled' = cancelled \cup {k \in Monitor : k = MONITORING_TASKS[m] /\ monPc[k] # "off"}

\* Mutant: the slot of the counter limit stays taken.
KeepSlot(m) == TOKEN_TRACKING' = TOKEN_TRACKING

FreeSlot(m) == TOKEN_TRACKING' = TOKEN_TRACKING \ {m}

\* Mutants: a limit off by one; a blacklist that only knows open positions.
AtOrBelowLimit == Cardinality(TOKEN_TRACKING) <= CounterLimit
NotOpen(m) == m \notin BOUGHT_TOKEN_LIST

BelowLimit == Cardinality(TOKEN_TRACKING) < CounterLimit
NotBlacklisted(m) == m \notin BOUGHT_TOKENS_BLACKLIST

Executing(t) == buyPc[t] \in {"building", "verifying"}

\* The handler that runs a sniper buy keeps the guard of the global
\* configuration mutex from its first line to its last.
ConfigGuardFree == Entry = "copy" \/ \A t \in BuyTask : buyPc[t] = "idle"

BuySlotFree(t)  == buyPc[t] = "idle" /\ buyTx[t] = "none"
SellSlotFree(s) == sellPc[s] = "idle" /\ ~\E a \in Attempt : sale[s][a] # 0
-----------------------------------------------------------------------------
(* Buy handlers *)

\* The common start: the blacklist check at the head of fr_execute_buy.
BeginBuy(t, m) ==
  /\ dispatching
  /\ BuySlotFree(t)
  /\ BelowLimit
  /\ NotBlacklisted(m)
  /\ buyPc' = [buyPc EXCEPT ![t] = "building"]
  /\ buyMint' = [buyMint EXCEPT ![t] = m]
  /\ contested' = contested \cup
       {x \in {m} : \E u \in BuyTask \ {t} : Executing(u) /\ buyMint[u] = m}
  /\ UNCHANGED <<buyTx, registryVars, streamVars, monVars, sellVars, sweepVars,
                 wallet, unverified, misread>>

\* fr_execute_sniper_buy, called with the configuration guard held.
BeginSniperBuy(t, m) ==
  /\ Entry = "sniper"
  /\ ConfigGuardFree
  /\ m \notin BOUGHT_TOKEN_LIST
  /\ BeginBuy(t, m)

\* The buy half of fr_handle_parsed_data_for_buying, spawned once per message.
BeginCopyBuy(t, m) ==
  /\ Entry = "copy"
  /\ BeginBuy(t, m)

\* Building, blockhash or send fails and nothing reaches the chain.
BuyNotSent(t) ==
  /\ buyPc[t] = "building"
  /\ buyPc' = [buyPc EXCEPT ![t] = "idle"]
  /\ buyMint' = [buyMint EXCEPT ![t] = None]
  /\ UNCHANGED <<buyTx, registryVars, streamVars, monVars, sellVars, sweepVars,
                 wallet, historyVars>>

BuySent(t) ==
  /\ buyPc[t] = "building"
  /\ buyPc' = [buyPc EXCEPT ![t] = "verifying"]
  /\ buyTx' = [buyTx EXCEPT ![t] = "flying"]
  /\ UNCHANGED <<buyMint, registryVars, streamVars, monVars, sellVars, sweepVars,
                 wallet, historyVars>>

\* The relay delivered the transaction but its answer was lost or malformed:
\* every resend fails and the handler returns Err.
BuySentButErr(t) ==
  /\ buyPc[t] = "building"
  /\ buyPc' = [buyPc EXCEPT ![t] = "idle"]
  /\ buyTx' = [buyTx EXCEPT ![t] = "flying"]
  /\ unverified' = unverified \cup {buyMint[t]}
  /\ UNCHANGED <<buyMint, registryVars, streamVars, monVars, sellVars, sweepVars,
                 wallet, contested, misread>>

\* fr_verify_transaction saw the transaction confirmed; up to the RPC inside
\* fr_refresh_metrics.
VerifyBuyOk(t) ==
  /\ buyPc[t] = "verifying"
  /\ buyTx[t] = "landed"
  /\ buyPc' = [buyPc EXCEPT ![t] = "metrics"]
  /\ buyTx' = [buyTx EXCEPT ![t] = "none"]
  /\ BOUGHT_TOKEN_LIST' = BOUGHT_TOKEN_LIST \cup {buyMint[t]}
  /\ BOUGHT_TOKENS_BLACKLIST' = BOUGHT_TOKENS_BLACKLIST \cup {buyMint[t]}
  /\ UNCHANGED <<buyMint, TOKEN_TRACKING, TOKEN_METRICS, MONITORING_TASKS,
                 streamVars, monVars, sellVars, sweepVars, wallet, historyVars>>

\* The polls end with an error status (the transaction failed) or run out
\* (it may still be on its way, or have landed unseen).
VerifyBuyErr(t) ==
  /\ buyPc[t] = "verifying"
  /\ buyPc' = [buyPc EXCEPT ![t] = "idle"]
  /\ buyTx' = [buyTx EXCEPT ![t] = IF @ = "flying" THEN "flying" ELSE "none"]
  /\ buyMint' = [buyMint EXCEPT ![t] = IF buyTx[t] = "flying" THEN @ ELSE None]
  /\ unverified' = unverified \cup {m \in {buyMint[t]} : buyTx[t] # "none"}
  /\ UNCHANGED <<registryVars, streamVars, monVars, sellVars, sweepVars,
                 wallet, contested, misread>>

\* fr_refresh_metrics once its RPC answered: the mint it is given gets metrics,
\* owned or not, unless the trade has no price.
Refresh(m, measured) ==
  TOKEN_METRICS' = IF measured THEN TOKEN_METRICS \cup {m} ELSE TOKEN_METRICS

\* fr_setup_selling_strategy: an older registration is overwritten, not cancelled.
RegisterMonitor(m, k) ==
  /\ monPc[k] = "off" /\ \A x \in Mint : MONITORING_TASKS[x] # k
  /\ MONITORING_TASKS' = [MONITORING_TASKS EXCEPT ![m] = k]
  /\ monPc' = [monPc EXCEPT ![k] = "connecting"]
  /\ monMint' = [monMint EXCEPT ![k] = m]

\* Refresh the metrics, book the position (priced: the trade's price is not 0)
\* and set up its monitor.
BookBuy(t, k, measured, priced) ==
  LET m == buyMint[t] IN
  /\ buyPc[t] = "metrics"
  /\ buyPc' = [buyPc EXCEPT ![t] = "idle"]
  /\ buyMint' = [buyMint EXCEPT ![t] = None]
  /\ Refresh(m, measured)
  /\ BOUGHT_TOKEN_LIST' = IF priced THEN BOUGHT_TOKEN_LIST \cup {m} ELSE BOUGHT_TOKEN_LIST
  /\ BOUGHT_TOKENS_BLACKLIST' =
       IF priced THEN BOUGHT_TOKENS_BLACKLIST \cup {m} ELSE BOUGHT_TOKENS_BLACKLIST
  /\ TOKEN_TRACKING' = TOKEN_TRACKING \cup {m}
  /\ RegisterMonitor(m, k)
  /\ UNCHANGED <<buyTx, streamVars, cancelled, sellVars, sweepVars, wallet, historyVars>>
-----------------------------------------------------------------------------
(* Monitor tasks: fr_monitor_token_for_selling *)

MonitorConnects(k) ==
  /\ monPc[k] = "connecting"
  /\ monPc' = [monPc EXCEPT ![k] = "streaming"]
  /\ UNCHANGED <<monMint, cancelled, registryVars, streamVars, buyVars, sellVars,
                 sweepVars, wallet, historyVars>>

\* The task returns; its entry of MONITORING_TASKS stays.
MonitorExits(k) ==
  /\ monPc' = [monPc EXCEPT ![k] = "off"]
  /\ monMint' = [monMint EXCEPT ![k] = None]
  /\ cancelled' = cancelled \ {k}

\* Connecting or the third subscribe fails, the stream ends or breaks, or the
\* select picks the cancellation.
MonitorStops(k) ==
  /\ monPc[k] \in {"connecting", "streaming"}
  /\ MonitorExits(k)
  /\ UNCHANGED <<registryVars, streamVars, buyVars, sellVars, sweepVars, wallet, historyVars>>

\* A trade of the monitor's token: fr_handle_selling spawns a handler for the mint
\* m that the parser reads in it, the first balance of the transaction that is
\* not wrapped SOL.  A trade that is routed through several pools can be read as
\* any token, bought or not.  The loop then leaves if its own token is no longer
\* listed.  tokio::select! picks at random, so a message may win against a
\* pending cancellation.  (A ping or an unparsable message spawns nothing: it
\* stutters, or leaves as MonitorStops.)
MonitorMessage(k, s, m) ==
  /\ monPc[k] = "streaming"
  /\ SellSlotFree(s)
  /\ sellPc' = [sellPc EXCEPT ![s] = "detect"]
  /\ sellMint' = [sellMint EXCEPT ![s] = m]
  /\ sellKind' = [sellKind EXCEPT ![s] = "none"]
  /\ misread' = misread \cup ({m} \ {monMint[k]})
  /\ IF monMint[k] \in BOUGHT_TOKEN_LIST THEN UNCHANGED monVars ELSE MonitorExits(k)
  /\ UNCHANGED <<sale, registryVars, streamVars, buyVars, sweepVars, wallet,
                 unverified, contested>>
-----------------------------------------------------------------------------
(* Sell handlers: fr_handle_parsed_data_for_selling *)

SellGoto(s, pc, kind) ==
  /\ sellPc' = [sellPc EXCEPT ![s] = pc]
  /\ sellKind' = [sellKind EXCEPT ![s] = kind]
  /\ sellMint' = [sellMint EXCEPT ![s] =
                    IF pc = "idle" /\ ~\E a \in Attempt : sale'[s][a] # 0 THEN None ELSE @]

\* fr_unified_emergency_sell returned Err: a whale sale tries once more as a
\* regular one, every other handler gives up.
SellErr(s) ==
  IF sellKind[s] = "whale" THEN SellGoto(s, "balance", "fallback")
                           ELSE SellGoto(s, "idle", "none")

\* No whale sold, or the token is not ours: on to the metrics.
SellDetect(s) ==
  /\ sellPc[s] = "detect"
  /\ sale' = sale
  /\ SellGoto(s, "refresh", "none")
  /\ UNCHANGED <<registryVars, streamVars, buyVars, monVars, sweepVars, wallet, historyVars>>

\* A whale sold a token we own: an urgent sale is spawned beside this handler.
SellDetectWhale(s, u) ==
  /\ sellPc[s] = "detect"
  /\ sellMint[s] \in BOUGHT_TOKEN_LIST
  /\ SellSlotFree(u)
  /\ sellPc' = [sellPc EXCEPT ![s] = "refresh", ![u] = "config"]
  /\ sellKind' = [sellKind EXCEPT ![u] = "urgent"]
  /\ sellMint' = [sellMint EXCEPT ![u] = sellMint[s]]
  /\ UNCHANGED <<sale, registryVars, streamVars, buyVars, monVars, sweepVars,
                 wallet, historyVars>>

\* The urgent sale gets the configuration mutex and starts.
SellUrgent(s) ==
  /\ sellPc[s] = "config"
  /\ ConfigGuardFree
  /\ sale' = sale
  /\ SellGoto(s, "balance", "urgent")
  /\ UNCHANGED <<registryVars, streamVars, buyVars, monVars, sweepVars, wallet, historyVars>>

\* fr_evaluate_sell_conditions, the numbers left out: hold, sell as for a whale
\* or sell regularly, and always hold what has no metrics.
Verdict(m) == IF m \in TOKEN_METRICS' THEN {"hold", "whale", "regular"} ELSE {"hold"}

\* The metrics are refreshed and the sell conditions evaluated.
SellEvaluate(s, measured, verdict) ==
  /\ sellPc[s] = "refresh"
  /\ Refresh(sellMint[s], measured)
  /\ verdict \in Verdict(sellMint[s])
  /\ sale' = sale
  /\ IF verdict = "hold" THEN SellGoto(s, "idle", "none") ELSE SellGoto(s, "balance", verdict)
  /\ UNCHANGED <<BOUGHT_TOKEN_LIST, BOUGHT_TOKENS_BLACKLIST, TOKEN_TRACKING,
                 MONITORING_TASKS, streamVars, buyVars, monVars, sweepVars, wallet, historyVars>>

\* The balance RPC of fr_execute_emergency_sell_internal: an error (or no
\* account) is Err, an empty account is Ok("no_tokens_to_sell").  Without
\* parsed data the trade is rebuilt from the metrics, which must exist.
SellBalance(s) ==
  /\ sellPc[s] = "balance"
  /\ sale' = sale
  /\ \/ SellErr(s)
     \/ wallet[sellMint[s]] = 0 /\ SellGoto(s, "cancel", sellKind[s])
     \/ /\ wallet[sellMint[s]] > 0
        /\ sellKind[s] = "urgent" => sellMint[s] \in TOKEN_METRICS
        /\ SellGoto(s, "send", sellKind[s])
  /\ UNCHANGED <<registryVars, streamVars, buyVars, monVars, sweepVars, wallet, historyVars>>

\* The balances a sale may be built from: that of the moment, or, on PumpSwap, an
\* earlier one that the account cache still has (SwapBuild follows the cache).
AmountKnown(m) == {wallet[m]} \cup 1..MaxLots

\* The sale is built for all of that amount and broadcast.  Ok means accepted by
\* the relay: nothing is verified.  Err (a lost answer, the 30s/60s timeout) does
\* not mean that it was not broadcast.
SellSend(s) ==
  /\ sellPc[s] = "send"
  /\ \/ /\ sale' = sale
        /\ SellErr(s)
     \/ /\ \E lots \in AmountKnown(sellMint[s]) :
             sale' = [sale EXCEPT ![s][IF sellKind[s] = "fallback" THEN "fallback" ELSE "first"]
                                    = lots]
        /\ SellErr(s) \/ SellGoto(s, "cancel", sellKind[s])
  /\ UNCHANGED <<registryVars, streamVars, buyVars, monVars, sweepVars, wallet, historyVars>>

\* fr_cancel_token_monitoring.
SellCancelMonitoring(s) ==
  /\ sellPc[s] = "cancel"
  /\ DropMonitor(sellMint[s])
  /\ FreeSlot(sellMint[s])
  /\ StopIfAllSold(BOUGHT_TOKEN_LIST, MONITORING_TASKS', TOKEN_TRACKING')
  /\ sale' = sale
  /\ SellGoto(s, "idle", "none")
  /\ UNCHANGED <<BOUGHT_TOKEN_LIST, BOUGHT_TOKENS_BLACKLIST, TOKEN_METRICS, dispatching,
                 monPc, monMint, buyVars, sweepVars, wallet, historyVars>>
-----------------------------------------------------------------------------
(* The sweeper: fr_launch_enhanced_selling_monitor *)

SweepStart(phase, todo, cycle) ==
  /\ sweepPhase' = phase
  /\ sweepTodo' = todo
  /\ sweepHit' = None
  /\ sweepCycle' = cycle

\* Mutant: no sweep while no slot is taken.
SweepTickTracked ==
  /\ sweepPhase = "idle" /\ TOKEN_TRACKING # {}
  /\ SweepStart("basic", BOUGHT_TOKEN_LIST, sweepCycle + 1)
  /\ UNCHANGED <<registryVars, streamVars, buyVars, monVars, sellVars, wallet, historyVars>>

SweepTick ==
  /\ sweepPhase = "idle"
  /\ SweepStart("basic", BOUGHT_TOKEN_LIST, sweepCycle + 1)
  /\ UNCHANGED <<registryVars, streamVars, buyVars, monVars, sellVars, wallet, historyVars>>

\* Mutant: an RPC error counts as an empty account.
BalanceGoneOrUnknown(m) == wallet[m] >= 0

BalanceGone(m) == wallet[m] = 0

\* The balance RPC says that the token is gone ...
SweepReadsZero(m) ==
  /\ sweepHit = None
  /\ m \in sweepTodo
  /\ BalanceGone(m)
  /\ sweepHit' = m
  /\ UNCHANGED <<sweepPhase, sweepTodo, sweepCycle, registryVars, streamVars, buyVars,
                 monVars, sellVars, wallet, historyVars>>

\* ... or that it is there; or it fails and the token is kept for now.
SweepKeeps(m) ==
  /\ sweepHit = None
  /\ m \in sweepTodo
  /\ sweepTodo' = sweepTodo \ {m}
  /\ UNCHANGED <<sweepPhase, sweepHit, sweepCycle, registryVars, streamVars, buyVars,
                 monVars, sellVars, wallet, historyVars>>

SweepNextToken ==
  /\ sweepTodo' = sweepTodo \ {sweepHit}
  /\ sweepHit' = None
  /\ UNCHANGED <<sweepPhase, sweepCycle>>

\* fr_cleanup_token_tracking, with the answer of the RPC.
SweepBasic ==
  /\ sweepPhase = "basic" /\ sweepHit # None
  /\ BOUGHT_TOKEN_LIST' = BOUGHT_TOKEN_LIST \ {sweepHit}
  /\ FreeSlot(sweepHit)
  /\ StopIfAllSold(BOUGHT_TOKEN_LIST', MONITORING_TASKS, TOKEN_TRACKING')
  /\ SweepNextToken
  /\ UNCHANGED <<BOUGHT_TOKENS_BLACKLIST, TOKEN_METRICS, MONITORING_TASKS, dispatching,
                 buyVars, monVars, sellVars, wallet, historyVars>>

\* fr_verify_sell_transaction_and_cleanup, with the answer of the RPC: the
\* stop check comes before TOKEN_TRACKING and MONITORING_TASKS are cleared.
SweepFull ==
  /\ sweepPhase = "full" /\ sweepHit # None
  /\ BOUGHT_TOKEN_LIST' = BOUGHT_TOKEN_LIST \ {sweepHit}
  /\ StopIfAllSold(BOUGHT_TOKEN_LIST', MONITORING_TASKS, TOKEN_TRACKING)
  /\ FreeSlot(sweepHit)
  /\ TOKEN_METRICS' = TOKEN_METRICS \ {sweepHit}
  /\ DropMonitor(sweepHit)
  /\ SweepNextToken
  /\ UNCHANGED <<BOUGHT_TOKENS_BLACKLIST, dispatching, buyVars, monPc, monMint,
                 sellVars, wallet, historyVars>>

\* FrTokenmanager::fr_verify_and_cleanup_sold_tokens, with the answer of the RPC.
SweepManager ==
  /\ sweepPhase = "manager" /\ sweepHit # None
  /\ TOKEN_METRICS' = TOKEN_METRICS \ {sweepHit}
  /\ SweepNextToken
  /\ UNCHANGED <<BOUGHT_TOKEN_LIST, BOUGHT_TOKENS_BLACKLIST, TOKEN_TRACKING,
                 MONITORING_TASKS, streamVars, buyVars, monVars, sellVars, wallet, historyVars>>

SweepCycleEnds == SweepStart("idle", {}, 0)

\* A pass is over.  fr_periodic_comprehensive_cleanup takes its snapshot, and
\* returns before the selling engine's cleanup when there is nothing in it.
SweepPassEnds ==
  LET tracked == BOUGHT_TOKEN_LIST \cup TOKEN_TRACKING IN
  /\ sweepPhase # "idle" /\ sweepTodo = {} /\ sweepHit = None
  /\ \/ sweepPhase = "basic" /\ sweepCycle < FullCycle /\ SweepStart("idle", {}, sweepCycle)
     \/ sweepPhase = "basic" /\ sweepCycle >= FullCycle /\ tracked = {} /\ SweepCycleEnds
     \/ /\ sweepPhase = "basic" /\ sweepCycle >= FullCycle /\ tracked # {}
        /\ SweepStart("full", tracked, sweepCycle)
     \/ sweepPhase = "full" /\ SweepStart("manager", TOKEN_METRICS, sweepCycle)
     \/ sweepPhase = "manager" /\ SweepCycleEnds
  /\ UNCHANGED <<registryVars, streamVars, buyVars, monVars, sellVars, wallet, historyVars>>
-----------------------------------------------------------------------------
(* The dispatcher and the chain *)

\* The main loop sees the flag at its head, or its stream ends or breaks.
DispatcherStops ==
  /\ dispatching
  /\ dispatching' = FALSE
  /\ UNCHANGED <<SHOULD_CONTINUE_STREAMING, registryVars, buyVars, monVars, sellVars,
                 sweepVars, wallet, historyVars>>

BuyLands(t) ==
  /\ buyTx[t] = "flying"
  /\ wallet[buyMint[t]] < MaxLots
  /\ wallet' = [wallet EXCEPT ![buyMint[t]] = @ + 1]
  /\ buyTx' = [buyTx EXCEPT ![t] = IF buyPc[t] = "verifying" THEN "landed" ELSE "none"]
  /\ buyMint' = [buyMint EXCEPT ![t] = IF buyPc[t] = "verifying" THEN @ ELSE None]
  /\ UNCHANGED <<buyPc, registryVars, streamVars, monVars, sellVars, sweepVars, historyVars>>

BuyFails(t) ==
  /\ buyTx[t] = "flying"
  /\ buyTx' = [buyTx EXCEPT ![t] = "none"]
  /\ buyMint' = [buyMint EXCEPT ![t] = IF buyPc[t] = "verifying" THEN @ ELSE None]
  /\ UNCHANGED <<buyPc, registryVars, streamVars, monVars, sellVars, sweepVars, wallet,
                 historyVars>>

SaleResolved(s, a) ==
  /\ sale[s][a] # 0
  /\ sale' = [sale EXCEPT ![s][a] = 0]
  /\ SellGoto(s, sellPc[s], sellKind[s])

SaleLands(s, a) ==
  /\ SaleResolved(s, a)
  /\ wallet[sellMint[s]] >= sale[s][a]
  /\ wallet' = [wallet EXCEPT ![sellMint[s]] = @ - sale[s][a]]
  /\ UNCHANGED <<registryVars, streamVars, buyVars, monVars, sweepVars, historyVars>>

SaleFails(s, a) ==
  /\ SaleResolved(s, a)
  /\ UNCHANGED <<registryVars, streamVars, buyVars, monVars, sweepVars, wallet, historyVars>>
-----------------------------------------------------------------------------
BuyProgress(t) ==
  \/ BuyNotSent(t)
  \/ BuySent(t)
  \/ BuySentButErr(t)
  \/ VerifyBuyOk(t)
  \/ VerifyBuyErr(t)
  \/ \E k \in Monitor, measured, priced \in BOOLEAN : BookBuy(t, k, measured, priced)

BuyStep(t) ==
  \/ \E m \in Mint : BeginSniperBuy(t, m)
  \/ \E m \in Mint : BeginCopyBuy(t, m)
  \/ BuyProgress(t)

MonitorStep(k) ==
  \/ MonitorConnects(k)
  \/ MonitorStops(k)
  \/ \E s \in SellTask, m \in Mint : MonitorMessage(k, s, m)

SellStep(s) ==
  \/ SellDetect(s)
  \/ \E u \in SellTask \ {s} : SellDetectWhale(s, u)
  \/ SellUrgent(s)
  \/ \E measured \in BOOLEAN, verdict \in {"hold", "whale", "regular"} :
        SellEvaluate(s, measured, verdict)
  \/ SellBalance(s)
  \/ SellSend(s)
  \/ SellCancelMonitoring(s)

SweepStep ==
  \/ SweepTick
  \/ \E m \in sweepTodo : SweepReadsZero(m)
  \/ \E m \in sweepTodo : SweepKeeps(m)
  \/ SweepBasic
  \/ SweepFull
  \/ SweepManager
  \/ SweepPassEnds

\* main.rs returns with the dispatcher, and every task dies with the process.
ProcessAlive == dispatching \/ ~ProcessEndsWithStream

ProcessStep ==
  /\ ProcessAlive
  /\ \/ \E t \in BuyTask : BuyStep(t)
     \/ \E k \in Monitor : MonitorStep(k)
     \/ \E s \in SellTask : SellStep(s)
     \/ SweepStep
     \/ DispatcherStops

ChainStep ==
  \/ \E t \in BuyTask : BuyLands(t)
  \/ \E t \in BuyTask : BuyFails(t)
  \/ \E s \in SellTask, a \in Attempt : SaleLands(s, a)
  \/ \E s \in SellTask, a \in Attempt : SaleFails(s, a)

Next == ProcessStep \/ ChainStep

Spec == Init /\ [][Next]_vars

\* The sweeper's timer ticks, its RPCs answer, and of the RPCs that one kind of
\* pass makes about a token again and again, not every one fails.
SweeperFairness ==
  /\ WF_vars(SweepTick) /\ WF_vars(SweepPassEnds)
  /\ WF_vars(SweepBasic) /\ WF_vars(SweepFull) /\ WF_vars(SweepManager)
  /\ \A m \in Mint : WF_vars(SweepKeeps(m))
  /\ \A m \in Mint, phase \in {"basic", "full", "manager"} :
        SF_vars(sweepPhase = phase /\ SweepReadsZero(m))

\* Only the sweeper is owed anything: handlers, monitors and the chain may stop.
FairSpec == Spec /\ SweeperFairness
-----------------------------------------------------------------------------
(* Properties *)

\* A token in the wallet is listed in BOUGHT_TOKEN_LIST, where the sell path
\* and the sweeper look for it, unless its buy is still being verified, a buy
\* of it returned Err after it was broadcast, or two handlers bought it at once.
OnlyUnverifiedBuysEscape ==
  \A m \in Mint : wallet[m] > 0 =>
    \/ m \in BOUGHT_TOKEN_LIST
    \/ \E t \in BuyTask : buyPc[t] = "verifying" /\ buyMint[t] = m /\ buyTx[t] = "landed"
    \/ m \in unverified
    \/ m \in contested

\* A buy is broadcast for a token already bought (blacklisted, or in the
\* wallet) only through one of the two holes: a buy that returned Err although
\* it was broadcast, or two handlers past the blacklist check together.
RebuyOnlyThroughHoles ==
  [][\A t \in BuyTask : buyTx'[t] = "flying" /\ buyTx[t] # "flying" =>
       \/ buyMint[t] \notin BOUGHT_TOKENS_BLACKLIST /\ wallet[buyMint[t]] = 0
       \/ buyMint[t] \in unverified \cup contested]_vars

\* How many handlers can be between the limit check and the tracking insert.
ConcurrentBuys == IF Entry = "sniper" THEN 1 ELSE Cardinality(BuyTask)

\* The limit is checked before the first await and the slot taken after the
\* last: TOKEN_TRACKING and the buys in progress never exceed counter_limit by
\* more than the handlers that can pass the check together, less one.
TrackingWithinLimit ==
  Cardinality(TOKEN_TRACKING) + Cardinality({t \in BuyTask : buyPc[t] # "idle"})
    <= CounterLimit + ConcurrentBuys - 1

\* A token that takes a slot of the counter limit has a registered monitor and
\* is listed, so that the sweeper frees the slot.  Only a token that two handlers
\* bought at once, or that another token's trade was read as, can be sold and
\* swept while it is still being booked, and then takes a slot unlisted.
TrackedIsMonitoredAndListed ==
  \A m \in TOKEN_TRACKING :
    /\ MONITORING_TASKS[m] # None
    /\ m \in BOUGHT_TOKEN_LIST \cup contested \cup misread

\* No token has two running monitors, and the one that runs is the one whose
\* cancellation token is registered (or has been cancelled), unless two
\* handlers bought the token at once and the second registration hid the first.
OneMonitorPerToken ==
  \A k \in Monitor : monPc[k] # "off" =>
    \/ MONITORING_TASKS[monMint[k]] = k
    \/ k \in cancelled
    \/ monMint[k] \in contested

\* The sweeper acts on a balance read before an await; even so it drops from
\* BOUGHT_TOKEN_LIST or MONITORING_TASKS no token that the wallet holds, but for
\* tokens whose buys escaped.
SweeperDropsNothingHeld ==
  [][SweepStep => \A m \in Mint :
       \/ m \in BOUGHT_TOKEN_LIST /\ m \notin BOUGHT_TOKEN_LIST'
       \/ MONITORING_TASKS[m] # MONITORING_TASKS'[m]
       => wallet[m] = 0 \/ m \in unverified \cup contested]_vars

\* The flag goes down only when no position is open: whatever the wallet still
\* holds comes from a buy that escaped or is not verified yet.
StopLeavesNoPosition ==
  [][SHOULD_CONTINUE_STREAMING /\ ~SHOULD_CONTINUE_STREAMING' =>
       \A m \in Mint : wallet[m] > 0 =>
         \/ m \in unverified \cup contested
         \/ \E t \in BuyTask : buyPc[t] = "verifying" /\ buyMint[t] = m]_vars

\* A token that left the wallet leaves BOUGHT_TOKEN_LIST and TOKEN_TRACKING, and
\* so frees its slot, whatever became of the handler that sold it.
SoldTokenForgotten ==
  \A m \in Mint :
    m \in BOUGHT_TOKEN_LIST \cup TOKEN_TRACKING /\ wallet[m] = 0
      ~> m \notin BOUGHT_TOKEN_LIST \cup TOKEN_TRACKING \/ wallet[m] > 0
-----------------------------------------------------------------------------
(* The inductive invariant behind the properties about escaped buys *)

\* Nothing is listed, tracked, watched or cleaned out of the registries that was
\* not blacklisted first; what else has metrics or is sold or swept is a token that
\* the trade of another one was read as.
BlacklistedFirst ==
  LET known == BOUGHT_TOKENS_BLACKLIST \cup misread IN
  /\ BOUGHT_TOKEN_LIST \cup TOKEN_TRACKING \subseteq BOUGHT_TOKENS_BLACKLIST
  /\ TOKEN_METRICS \cup sweepTodo \subseteq known
  /\ sweepHit # None => sweepHit \in known
  /\ sweepPhase \in {"basic", "full"} =>
       /\ sweepTodo \subseteq BOUGHT_TOKENS_BLACKLIST
       /\ sweepHit # None => sweepHit \in BOUGHT_TOKENS_BLACKLIST
  /\ \A t \in BuyTask : buyPc[t] = "metrics" => buyMint[t] \in BOUGHT_TOKENS_BLACKLIST
  /\ \A k \in Monitor : monPc[k] # "off" => monMint[k] \in BOUGHT_TOKENS_BLACKLIST
  /\ \A s \in SellTask : sellPc[s] # "idle" => sellMint[s] \in known

\* A buy that is still executing found its token outside the blacklist, and only
\* a second buy of the token can have put it there since.
ExecutingIsFresh ==
  \A t \in BuyTask : Executing(t) =>
    buyMint[t] \notin BOUGHT_TOKENS_BLACKLIST \/ buyMint[t] \in contested

OverlapIsContested ==
  \A t, u \in BuyTask :
    t # u /\ Executing(t) /\ Executing(u) /\ buyMint[t] = buyMint[u] => buyMint[t] \in contested

\* A buy in flight is being verified or has been given up.
FlyingIsWatched ==
  \A t \in BuyTask : buyTx[t] = "flying" => buyPc[t] = "verifying" \/ buyMint[t] \in unverified

\* The balance the sweeper is about to act on is still what it read, in the passes
\* that clean up the registries.
HitStaysGone ==
  sweepPhase \in {"basic", "full"} =>
    \A m \in Mint : sweepHit = m => wallet[m] = 0 \/ m \in unverified \cup contested

PositionInv ==
  /\ TypeOK
  /\ BlacklistedFirst
  /\ ExecutingIsFresh
  /\ OverlapIsContested
  /\ FlyingIsWatched
  /\ HitStaysGone
  /\ OnlyUnverifiedBuysEscape
-----------------------------------------------------------------------------
(* What all of this is for *)

BeingBought == {m \in Mint : \E t \in BuyTask : Executing(t) /\ buyMint[t] = m}
InWallet    == {m \in Mint : wallet[m] > 0}

\* The tasks and their unlocked maps keep the promise of Portfolio: read with
\* the blacklist as what was ever bought and BOUGHT_TOKEN_LIST as what is taken
\* for held, every step is one of its steps or none.
Promise == INSTANCE Portfolio WITH
  ordered <- BeingBought,
  bought  <- BOUGHT_TOKENS_BLACKLIST,
  listed  <- BOUGHT_TOKEN_LIST,
  held    <- InWallet,
  astray  <- unverified \cup contested,
  misread <- misread
ImplementsPortfolio == Promise!Spec
=============================================================================
