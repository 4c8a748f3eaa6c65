----------------------------- MODULE FocusTrigger -----------------------------
(***************************************************************************)
(* How the sniper engine comes to trigger a buy (src/engine/sniper-bot.rs, *)
(* fr_handle_message_for_dex_monitoring and what it calls).  Every trade   *)
(* of the stream spawns a handler, on a runtime with many threads.  The    *)
(* first trade of a token puts it on the focus list and launches a price   *)
(* task for it; every trade updates its record under the configuration     *)
(* mutex and a DashMap guard; a price task ticks every 5 s and takes the   *)
(* token off the list an hour after it was added.                          *)
(*                                                                         *)
(* Prices are left out: whether a trade triggers is a free choice here.    *)
(* (As long as the parser leaves every slot at 0 none does, see            *)
(* TradeSignal.)  A DashMap guard locks a shard: tokens of one shard block *)
(* each other as one token does.                                           *)
(***************************************************************************)
EXTENDS Naturals, FiniteSets

CONSTANTS
  Mint,
  Handler,                \* slots for concurrently running trade handlers
  PriceTask,              \* slots for price tasks
  None,                   \* no mint, no price task
  CounterLimit,           \* FrSniperconfig.counter_limit
  HostHoldsConfig         \* TRUE for main.rs, which awaits the whole engine with
                          \* the guard of the global configuration in a local

ASSUME FocusAssumption ==
  /\ None \notin Mint /\ None \notin PriceTask
  /\ CounterLimit \in Nat
  /\ HostHoldsConfig \in BOOLEAN

VARIABLES
  FOCUS_TOKEN_LIST,       \* tokens with a record
  expired,                \* those whose record is more than an hour old
  PRICE_MONITORING_TASKS, \* mint -> price task whose token is registered
  hPc, hMint,             \* trade handlers
  taskPc, taskMint,       \* price tasks
  raced                   \* history: mints two handlers were adding at once

handlerVars == <<hPc, hMint>>
taskVars == <<taskPc, taskMint>>
vars == <<FOCUS_TOKEN_LIST, expired, PRICE_MONITORING_TASKS, handlerVars, taskVars, raced>>

TypeOK ==
  /\ FOCUS_TOKEN_LIST \subseteq Mint /\ expired \subseteq FOCUS_TOKEN_LIST
  /\ PRICE_MONITORING_TASKS \in [Mint -> PriceTask \cup {None}]
  /\ hPc \in [Handler -> {"idle", "insert", "launch", "trade", "stuck"}]
  /\ hMint \in [Handler -> Mint \cup {None}]
  /\ \A h \in Handler : hPc[h] # "idle" => hMint[h] \in Mint
  /\ taskPc \in [PriceTask -> {"off", "waiting", "removing", "leaving"}]
  /\ taskMint \in [PriceTask -> Mint \cup {None}]
  /\ \A k \in PriceTask : taskPc[k] # "off" => taskMint[k] \in Mint
  /\ raced \subseteq Mint

Init ==
  /\ FOCUS_TOKEN_LIST = {} /\ expired = {}
  /\ PRICE_MONITORING_TASKS = [m \in Mint |-> None]
  /\ hPc = [h \in Handler |-> "idle"] /\ hMint = [h \in Handler |-> None]
  /\ taskPc = [k \in PriceTask |-> "off"] /\ taskMint = [k \in PriceTask |-> None]
  /\ raced = {}
-----------------------------------------------------------------------------
(* Locks *)

Stuck(h) == hPc[h] = "stuck"

\* The configuration mutex: a handler that is stuck keeps it.
ConfigFree == ~HostHoldsConfig /\ ~\E h \in Handler : Stuck(h)

\* The shard of m: a stuck handler keeps its write guard.
FocusFree(m) == ~\E h \in Handler : Stuck(h) /\ hMint[h] = m
-----------------------------------------------------------------------------
(* Trade handlers *)

Goto(h, pc) ==
  /\ hPc' = [hPc EXCEPT ![h] = pc]
  /\ hMint' = [hMint EXCEPT ![h] = IF pc = "idle" THEN None ELSE @]

\* A trade of m: FOCUS_TOKEN_LIST.contains_key(m) in a task of its own.
TradeArrives(h, m) ==
  /\ hPc[h] = "idle"
  /\ FocusFree(m)
  /\ hPc' = [hPc EXCEPT ![h] = IF m \in FOCUS_TOKEN_LIST THEN "trade" ELSE "insert"]
  /\ hMint' = [hMint EXCEPT ![h] = m]
  /\ raced' = raced \cup {x \in {m} \ FOCUS_TOKEN_LIST : \E g \in Handler \ {h} :
                             hPc[g] \in {"insert", "launch"} /\ hMint[g] = m}
  /\ UNCHANGED <<FOCUS_TOKEN_LIST, expired, PRICE_MONITORING_TASKS, taskVars>>

\* A fresh record, over whatever another handler or task left there since.
AddFocus(h) ==
  /\ hPc[h] = "insert"
  /\ FocusFree(hMint[h])
  /\ FOCUS_TOKEN_LIST' = FOCUS_TOKEN_LIST \cup {hMint[h]}
  /\ expired' = expired \ {hMint[h]}
  /\ raced' = raced \cup ({hMint[h]} \cap FOCUS_TOKEN_LIST)
  /\ Goto(h, "launch")
  /\ UNCHANGED <<PRICE_MONITORING_TASKS, taskVars>>

\* Mutant: the price task is spawned only if none is registered.
LaunchOnce(m, k) ==
  /\ taskPc[k] = "off"
  /\ PRICE_MONITORING_TASKS' = [PRICE_MONITORING_TASKS EXCEPT ![m] = IF @ = None THEN k ELSE @]
  /\ taskPc' = [taskPc EXCEPT ![k] = IF PRICE_MONITORING_TASKS[m] = None THEN "waiting" ELSE @]
  /\ taskMint' = [taskMint EXCEPT ![k] = IF PRICE_MONITORING_TASKS[m] = None THEN m ELSE @]

\* Register the cancellation token, over the one that may be there, and spawn.
LaunchPriceMonitoring(m, k) ==
  /\ taskPc[k] = "off"
  /\ PRICE_MONITORING_TASKS' = [PRICE_MONITORING_TASKS EXCEPT ![m] = k]
  /\ taskPc' = [taskPc EXCEPT ![k] = "waiting"]
  /\ taskMint' = [taskMint EXCEPT ![k] = m]

StartPriceMonitoring(h, k) ==
  /\ hPc[h] = "launch"
  /\ LaunchPriceMonitoring(hMint[h], k)
  /\ Goto(h, "trade")
  /\ UNCHANGED <<FOCUS_TOKEN_LIST, expired, raced>>

\* fr_handle_volume_based_buying with both guards: no trigger, or a trigger of
\* which fr_execute_sniper_buy makes nothing (no open slot).
EvaluateTrade(h) ==
  /\ hPc[h] = "trade"
  /\ ConfigFree /\ FocusFree(hMint[h])
  /\ Goto(h, "idle")
  /\ UNCHANGED <<FOCUS_TOKEN_LIST, expired, PRICE_MONITORING_TASKS, taskVars, raced>>

\* A trigger while there is room: fr_verify_and_increment_trade_count asks for a
\* write guard of the record whose write guard its caller holds, and waits for
\* ever.  No buy ever gets past it, so no slot of the limit is ever taken.
Trigger(h) ==
  /\ hPc[h] = "trade"
  /\ ConfigFree /\ FocusFree(hMint[h])
  /\ hMint[h] \in FOCUS_TOKEN_LIST
  /\ CounterLimit > 0
  /\ Goto(h, "stuck")
  /\ UNCHANGED <<FOCUS_TOKEN_LIST, expired, PRICE_MONITORING_TASKS, taskVars, raced>>
-----------------------------------------------------------------------------
(* Price tasks *)

TaskGoto(k, pc) ==
  /\ taskPc' = [taskPc EXCEPT ![k] = pc]
  /\ taskMint' = taskMint

\* Mutant: the task of an old record leaves and forgets to remove the record.
LeaveIfOld(k) == TaskGoto(k, IF taskMint[k] \in FOCUS_TOKEN_LIST \ expired THEN "waiting" ELSE "leaving")

\* What a tick finds: no record, an old one or one to keep watching.
NextOfTick(k) ==
  TaskGoto(k, IF taskMint[k] \notin FOCUS_TOKEN_LIST THEN "leaving"
              ELSE IF taskMint[k] \in expired THEN "removing" ELSE "waiting")

\* The timer ticks and the configuration is read (and let go) before the map.
Tick(k) ==
  /\ taskPc[k] = "waiting"
  /\ ConfigFree /\ FocusFree(taskMint[k])
  /\ NextOfTick(k)
  /\ UNCHANGED <<FOCUS_TOKEN_LIST, expired, PRICE_MONITORING_TASKS, handlerVars, raced>>

\* Mutant: the task goes on after it removed its record.
RemoveAndGoOn(k) ==
  /\ taskPc[k] = "removing"
  /\ FocusFree(taskMint[k])
  /\ FOCUS_TOKEN_LIST' = FOCUS_TOKEN_LIST \ {taskMint[k]}
  /\ expired' = expired \ {taskMint[k]}
  /\ TaskGoto(k, "waiting")
  /\ UNCHANGED <<PRICE_MONITORING_TASKS, handlerVars, raced>>

\* The guard was dropped before the removal: the record may be a newer one.
RemoveFocus(k) ==
  /\ taskPc[k] = "removing"
  /\ FocusFree(taskMint[k])
  /\ FOCUS_TOKEN_LIST' = FOCUS_TOKEN_LIST \ {taskMint[k]}
  /\ expired' = expired \ {taskMint[k]}
  /\ TaskGoto(k, "leaving")
  /\ UNCHANGED <<PRICE_MONITORING_TASKS, handlerVars, raced>>

\* Mutant: the registration stays.
KeepRegistration(m) == PRICE_MONITORING_TASKS' = PRICE_MONITORING_TASKS

\* By key: the registration that goes may be a newer task's.
Unregister(m) == PRICE_MONITORING_TASKS' = [PRICE_MONITORING_TASKS EXCEPT ![m] = None]

Leave(k) ==
  /\ taskPc[k] = "leaving"
  /\ Unregister(taskMint[k])
  /\ taskPc' = [taskPc EXCEPT ![k] = "off"]
  /\ taskMint' = [taskMint EXCEPT ![k] = None]
  /\ UNCHANGED <<FOCUS_TOKEN_LIST, expired, handlerVars, raced>>

YoungRecord(m) == m \in FOCUS_TOKEN_LIST \ expired

\* An hour has passed since the record was made.
Expire(m) ==
  /\ YoungRecord(m)
  /\ expired' = expired \cup {m}
  /\ UNCHANGED <<FOCUS_TOKEN_LIST, PRICE_MONITORING_TASKS, handlerVars, taskVars, raced>>
-----------------------------------------------------------------------------
HandlerProgress(h) ==
  \/ AddFocus(h)
  \/ \E k \in PriceTask : StartPriceMonitoring(h, k)
  \/ EvaluateTrade(h)
  \/ Trigger(h)

TaskStep(k) == Tick(k) \/ RemoveFocus(k) \/ Leave(k)

Next ==
  \/ \E h \in Handler, m \in Mint : TradeArrives(h, m)
  \/ \E h \in Handler : HandlerProgress(h)
  \/ \E k \in PriceTask : TaskStep(k)
  \/ \E m \in Mint : Expire(m)

Spec == Init /\ [][Next]_vars

\* A running task is scheduled, and gets the tokio mutex in its turn (it is
\* fair) whenever it becomes free again and again.
FairSpec ==
  /\ Spec
  /\ \A h \in Handler : SF_vars(HandlerProgress(h))
  /\ \A k \in PriceTask : SF_vars(TaskStep(k))
-----------------------------------------------------------------------------
(* Properties *)

Halted == \E h \in Handler : Stuck(h)

\* A token on the focus list has a price task that will look at it again, or a
\* handler that is about to launch one: no record is left unattended, however
\* the insertions, launches and removals of several threads interleave.
FocusedIsWatched ==
  \A m \in FOCUS_TOKEN_LIST :
    \/ \E k \in PriceTask : taskPc[k] \in {"waiting", "removing"} /\ taskMint[k] = m
    \/ \E h \in Handler : hPc[h] = "launch" /\ hMint[h] = m

\* What is registered is running: unlike MONITORING_TASKS, this map does not
\* keep the token of a task that has ended.
RegisteredIsRunning ==
  \A m \in Mint : PRICE_MONITORING_TASKS[m] # None =>
    taskPc[PRICE_MONITORING_TASKS[m]] # "off" /\ taskMint[PRICE_MONITORING_TASKS[m]] = m

\* Two price tasks watch a token only after two handlers added it at once, or
\* one added it while the task of the former record was still leaving.
OneTaskPerToken ==
  \A j, k \in PriceTask :
    /\ j # k /\ taskPc[j] # "off" /\ taskPc[k] # "off" /\ taskMint[j] = taskMint[k]
    => \/ taskMint[j] \in raced
       \/ taskPc[j] = "leaving" \/ taskPc[k] = "leaving"

\* A record that is an hour old goes, unless a trigger has halted the engine.
OldFocusRemoved ==
  \A m \in Mint : m \in expired ~> m \notin expired \/ Halted

\* "Check if token should be removed due to inactivity (e.g., 1 hour)": the price
\* task of a record that is an hour old takes it off the list.
OldFocusAlwaysRemoved == \A m \in Mint : m \in expired ~> m \notin expired
=============================================================================
