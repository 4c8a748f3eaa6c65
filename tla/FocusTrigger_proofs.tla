------------------------- MODULE FocusTrigger_proofs -------------------------
(* Theorems about FocusTrigger, for any number of tokens, handlers and tasks. *)
EXTENDS FocusTrigger, TLAPS

\* What every step preserves; the two properties need each other only through
\* the types.
FocusInv == TypeOK /\ FocusedIsWatched /\ RegisteredIsRunning

\* The engine starts with an empty focus list.
LEMMA InitInv == ASSUME Init PROVE FocusInv
BY FocusAssumption DEF Init, FocusInv, TypeOK, FocusedIsWatched, RegisteredIsRunning

\* A handler that moves on, having neither launched nor inserted anything.
LEMMA GotoKeepsInv ==
  ASSUME FocusInv, NEW h \in Handler, hPc[h] # "launch",
         NEW pc \in {"idle", "launch", "trade", "stuck"}, Goto(h, pc),
         pc # "idle" => hMint[h] \in Mint,
         UNCHANGED <<FOCUS_TOKEN_LIST, expired, PRICE_MONITORING_TASKS, taskVars, raced>>
  PROVE  FocusInv'
<1>1. TypeOK'
  BY DEF FocusInv, TypeOK, Goto, taskVars
<1>2. FocusedIsWatched'
  BY DEF FocusInv, TypeOK, FocusedIsWatched, Goto, taskVars
<1>3. RegisteredIsRunning'
  BY DEF FocusInv, RegisteredIsRunning, taskVars
<1> QED BY <1>1, <1>2, <1>3 DEF FocusInv

\* A trade arrives: the check of the focus list changes no map.
LEMMA ArrivalKeepsInv ==
  ASSUME FocusInv, NEW h \in Handler, NEW m \in Mint, TradeArrives(h, m)
  PROVE  FocusInv'
<1>1. TypeOK'
  BY DEF FocusInv, TypeOK, TradeArrives, taskVars
<1>2. FocusedIsWatched'
  BY DEF FocusInv, TypeOK, FocusedIsWatched, TradeArrives, taskVars
<1>3. RegisteredIsRunning'
  BY DEF FocusInv, RegisteredIsRunning, TradeArrives, taskVars
<1> QED BY <1>1, <1>2, <1>3 DEF FocusInv

\* A handler inserts, launches, evaluates or gets stuck.
LEMMA HandlerKeepsInv ==
  ASSUME FocusInv, NEW h \in Handler, HandlerProgress(h)
  PROVE  FocusInv'
<1>1. CASE AddFocus(h)
  <2>1. TypeOK'
    BY <1>1 DEF AddFocus, Goto, FocusInv, TypeOK, taskVars
  <2>2. FocusedIsWatched'
    BY <1>1 DEF AddFocus, Goto, FocusInv, TypeOK, FocusedIsWatched, taskVars
  <2>3. RegisteredIsRunning'
    BY <1>1 DEF AddFocus, FocusInv, RegisteredIsRunning, taskVars
  <2> QED BY <2>1, <2>2, <2>3 DEF FocusInv
<1>2. ASSUME NEW k \in PriceTask, StartPriceMonitoring(h, k) PROVE FocusInv'
  <2> USE <1>2 DEF StartPriceMonitoring, LaunchPriceMonitoring
  <2>1. TypeOK'
    BY DEF Goto, FocusInv, TypeOK
  <2>2. FocusedIsWatched'
    BY DEF Goto, FocusInv, TypeOK, FocusedIsWatched
  <2>3. RegisteredIsRunning'
    BY FocusAssumption DEF FocusInv, TypeOK, RegisteredIsRunning
  <2> QED BY <2>1, <2>2, <2>3 DEF FocusInv
<1>3. CASE EvaluateTrade(h)
  BY <1>3, GotoKeepsInv DEF EvaluateTrade
<1>4. CASE Trigger(h)
  <2>1. hMint[h] \in Mint
    BY <1>4 DEF Trigger, FocusInv, TypeOK
  <2> QED BY <1>4, <2>1, GotoKeepsInv DEF Trigger
<1> QED BY <1>1, <1>2, <1>3, <1>4 DEF HandlerProgress

\* A price task ticks, removes its record or leaves.
LEMMA TaskKeepsInv ==
  ASSUME FocusInv, NEW k \in PriceTask, TaskStep(k)
  PROVE  FocusInv'
<1>1. CASE Tick(k)
  <2> USE <1>1 DEF Tick, NextOfTick, TaskGoto, handlerVars
  <2>1. TypeOK'
    BY DEF FocusInv, TypeOK
  <2>2. FocusedIsWatched'
    BY DEF FocusInv, TypeOK, FocusedIsWatched
  <2>3. RegisteredIsRunning'
    BY DEF FocusInv, TypeOK, RegisteredIsRunning
  <2> QED BY <2>1, <2>2, <2>3 DEF FocusInv
<1>2. CASE RemoveFocus(k)
  <2> USE <1>2 DEF RemoveFocus, TaskGoto, handlerVars
  <2>1. TypeOK'
    BY DEF FocusInv, TypeOK
  <2>2. FocusedIsWatched'
    BY DEF FocusInv, TypeOK, FocusedIsWatched
  <2>3. RegisteredIsRunning'
    BY DEF FocusInv, TypeOK, RegisteredIsRunning
  <2> QED BY <2>1, <2>2, <2>3 DEF FocusInv
<1>3. CASE Leave(k)
  <2> USE <1>3 DEF Leave, Unregister, handlerVars
  <2>1. TypeOK'
    BY DEF FocusInv, TypeOK
  <2>2. FocusedIsWatched'
    BY DEF FocusInv, TypeOK, FocusedIsWatched
  <2>3. RegisteredIsRunning'
    BY FocusAssumption DEF FocusInv, TypeOK, RegisteredIsRunning
  <2> QED BY <2>1, <2>2, <2>3 DEF FocusInv
<1> QED BY <1>1, <1>2, <1>3 DEF TaskStep

\* Every step, an hour passing included.
LEMMA StepKeepsInv == FocusInv /\ [Next]_vars => FocusInv'
<1>1. ASSUME FocusInv, NEW m \in Mint, Expire(m) PROVE FocusInv'
  BY <1>1 DEF Expire, YoungRecord, FocusInv, TypeOK, FocusedIsWatched, RegisteredIsRunning,
     handlerVars, taskVars
<1>2. ASSUME FocusInv, UNCHANGED vars PROVE FocusInv'
  BY <1>2 DEF vars, handlerVars, taskVars, FocusInv, TypeOK, FocusedIsWatched,
     RegisteredIsRunning
<1> QED BY <1>1, <1>2, ArrivalKeepsInv, HandlerKeepsInv, TaskKeepsInv DEF Next

\* The invariant behind the three theorems below holds in every reachable state of
\* the focus list and its price tasks.
THEOREM FocusInvariant == Spec => []FocusInv
BY InitInv, StepKeepsInv, PTL DEF Spec

\* TypeOK holds in every reachable state.
THEOREM FocusTyping == Spec => []TypeOK
<1>1. FocusInv => TypeOK
  BY DEF FocusInv
<1> QED BY <1>1, FocusInvariant, PTL

\* No record of the focus list is left without a task or a handler that will
\* look at it again, whatever the threads do between the check of
\* fr_handle_message_for_dex_monitoring and its insertions.
THEOREM NoFocusUnattended == Spec => []FocusedIsWatched
<1>1. FocusInv => FocusedIsWatched
  BY DEF FocusInv
<1> QED BY <1>1, FocusInvariant, PTL

\* PRICE_MONITORING_TASKS names no task that has ended.
THEOREM NoDeadRegistration == Spec => []RegisteredIsRunning
<1>1. FocusInv => RegisteredIsRunning
  BY DEF FocusInv
<1> QED BY <1>1, FocusInvariant, PTL
-----------------------------------------------------------------------------
(* One task per token *)

Adding(h, m) == hPc[h] \in {"insert", "launch"} /\ hMint[h] = m
Watching(k, m) == taskPc[k] \in {"waiting", "removing"} /\ taskMint[k] = m

\* As long as no two handlers met over m, the one that adds it is alone, and its
\* record, the launch of its task and the task follow one another.
Unraced(m) ==
  /\ \A g, h \in Handler : Adding(g, m) /\ Adding(h, m) => g = h
  /\ \A h \in Handler : Adding(h, m) =>
        /\ hPc[h] = "insert" => m \notin FOCUS_TOKEN_LIST
        /\ hPc[h] = "launch" => m \in FOCUS_TOKEN_LIST
        /\ \A k \in PriceTask : ~Watching(k, m)
  /\ \A k \in PriceTask : Watching(k, m) => m \in FOCUS_TOKEN_LIST
  /\ \A j, k \in PriceTask : Watching(j, m) /\ Watching(k, m) => j = k

UnracedInv == \A m \in Mint \ raced : Unraced(m)

LEMMA InitUnraced == ASSUME Init PROVE UnracedInv
BY DEF Init, UnracedInv, Unraced, Adding, Watching

\* A handler that is the first to add a token finds no task that watches it.
LEMMA ArrivalKeepsUnraced ==
  ASSUME TypeOK, UnracedInv, NEW h \in Handler, NEW x \in Mint, TradeArrives(h, x)
  PROVE  UnracedInv'
<1> SUFFICES ASSUME NEW m \in Mint, m \notin raced' PROVE Unraced(m)'
  BY DEF UnracedInv
<1>1. /\ m \notin raced /\ Unraced(m)
      /\ UNCHANGED <<FOCUS_TOKEN_LIST, taskPc, taskMint>>
      /\ hPc[h] = "idle" /\ \A g \in Handler \ {h} : hPc'[g] = hPc[g] /\ hMint'[g] = hMint[g]
      /\ hMint'[h] = x /\ hPc'[h] = IF x \in FOCUS_TOKEN_LIST THEN "trade" ELSE "insert"
      /\ x = m /\ x \notin FOCUS_TOKEN_LIST => \A g \in Handler \ {h} : ~Adding(g, m)
  BY DEF TradeArrives, UnracedInv, Adding, TypeOK, taskVars
<1>2. \A k \in PriceTask : Watching(k, m)' <=> Watching(k, m)
  BY <1>1 DEF Watching
<1>3. \A g \in Handler \ {h} : Adding(g, m)' <=> Adding(g, m)
  BY <1>1 DEF Adding
<1>4. Adding(h, m)' <=> x = m /\ x \notin FOCUS_TOKEN_LIST
  BY <1>1 DEF Adding
<1> HIDE DEF Adding, Watching
<1> QED BY <1>1, <1>2, <1>3, <1>4 DEF Unraced

\* Only a handler alone inserts and launches.
LEMMA HandlerKeepsUnraced ==
  ASSUME TypeOK, UnracedInv, NEW h \in Handler, HandlerProgress(h)
  PROVE  UnracedInv'
<1> SUFFICES ASSUME NEW m \in Mint, m \notin raced' PROVE Unraced(m)'
  BY DEF UnracedInv
<1>1. CASE AddFocus(h)
  <2>1. /\ m \notin raced /\ Unraced(m) /\ UNCHANGED <<taskPc, taskMint, hMint>>
        /\ hPc[h] = "insert" /\ hPc'[h] = "launch"
        /\ \A g \in Handler \ {h} : hPc'[g] = hPc[g]
        /\ FOCUS_TOKEN_LIST' = FOCUS_TOKEN_LIST \cup {hMint[h]}
    BY <1>1 DEF AddFocus, Goto, UnracedInv, TypeOK, taskVars
  <2>2. \A k \in PriceTask : Watching(k, m)' <=> Watching(k, m)
    BY <2>1 DEF Watching
  <2>3. \A g \in Handler : Adding(g, m)' <=> Adding(g, m)
    BY <2>1 DEF Adding
  <2>4. Adding(h, m) <=> hMint[h] = m
    BY <2>1 DEF Adding
  <2> HIDE DEF Adding, Watching
  <2> QED BY <2>1, <2>2, <2>3, <2>4 DEF Unraced
<1>2. ASSUME NEW k \in PriceTask, StartPriceMonitoring(h, k) PROVE Unraced(m)'
  <2>1. /\ m \notin raced /\ Unraced(m) /\ UNCHANGED <<FOCUS_TOKEN_LIST, hMint>>
        /\ hPc[h] = "launch" /\ hPc'[h] = "trade"
        /\ \A g \in Handler \ {h} : hPc'[g] = hPc[g]
        /\ taskPc'[k] = "waiting" /\ taskMint'[k] = hMint[h]
        /\ \A j \in PriceTask \ {k} : taskPc'[j] = taskPc[j] /\ taskMint'[j] = taskMint[j]
    BY <1>2 DEF StartPriceMonitoring, LaunchPriceMonitoring, Goto, UnracedInv, TypeOK
  <2>2. \A j \in PriceTask : Watching(j, m)' <=> IF j = k THEN hMint[h] = m ELSE Watching(j, m)
    BY <2>1 DEF Watching
  <2>3. \A g \in Handler : Adding(g, m)' <=> g # h /\ Adding(g, m)
    BY <2>1 DEF Adding
  <2>4. Adding(h, m) <=> hMint[h] = m
    BY <2>1 DEF Adding
  <2> HIDE DEF Adding, Watching
  <2> QED BY <2>1, <2>2, <2>3, <2>4 DEF Unraced
<1>3. CASE EvaluateTrade(h) \/ Trigger(h)
  <2>1. /\ m \notin raced /\ Unraced(m) /\ UNCHANGED <<FOCUS_TOKEN_LIST, taskPc, taskMint>>
        /\ hPc[h] = "trade" /\ hPc'[h] \in {"idle", "stuck"}
        /\ \A g \in Handler \ {h} : hPc'[g] = hPc[g] /\ hMint'[g] = hMint[g]
    BY <1>3 DEF EvaluateTrade, Trigger, Goto, UnracedInv, TypeOK, taskVars
  <2>2. \A k \in PriceTask : Watching(k, m)' <=> Watching(k, m)
    BY <2>1 DEF Watching
  <2>3. \A g \in Handler : /\ Adding(g, m)' <=> Adding(g, m)
                           /\ Adding(g, m) => hPc'[g] = hPc[g]
    BY <2>1 DEF Adding
  <2> HIDE DEF Adding, Watching
  <2> QED BY <2>1, <2>2, <2>3 DEF Unraced
<1> QED BY <1>1, <1>2, <1>3 DEF HandlerProgress

\* The record goes with the task that watched it.
LEMMA TaskKeepsUnraced ==
  ASSUME TypeOK, UnracedInv, NEW k \in PriceTask, TaskStep(k)
  PROVE  UnracedInv'
<1> SUFFICES ASSUME NEW m \in Mint, m \notin raced' PROVE Unraced(m)'
  BY DEF UnracedInv
<1>1. m \notin raced /\ Unraced(m) /\ UNCHANGED <<hPc, hMint>>
  BY DEF TaskStep, Tick, RemoveFocus, Leave, UnracedInv, handlerVars
<1>2. \A g \in Handler : Adding(g, m)' <=> Adding(g, m)
  BY <1>1 DEF Adding
<1>3. CASE Tick(k) \/ Leave(k)
  <2>1. /\ UNCHANGED FOCUS_TOKEN_LIST /\ taskPc[k] \in {"waiting", "leaving"}
        /\ taskPc'[k] \in {"waiting", "removing"} => taskPc[k] = "waiting" /\ taskMint'[k] = taskMint[k]
        /\ \A j \in PriceTask \ {k} : taskPc'[j] = taskPc[j] /\ taskMint'[j] = taskMint[j]
    BY <1>3 DEF Tick, NextOfTick, TaskGoto, Leave, TypeOK
  <2>2. \A j \in PriceTask : Watching(j, m)' => Watching(j, m)
    BY <2>1 DEF Watching
  <2> HIDE DEF Adding, Watching
  <2> QED BY <1>1, <1>2, <2>1, <2>2 DEF Unraced
<1>4. CASE RemoveFocus(k)
  <2>1. /\ taskPc[k] = "removing" /\ taskPc'[k] = "leaving" /\ UNCHANGED taskMint
        /\ FOCUS_TOKEN_LIST' = FOCUS_TOKEN_LIST \ {taskMint[k]}
        /\ \A j \in PriceTask \ {k} : taskPc'[j] = taskPc[j]
    BY <1>4 DEF RemoveFocus, TaskGoto, TypeOK
  <2>2. \A j \in PriceTask : Watching(j, m)' <=> j # k /\ Watching(j, m)
    BY <2>1 DEF Watching
  <2>3. Watching(k, m) <=> taskMint[k] = m
    BY <2>1 DEF Watching
  <2> HIDE DEF Adding, Watching
  <2> QED BY <1>1, <1>2, <2>1, <2>2, <2>3 DEF Unraced
<1> QED BY <1>3, <1>4 DEF TaskStep

LEMMA StepKeepsUnraced == TypeOK /\ UnracedInv /\ [Next]_vars => UnracedInv'
<1>1. ASSUME UnracedInv, NEW m \in Mint, Expire(m) PROVE UnracedInv'
  BY <1>1 DEF Expire, UnracedInv, Unraced, Adding, Watching, handlerVars, taskVars
<1>2. ASSUME UnracedInv, UNCHANGED vars PROVE UnracedInv'
  BY <1>2 DEF vars, handlerVars, taskVars, UnracedInv, Unraced, Adding, Watching
<1> QED BY <1>1, <1>2, ArrivalKeepsUnraced, HandlerKeepsUnraced, TaskKeepsUnraced DEF Next

\* Two price tasks watch one token only after two handlers were adding it at
\* once, between contains_key and the insertion of its record.
THEOREM OneTaskEach == Spec => []OneTaskPerToken
<1>1. UnracedInv /\ TypeOK => OneTaskPerToken
  <2> SUFFICES ASSUME UnracedInv, TypeOK, NEW j \in PriceTask, NEW k \in PriceTask,
                      taskPc[j] # "off", taskPc[k] # "off", taskMint[j] = taskMint[k],
                      taskMint[j] \notin raced, taskPc[j] # "leaving", taskPc[k] # "leaving"
               PROVE  j = k
    BY DEF OneTaskPerToken
  <2>1. taskMint[j] \in Mint \ raced
    BY DEF TypeOK
  <2>2. Watching(j, taskMint[j]) /\ Watching(k, taskMint[j])
    BY DEF Watching, TypeOK
  <2> QED BY <2>1, <2>2 DEF UnracedInv, Unraced
<1> QED BY <1>1, InitUnraced, StepKeepsUnraced, FocusTyping, PTL DEF Spec
-----------------------------------------------------------------------------
(* What the configuration mutex stops *)

\* What goes on while nobody can have the configuration, and what does not: handlers
\* that want it and price tasks that tick stay where they are with their token, no
\* task starts to remove a record, and the list gains only what a handler is
\* already inserting and loses only what a task is already removing.  A task that
\* is already leaving unregisters, and a handler may still launch a new one.
Frozen ==
  /\ \A h \in Handler : hPc[h] \in {"trade", "stuck"} => hPc'[h] = hPc[h] /\ hMint'[h] = hMint[h]
  /\ \A h \in Handler : hPc'[h] = "stuck" => hPc[h] = "stuck"
  /\ \A k \in PriceTask : taskPc[k] = "waiting" => taskPc'[k] = "waiting" /\ taskMint'[k] = taskMint[k]
  /\ \A k \in PriceTask : taskPc'[k] = "removing" => taskPc[k] = "removing"
  /\ \A k \in PriceTask : taskPc'[k] = "leaving" => taskPc[k] \in {"removing", "leaving"}
  /\ \A m \in FOCUS_TOKEN_LIST \ FOCUS_TOKEN_LIST' :
       \E k \in PriceTask : taskPc[k] = "removing" /\ taskMint[k] = m
  /\ \A m \in FOCUS_TOKEN_LIST' \ FOCUS_TOKEN_LIST :
       \E h \in Handler : hPc[h] = "insert" /\ hMint[h] = m

\* Only EvaluateTrade, Trigger and Tick need the mutex.
LEMMA TakenConfigFreezes == TypeOK /\ [Next]_vars /\ ~ConfigFree => Frozen
<1> SUFFICES ASSUME TypeOK, [Next]_vars, ~ConfigFree PROVE Frozen
  OBVIOUS
<1>1. ASSUME NEW h \in Handler, NEW m \in Mint, TradeArrives(h, m) PROVE Frozen
  BY <1>1 DEF TradeArrives, Frozen, TypeOK, taskVars
<1>2. ASSUME NEW h \in Handler, HandlerProgress(h) PROVE Frozen
  <2>1. CASE AddFocus(h)
    BY <2>1 DEF AddFocus, Goto, Frozen, TypeOK, taskVars
  <2>2. ASSUME NEW k \in PriceTask, StartPriceMonitoring(h, k) PROVE Frozen
    BY <2>2 DEF StartPriceMonitoring, LaunchPriceMonitoring, Goto, Frozen, TypeOK
  <2> QED BY <1>2, <2>1, <2>2 DEF HandlerProgress, EvaluateTrade, Trigger
<1>3. ASSUME NEW k \in PriceTask, TaskStep(k) PROVE Frozen
  <2>1. CASE RemoveFocus(k)
    BY <2>1 DEF RemoveFocus, TaskGoto, Frozen, TypeOK, handlerVars
  <2>2. CASE Leave(k)
    BY <2>2 DEF Leave, Frozen, TypeOK, handlerVars
  <2> QED BY <1>3, <2>1, <2>2 DEF TaskStep, Tick
<1>4. ASSUME NEW m \in Mint, Expire(m) PROVE Frozen
  BY <1>4 DEF Expire, Frozen, TypeOK, handlerVars, taskVars
<1>5. CASE UNCHANGED vars
  BY <1>5 DEF vars, Frozen, handlerVars, taskVars
<1> QED BY <1>1, <1>2, <1>3, <1>4, <1>5 DEF Next

\* The first trigger of a sniper buy is the last (sniper-bot.rs:3266 asks for the
\* guard that its caller holds at 3300): at most one handler is ever stuck, ...
OneTrigger == \A g, h \in Handler : Stuck(g) /\ Stuck(h) => g = h

THEOREM FirstTriggerIsLast == Spec => []OneTrigger
<1>1. Init => OneTrigger
  BY DEF Init, OneTrigger, Stuck
<1>2. TypeOK /\ OneTrigger /\ [Next]_vars => OneTrigger'
  <2> SUFFICES ASSUME TypeOK, OneTrigger, [Next]_vars PROVE OneTrigger'
    OBVIOUS
  <2>1. CASE ~ConfigFree
    BY <2>1, TakenConfigFreezes DEF Frozen, OneTrigger, Stuck
  <2>2. CASE ConfigFree
    <3>1. \A h \in Handler : ~Stuck(h)
      BY <2>2 DEF ConfigFree
    <3>2. ASSUME NEW h \in Handler, NEW m \in Mint, TradeArrives(h, m) PROVE OneTrigger'
      BY <3>1, <3>2 DEF TradeArrives, TypeOK, OneTrigger, Stuck
    <3>3. ASSUME NEW h \in Handler, HandlerProgress(h) PROVE OneTrigger'
      BY <3>1, <3>3 DEF HandlerProgress, AddFocus, StartPriceMonitoring, EvaluateTrade, Trigger,
                        Goto, TypeOK, OneTrigger, Stuck
    <3>4. ASSUME NEW k \in PriceTask, TaskStep(k) PROVE OneTrigger'
      BY <3>1, <3>4 DEF TaskStep, Tick, RemoveFocus, Leave, handlerVars, OneTrigger, Stuck
    <3>5. ASSUME NEW m \in Mint, Expire(m) PROVE OneTrigger'
      BY <3>1, <3>5 DEF Expire, handlerVars, OneTrigger, Stuck
    <3>6. CASE UNCHANGED vars
      BY <3>1, <3>6 DEF vars, handlerVars, OneTrigger, Stuck
    <3> QED BY <3>2, <3>3, <3>4, <3>5, <3>6 DEF Next
  <2> QED BY <2>1, <2>2
<1> QED BY <1>1, <1>2, FocusTyping, PTL DEF Spec

\* ... and from then on, for ever, no trade is evaluated and no price task gets past
\* its tick: records still come with handlers that were inserting them and go with
\* tasks that were removing them, and launches and leaving tasks still change the
\* registrations, but no record that a waiting task watches is looked at again.
THEOREM HaltIsFinal == Spec => [][Halted => Halted' /\ Frozen]_vars
<1>1. TypeOK /\ [Next]_vars => [Halted => Halted' /\ Frozen]_vars
  <2> SUFFICES ASSUME TypeOK, [Next]_vars, Halted PROVE Halted' /\ Frozen
    OBVIOUS
  <2>1. Frozen
    BY TakenConfigFreezes DEF Halted, ConfigFree
  <2> QED BY <2>1 DEF Frozen, Halted, Stuck
<1> QED BY <1>1, FocusTyping, PTL DEF Spec

\* Under main.rs, which keeps the configuration guard for the life of the engine
\* (main.rs:295 and 395), no handler is past its trade and no task past its tick.
NobodyPastConfig ==
  /\ \A h \in Handler : ~Stuck(h)
  /\ \A k \in PriceTask : taskPc[k] \in {"off", "waiting"}

THEOREM MainStopsEverybody ==
  ASSUME HostHoldsConfig PROVE Spec => []NobodyPastConfig /\ [][Frozen]_vars
<1>1. Init => NobodyPastConfig
  BY DEF Init, NobodyPastConfig, Stuck
<1>2. TypeOK /\ [Next]_vars => Frozen
  BY TakenConfigFreezes, HostHoldsConfig DEF ConfigFree
<1>3. TypeOK /\ TypeOK' /\ NobodyPastConfig /\ Frozen => NobodyPastConfig'
  BY DEF TypeOK, NobodyPastConfig, Frozen, Stuck
<1> QED BY <1>1, <1>2, <1>3, FocusTyping, PTL DEF Spec

\* So a token that was ever put on the focus list stays there: what a comment
\* calls inactivity removal (sniper-bot.rs:3415) never happens.
THEOREM NothingLeavesUnderMain ==
  ASSUME HostHoldsConfig PROVE Spec => [][FOCUS_TOKEN_LIST \subseteq FOCUS_TOKEN_LIST']_vars
<1>1. NobodyPastConfig /\ Frozen => FOCUS_TOKEN_LIST \subseteq FOCUS_TOKEN_LIST'
  BY DEF NobodyPastConfig, Frozen
<1>2. NobodyPastConfig /\ [Frozen]_vars => [FOCUS_TOKEN_LIST \subseteq FOCUS_TOKEN_LIST']_vars
  BY <1>1
<1>3. Spec => []NobodyPastConfig /\ [][Frozen]_vars
  BY HostHoldsConfig, MainStopsEverybody
<1> QED BY <1>2, <1>3, PTL
-----------------------------------------------------------------------------
(* One handler at a time *)

\* What a handler is about to add is not on the list.
AddsAlone ==
  /\ raced = {}
  /\ \A h \in Handler : hPc[h] = "insert" => hMint[h] \notin FOCUS_TOKEN_LIST

\* Two price tasks run for a token only while one of them is leaving.
TasksAlone ==
  \A j, k \in PriceTask :
    /\ j # k /\ taskPc[j] # "off" /\ taskPc[k] # "off" /\ taskMint[j] = taskMint[k]
    => taskPc[j] = "leaving" \/ taskPc[k] = "leaving"

\* Two price tasks that go on watching one token are due to handlers that
\* overlap alone (sniper-bot.rs:3205): while trades are handled one at a time,
\* there are none, though tasks end and records go as they like.
THEOREM OneHandlerAtATime ==
  ASSUME \A h, g \in Handler : h = g
  PROVE  Spec => []TasksAlone
<1>1. Init => AddsAlone
  BY DEF Init, AddsAlone
<1>2. TypeOK /\ AddsAlone /\ [Next]_vars => AddsAlone'
  <2> SUFFICES ASSUME TypeOK, AddsAlone, [Next]_vars PROVE AddsAlone'
    OBVIOUS
  <2>t. /\ hPc \in [Handler -> {"idle", "insert", "launch", "trade", "stuck"}]
        /\ hMint \in [Handler -> Mint \cup {None}]
    BY DEF TypeOK
  <2>1. ASSUME NEW h \in Handler, NEW m \in Mint, TradeArrives(h, m) PROVE AddsAlone'
    BY \A x, g \in Handler : x = g, <2>t, <2>1 DEF TradeArrives, AddsAlone
  <2>2. ASSUME NEW h \in Handler, AddFocus(h) PROVE AddsAlone'
    BY \A x, g \in Handler : x = g, <2>t, <2>2 DEF AddFocus, Goto, AddsAlone
  <2>3. ASSUME UNCHANGED raced, FOCUS_TOKEN_LIST' \subseteq FOCUS_TOKEN_LIST,
               \A h \in Handler : hPc'[h] = "insert" => hPc[h] = "insert" /\ hMint'[h] = hMint[h]
        PROVE  AddsAlone'
    BY <2>3 DEF AddsAlone
  <2>4. ASSUME NEW h \in Handler,
               (\E k \in PriceTask : StartPriceMonitoring(h, k)) \/ EvaluateTrade(h) \/ Trigger(h)
        PROVE  AddsAlone'
    <3>1. /\ UNCHANGED <<raced, FOCUS_TOKEN_LIST>>
          /\ \A g \in Handler : hPc'[g] = "insert" => hPc[g] = "insert" /\ hMint'[g] = hMint[g]
      BY <2>t, <2>4 DEF StartPriceMonitoring, EvaluateTrade, Trigger, Goto
    <3> QED BY <2>3, <3>1
  <2>5. ASSUME NEW k \in PriceTask, TaskStep(k) PROVE AddsAlone'
    BY <2>3, <2>5 DEF TaskStep, Tick, RemoveFocus, Leave, handlerVars
  <2>6. ASSUME (\E m \in Mint : Expire(m)) \/ UNCHANGED vars PROVE AddsAlone'
    BY <2>3, <2>6 DEF Expire, handlerVars, vars
  <2> QED BY <2>1, <2>2, <2>4, <2>5, <2>6 DEF Next, HandlerProgress
<1>3. AddsAlone /\ OneTaskPerToken => TasksAlone
  BY DEF AddsAlone, OneTaskPerToken, TasksAlone
<1> QED BY <1>1, <1>2, <1>3, FocusTyping, OneTaskEach, PTL DEF Spec
=============================================================================
