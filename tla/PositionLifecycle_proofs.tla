---------------------- MODULE PositionLifecycle_proofs ----------------------
(* Theorems about PositionLifecycle, for every value of its constants. *)
EXTENDS PositionLifecycle, FiniteSetTheorems, TLAPS

\* The engine starts in a state of the right type.
LEMMA InitTyped == ASSUME Init PROVE TypeOK
BY ConstantsAssumption DEF Init, TypeOK, RegistryTypeOK, BuyTypeOK, MonitorTypeOK,
   SellTypeOK, SweepTypeOK, Attempt

\* Buy handlers keep the types: what they work on stays a mint until they are idle.
LEMMA BuyTyped ==
  ASSUME TypeOK, NEW t \in BuyTask, BuyStep(t)
  PROVE  TypeOK'
<1> USE DEF TypeOK, RegistryTypeOK, BuyTypeOK, MonitorTypeOK, SellTypeOK, SweepTypeOK,
            registryVars, streamVars, buyVars, monVars, sellVars, sweepVars, historyVars
<1>1. ASSUME NEW m \in Mint, BeginBuy(t, m) PROVE TypeOK'
  BY <1>1 DEF BeginBuy, BuySlotFree
<1>2. CASE BuyNotSent(t)
  BY <1>2 DEF BuyNotSent
<1>3. CASE BuySent(t)
  BY <1>3 DEF BuySent
<1>4. CASE BuySentButErr(t)
  BY <1>4 DEF BuySentButErr
<1>5. CASE VerifyBuyOk(t)
  BY <1>5 DEF VerifyBuyOk
<1>6. CASE VerifyBuyErr(t)
  BY <1>6 DEF VerifyBuyErr
<1>7. ASSUME NEW k \in Monitor, NEW measured \in BOOLEAN, NEW priced \in BOOLEAN,
             BookBuy(t, k, measured, priced)
      PROVE  TypeOK'
  BY <1>7 DEF BookBuy, Refresh, RegisterMonitor
<1> QED BY <1>1, <1>2, <1>3, <1>4, <1>5, <1>6, <1>7
        DEF BuyStep, BuyProgress, BeginSniperBuy, BeginCopyBuy

\* Monitor tasks keep the types.
LEMMA MonitorTyped ==
  ASSUME TypeOK, NEW k \in Monitor, MonitorStep(k)
  PROVE  TypeOK'
<1> USE DEF TypeOK, RegistryTypeOK, BuyTypeOK, MonitorTypeOK, SellTypeOK, SweepTypeOK,
            registryVars, streamVars, buyVars, monVars, sellVars, sweepVars, historyVars
<1>1. CASE MonitorConnects(k)
  BY <1>1 DEF MonitorConnects
<1>2. CASE MonitorStops(k)
  BY <1>2 DEF MonitorStops, MonitorExits
<1>3. ASSUME NEW s \in SellTask, NEW m \in Mint, MonitorMessage(k, s, m) PROVE TypeOK'
  <2>1. SellTypeOK'
    BY <1>3 DEF MonitorMessage, SellSlotFree
  <2>2. MonitorTypeOK'
    <3>1. CASE monMint[k] \in BOUGHT_TOKEN_LIST
      <4>1. UNCHANGED <<monPc, monMint, cancelled>>
        BY <1>3, <3>1 DEF MonitorMessage
      <4> QED BY <4>1
    <3>2. CASE monMint[k] \notin BOUGHT_TOKEN_LIST
      <4>1. MonitorExits(k)
        BY <1>3, <3>2 DEF MonitorMessage
      <4> QED BY <4>1 DEF MonitorExits
    <3> QED BY <3>1, <3>2
  <2> QED BY <1>3, <2>1, <2>2 DEF MonitorMessage
<1> QED BY <1>1, <1>2, <1>3 DEF MonitorStep

\* Moving a sell handler on keeps the types if the sales in flight keep theirs
\* and none appears on a handler that has no mint.
LEMMA GotoTyped ==
  ASSUME SellTypeOK, NEW s \in SellTask,
         NEW pc \in {"idle", "detect", "config", "refresh", "balance", "send", "cancel"},
         NEW kind \in {"none", "urgent", "whale", "regular", "fallback"},
         SellGoto(s, pc, kind),
         sale' \in [SellTask -> [Attempt -> Nat]],
         \A x \in SellTask, a \in Attempt : sale'[x][a] # 0 => sellMint[x] \in Mint,
         pc # "idle" => sellMint[s] \in Mint
  PROVE  SellTypeOK'
BY DEF SellTypeOK, SellGoto

\* A handler that gives up, or falls back.
LEMMA ErrTyped ==
  ASSUME SellTypeOK, NEW s \in SellTask, sellPc[s] # "idle", SellErr(s),
         sale' \in [SellTask -> [Attempt -> Nat]],
         \A x \in SellTask, a \in Attempt : sale'[x][a] # 0 => sellMint[x] \in Mint
  PROVE  SellTypeOK'
<1>1. sellMint[s] \in Mint
  BY DEF SellTypeOK
<1>2. CASE sellKind[s] = "whale"
  <2>1. SellGoto(s, "balance", "fallback")
    BY <1>2 DEF SellErr
  <2> QED BY <1>1, <2>1, GotoTyped
<1>3. CASE sellKind[s] # "whale"
  <2>1. SellGoto(s, "idle", "none")
    BY <1>3 DEF SellErr
  <2> QED BY <1>1, <2>1, GotoTyped
<1> QED BY <1>2, <1>3

\* Sell handlers keep the types.
LEMMA SellTyped ==
  ASSUME TypeOK, NEW s \in SellTask, SellStep(s)
  PROVE  TypeOK'
<1> USE DEF TypeOK
<1>a. SellTypeOK /\ \A x \in SellTask, a \in Attempt : sale[x][a] # 0 => sellMint[x] \in Mint
  BY DEF SellTypeOK
<1>b. ASSUME sale' = sale PROVE
        /\ sale' \in [SellTask -> [Attempt -> Nat]]
        /\ \A x \in SellTask, a \in Attempt : sale'[x][a] # 0 => sellMint[x] \in Mint
  BY <1>a, <1>b DEF SellTypeOK
<1>c. sellPc[s] # "idle" => sellMint[s] \in Mint
  BY DEF SellTypeOK
<1>d. ASSUME SellTypeOK', UNCHANGED <<buyVars, monVars, sweepVars, wallet, historyVars>>,
             RegistryTypeOK'
      PROVE  TypeOK'
  BY <1>d DEF BuyTypeOK, MonitorTypeOK, SweepTypeOK, buyVars, monVars, sweepVars, historyVars
<1>e. ASSUME UNCHANGED <<registryVars, streamVars>> PROVE RegistryTypeOK'
  BY <1>e DEF RegistryTypeOK, registryVars, streamVars
<1>1. CASE SellDetect(s)
  <2>1. SellTypeOK'
    BY <1>1, <1>a, <1>b, <1>c, GotoTyped DEF SellDetect
  <2> QED BY <1>1, <2>1, <1>d, <1>e DEF SellDetect
<1>2. ASSUME NEW u \in SellTask \ {s}, SellDetectWhale(s, u) PROVE TypeOK'
  <2>1. SellTypeOK'
    BY <1>2, <1>c DEF SellDetectWhale, SellTypeOK
  <2> QED BY <1>2, <2>1, <1>d, <1>e DEF SellDetectWhale
<1>3. CASE SellUrgent(s)
  <2>1. SellTypeOK'
    BY <1>3, <1>a, <1>b, <1>c, GotoTyped DEF SellUrgent
  <2> QED BY <1>3, <2>1, <1>d, <1>e DEF SellUrgent
<1>4. ASSUME NEW measured \in BOOLEAN, NEW verdict \in {"hold", "whale", "regular"},
             SellEvaluate(s, measured, verdict)
      PROVE  TypeOK'
  <2>1. SellTypeOK'
    <3>1. CASE verdict = "hold"
      BY <1>4, <3>1, <1>a, <1>b, <1>c, GotoTyped DEF SellEvaluate, Refresh
    <3>2. CASE verdict # "hold"
      BY <1>4, <3>2, <1>a, <1>b, <1>c, GotoTyped DEF SellEvaluate, Refresh
    <3> QED BY <3>1, <3>2
  <2>2. RegistryTypeOK'
    BY <1>4, <1>c DEF SellEvaluate, Refresh, RegistryTypeOK, streamVars
  <2> QED BY <1>4, <2>1, <2>2, <1>d DEF SellEvaluate, Refresh
<1>5. CASE SellBalance(s)
  <2>1. CASE SellErr(s)
    BY <1>5, <2>1, <1>a, <1>b, <1>d, <1>e, ErrTyped DEF SellBalance
  <2>2. ASSUME NEW pc \in {"cancel", "send"}, SellGoto(s, pc, sellKind[s]) PROVE TypeOK'
    <3>1. sellKind[s] \in {"none", "urgent", "whale", "regular", "fallback"}
      BY DEF SellTypeOK
    <3> QED BY <1>5, <2>2, <3>1, <1>a, <1>b, <1>c, <1>d, <1>e, GotoTyped DEF SellBalance
  <2> QED BY <1>5, <2>1, <2>2 DEF SellBalance
<1>6. CASE SellSend(s)
  <2>1. /\ sale' \in [SellTask -> [Attempt -> Nat]]
        /\ \A x \in SellTask, a \in Attempt : sale'[x][a] # 0 => sellMint[x] \in Mint
    <3>1. sellPc[s] = "send" /\ sellMint[s] \in Mint
      BY <1>6, <1>c DEF SellSend
    <3>2. wallet[sellMint[s]] \in Nat
      BY <3>1
    <3>3. CASE sale' = sale
      BY <3>3, <1>b
    <3>4. ASSUME NEW a \in Attempt, NEW n \in Nat, sale' = [sale EXCEPT ![s][a] = n]
          PROVE  /\ sale' \in [SellTask -> [Attempt -> Nat]]
                 /\ \A x \in SellTask, b \in Attempt : sale'[x][b] # 0 => sellMint[x] \in Mint
      <4> sale \in [SellTask -> [Attempt -> Nat]]
        BY <1>a DEF SellTypeOK
      <4>1. \A x \in SellTask : x # s => sale'[x] = sale[x]
        BY <3>4
      <4> QED BY <3>1, <3>4, <4>1, <1>a
    <3>5. ASSUME sale' # sale
          PROVE  \E n \in AmountKnown(sellMint[s]), a \in Attempt :
                    sale' = [sale EXCEPT ![s][a] = n]
      BY <1>6, <3>5 DEF SellSend, Attempt
    <3>6. AmountKnown(sellMint[s]) \subseteq Nat
      BY <3>2, ConstantsAssumption DEF AmountKnown
    <3> QED BY <3>3, <3>4, <3>5, <3>6
  <2>2. CASE SellErr(s)
    BY <1>6, <2>1, <2>2, <1>a, <1>d, <1>e, ErrTyped DEF SellSend
  <2>3. CASE SellGoto(s, "cancel", sellKind[s])
    <3>1. sellKind[s] \in {"none", "urgent", "whale", "regular", "fallback"}
      BY DEF SellTypeOK
    <3>2. sellPc[s] # "idle"
      BY <1>6 DEF SellSend
    <3>3. SellTypeOK'
      BY <2>1, <2>3, <3>1, <3>2, <1>a, <1>c, GotoTyped
    <3>4. UNCHANGED <<registryVars, streamVars, buyVars, monVars, sweepVars, wallet, historyVars>>
      BY <1>6 DEF SellSend
    <3> QED BY <3>3, <3>4, <1>d, <1>e
  <2> QED BY <1>6, <2>2, <2>3 DEF SellSend
<1>7. CASE SellCancelMonitoring(s)
  <2>1. SellTypeOK'
    BY <1>7, <1>a, <1>b, <1>c, GotoTyped DEF SellCancelMonitoring
  <2>2. RegistryTypeOK' /\ MonitorTypeOK'
    BY <1>7, <1>c DEF SellCancelMonitoring, DropMonitor, FreeSlot, StopIfAllSold,
                      RegistryTypeOK, MonitorTypeOK
  <2> QED BY <1>7, <2>1, <2>2 DEF SellCancelMonitoring, BuyTypeOK, SweepTypeOK, buyVars,
                                  sweepVars, historyVars
<1> QED BY <1>1, <1>2, <1>3, <1>4, <1>5, <1>6, <1>7 DEF SellStep

\* The sweeper keeps the types, its cycle counter among them.
LEMMA SweepTyped ==
  ASSUME TypeOK, SweepStep
  PROVE  TypeOK'
<1> USE ConstantsAssumption
    DEF TypeOK, RegistryTypeOK, BuyTypeOK, MonitorTypeOK, SellTypeOK, SweepTypeOK,
        registryVars, streamVars, buyVars, monVars, sellVars, sweepVars, historyVars
<1>1. CASE SweepTick
  BY <1>1 DEF SweepTick, SweepStart
<1>2. ASSUME NEW m \in sweepTodo, SweepReadsZero(m) PROVE TypeOK'
  BY <1>2 DEF SweepReadsZero
<1>3. ASSUME NEW m \in sweepTodo, SweepKeeps(m) PROVE TypeOK'
  BY <1>3 DEF SweepKeeps
<1>4. CASE SweepBasic
  BY <1>4 DEF SweepBasic, SweepNextToken, FreeSlot, StopIfAllSold
<1>5. CASE SweepFull
  BY <1>5 DEF SweepFull, SweepNextToken, FreeSlot, StopIfAllSold, DropMonitor
<1>6. CASE SweepManager
  BY <1>6 DEF SweepManager, SweepNextToken
<1>7. CASE SweepPassEnds
  <2>1. CASE sweepPhase = "basic"
    BY <1>7, <2>1 DEF SweepPassEnds, SweepStart, SweepCycleEnds
  <2>2. CASE sweepPhase = "full"
    BY <1>7, <2>2 DEF SweepPassEnds, SweepStart
  <2>3. CASE sweepPhase = "manager"
    BY <1>7, <2>3 DEF SweepPassEnds, SweepStart, SweepCycleEnds
  <2> QED BY <1>7, <2>1, <2>2, <2>3 DEF SweepPassEnds
<1> QED BY <1>1, <1>2, <1>3, <1>4, <1>5, <1>6, <1>7 DEF SweepStep

\* Transactions that land or fail keep the types: the wallet never goes below 0.
LEMMA ChainTyped ==
  ASSUME TypeOK, ChainStep
  PROVE  TypeOK'
<1> USE DEF TypeOK, RegistryTypeOK, BuyTypeOK, MonitorTypeOK, SellTypeOK, SweepTypeOK,
            registryVars, streamVars, buyVars, monVars, sellVars, sweepVars, historyVars
<1>1. ASSUME NEW t \in BuyTask, BuyLands(t) PROVE TypeOK'
  BY <1>1 DEF BuyLands
<1>2. ASSUME NEW t \in BuyTask, BuyFails(t) PROVE TypeOK'
  BY <1>2 DEF BuyFails
<1>3. ASSUME NEW s \in SellTask, NEW a \in Attempt, SaleLands(s, a) PROVE TypeOK'
  BY <1>3 DEF SaleLands, SaleResolved, SellGoto
<1>4. ASSUME NEW s \in SellTask, NEW a \in Attempt, SaleFails(s, a) PROVE TypeOK'
  BY <1>4 DEF SaleFails, SaleResolved, SellGoto
<1> QED BY <1>1, <1>2, <1>3, <1>4 DEF ChainStep

\* Every step keeps the types.
LEMMA NextTyped == ASSUME TypeOK, [Next]_vars PROVE TypeOK'
<1>1. CASE DispatcherStops
  BY <1>1 DEF DispatcherStops, TypeOK, RegistryTypeOK, BuyTypeOK, MonitorTypeOK, SellTypeOK,
              SweepTypeOK, registryVars, buyVars, monVars, sellVars, sweepVars,
              historyVars
<1>2. CASE UNCHANGED vars
  BY <1>2 DEF vars, TypeOK, RegistryTypeOK, BuyTypeOK, MonitorTypeOK, SellTypeOK,
              SweepTypeOK, registryVars, streamVars, buyVars, monVars, sellVars, sweepVars,
              historyVars
<1> QED BY <1>1, <1>2, BuyTyped, MonitorTyped, SellTyped, SweepTyped, ChainTyped
        DEF Next, ProcessStep

\* Every variable keeps its type, and what a task that is busy works on is a mint.
THEOREM Typing == Spec => []TypeOK
<1>1. Init => TypeOK
  BY InitTyped
<1>2. TypeOK /\ [Next]_vars => TypeOK'
  BY NextTyped
<1> QED BY <1>1, <1>2, PTL DEF Spec

-----------------------------------------------------------------------------
(* The invariant behind escaped buys *)

\* The engine starts with nothing bought, in flight or swept.
LEMMA InitInv == ASSUME Init PROVE PositionInv
BY InitTyped, ConstantsAssumption
DEF Init, PositionInv, BlacklistedFirst, ExecutingIsFresh, OverlapIsContested, Executing,
    FlyingIsWatched, HitStaysGone, OnlyUnverifiedBuysEscape

\* Buy handlers keep the invariant: what they broadcast they watch, or mark as escaped.
LEMMA BuyInv ==
  ASSUME PositionInv, NEW t \in BuyTask, BuyStep(t)
  PROVE  PositionInv'
<1> USE DEF PositionInv, BlacklistedFirst, ExecutingIsFresh, OverlapIsContested, Executing,
            FlyingIsWatched, HitStaysGone, OnlyUnverifiedBuysEscape,
            registryVars, streamVars, buyVars, monVars, sellVars, sweepVars, historyVars
<1>t. TypeOK /\ TypeOK'
  BY BuyTyped
<1>0. BuyTypeOK /\ wallet \in [Mint -> Nat] /\ BuyTypeOK'
  BY <1>t DEF TypeOK
<1>1. ASSUME NEW m \in Mint, BeginBuy(t, m) PROVE PositionInv'
  BY <1>t, <1>0, <1>1 DEF BeginBuy, BuySlotFree, NotBlacklisted, BuyTypeOK
<1>2. CASE BuyNotSent(t)
  BY <1>t, <1>0, <1>2 DEF BuyNotSent, BuyTypeOK
<1>3. CASE BuySent(t)
  BY <1>t, <1>0, <1>3 DEF BuySent, BuyTypeOK
<1>4. CASE BuySentButErr(t)
  BY <1>t, <1>0, <1>4 DEF BuySentButErr, BuyTypeOK
<1>5. CASE VerifyBuyOk(t)
  BY <1>t, <1>0, <1>5 DEF VerifyBuyOk, BuyTypeOK
<1>6. CASE VerifyBuyErr(t)
  BY <1>t, <1>0, <1>6 DEF VerifyBuyErr, BuyTypeOK
<1>7. ASSUME NEW k \in Monitor, NEW measured \in BOOLEAN, NEW priced \in BOOLEAN,
             BookBuy(t, k, measured, priced)
      PROVE  PositionInv'
  <2>1. MonitorTypeOK
    BY <1>t DEF TypeOK
  <2> QED BY <1>t, <1>0, <1>7, <2>1 DEF BookBuy, Refresh, RegisterMonitor, BuyTypeOK, MonitorTypeOK
<1> QED BY <1>1, <1>2, <1>3, <1>4, <1>5, <1>6, <1>7
        DEF BuyStep, BuyProgress, BeginSniperBuy, BeginCopyBuy

\* Monitor tasks keep the invariant: they only watch what is blacklisted.
LEMMA MonitorInv ==
  ASSUME PositionInv, NEW k \in Monitor, MonitorStep(k)
  PROVE  PositionInv'
<1> USE DEF PositionInv, BlacklistedFirst, ExecutingIsFresh, OverlapIsContested, Executing,
            FlyingIsWatched, HitStaysGone, OnlyUnverifiedBuysEscape,
            registryVars, streamVars, buyVars, monVars, sellVars, sweepVars, historyVars
<1>t. TypeOK /\ TypeOK' /\ MonitorTypeOK /\ SellTypeOK
  BY MonitorTyped DEF TypeOK
<1>1. CASE MonitorConnects(k)
  BY <1>t, <1>1 DEF MonitorConnects, MonitorTypeOK
<1>2. CASE MonitorStops(k)
  BY <1>t, <1>2 DEF MonitorStops, MonitorExits, MonitorTypeOK
<1>3. ASSUME NEW s \in SellTask, NEW m \in Mint, MonitorMessage(k, s, m) PROVE PositionInv'
  BY <1>t, <1>3 DEF MonitorMessage, MonitorExits, MonitorTypeOK, SellTypeOK
<1> QED BY <1>1, <1>2, <1>3 DEF MonitorStep

\* Sell handlers keep the invariant: they take nothing off BOUGHT_TOKEN_LIST.
LEMMA SellInv ==
  ASSUME PositionInv, NEW s \in SellTask, SellStep(s)
  PROVE  PositionInv'
<1> USE DEF PositionInv, BlacklistedFirst, ExecutingIsFresh, OverlapIsContested, Executing,
            FlyingIsWatched, HitStaysGone, OnlyUnverifiedBuysEscape,
            registryVars, streamVars, buyVars, monVars, sellVars, sweepVars, historyVars
<1>t. TypeOK /\ TypeOK' /\ SellTypeOK
  BY SellTyped DEF TypeOK
<1>1. CASE SellDetect(s)
  BY <1>t, <1>1 DEF SellDetect, SellGoto, SellTypeOK
<1>2. ASSUME NEW u \in SellTask \ {s}, SellDetectWhale(s, u) PROVE PositionInv'
  BY <1>t, <1>2 DEF SellDetectWhale, SellTypeOK
<1>3. CASE SellUrgent(s)
  BY <1>t, <1>3 DEF SellUrgent, SellGoto, SellTypeOK
<1>4. ASSUME NEW measured \in BOOLEAN, NEW verdict \in {"hold", "whale", "regular"},
             SellEvaluate(s, measured, verdict)
      PROVE  PositionInv'
  <2>1. /\ UNCHANGED <<buyVars, monVars, sweepVars, wallet, historyVars>>
        /\ UNCHANGED <<BOUGHT_TOKEN_LIST, BOUGHT_TOKENS_BLACKLIST, TOKEN_TRACKING>>
        /\ sellPc[s] = "refresh"
        /\ TOKEN_METRICS' \subseteq TOKEN_METRICS \cup {sellMint[s]}
    BY <1>4 DEF SellEvaluate, Refresh
  <2>2. \A x \in SellTask : sellPc'[x] # "idle" => sellPc[x] # "idle" /\ sellMint'[x] = sellMint[x]
    <3>1. CASE SellGoto(s, "idle", "none")
      BY <1>t, <2>1, <3>1 DEF SellGoto, SellTypeOK
    <3>2. CASE SellGoto(s, "balance", verdict)
      BY <1>t, <2>1, <3>2 DEF SellGoto, SellTypeOK
    <3> QED BY <1>4, <3>1, <3>2 DEF SellEvaluate, Refresh
  <2>3. BlacklistedFirst'
    BY <2>1, <2>2
  <2> QED BY <1>t, <2>1, <2>3
<1>5. ASSUME SellBalance(s) \/ SellSend(s) PROVE PositionInv'
  <2>1. /\ UNCHANGED <<registryVars, streamVars, buyVars, monVars, sweepVars, wallet, historyVars>>
        /\ SellErr(s) \/ \E pc \in {"cancel", "send"} : SellGoto(s, pc, sellKind[s])
        /\ sellPc[s] # "idle"
    BY <1>5 DEF SellBalance, SellSend
  <2>2. \A x \in SellTask : sellPc'[x] # "idle" => sellPc[x] # "idle" /\ sellMint'[x] = sellMint[x]
    <3>1. ASSUME NEW pc, NEW kind, SellGoto(s, pc, kind)
          PROVE  \A x \in SellTask : sellPc'[x] # "idle" => sellPc[x] # "idle" /\ sellMint'[x] = sellMint[x]
      BY <1>t, <2>1, <3>1 DEF SellGoto, SellTypeOK
    <3> QED BY <2>1, <3>1 DEF SellErr
  <2>3. BlacklistedFirst'
    BY <2>1, <2>2
  <2> QED BY <1>t, <2>1, <2>3
<1>6. CASE SellCancelMonitoring(s)
  BY <1>t, <1>6 DEF SellCancelMonitoring, DropMonitor, FreeSlot, SellGoto, SellTypeOK
<1> QED BY <1>1, <1>2, <1>3, <1>4, <1>5, <1>6 DEF SellStep

\* The sweeper keeps the invariant: it delists only what it read to be gone.
LEMMA SweepInv ==
  ASSUME PositionInv, SweepStep
  PROVE  PositionInv'
<1> USE DEF PositionInv, BlacklistedFirst, ExecutingIsFresh, OverlapIsContested, Executing,
            FlyingIsWatched, HitStaysGone, OnlyUnverifiedBuysEscape,
            registryVars, streamVars, buyVars, monVars, sellVars, sweepVars, historyVars
<1>t. TypeOK /\ TypeOK' /\ SweepTypeOK
  BY SweepTyped DEF TypeOK
<1>1. CASE SweepTick
  BY <1>t, <1>1, ConstantsAssumption DEF SweepTick, SweepStart
<1>2. ASSUME NEW m \in sweepTodo, SweepReadsZero(m) PROVE PositionInv'
  BY <1>t, <1>2 DEF SweepReadsZero, BalanceGone
<1>3. ASSUME NEW m \in sweepTodo, SweepKeeps(m) PROVE PositionInv'
  BY <1>t, <1>3 DEF SweepKeeps
<1>4. CASE SweepBasic
  BY <1>t, <1>4, ConstantsAssumption DEF SweepBasic, SweepNextToken, FreeSlot
<1>5. CASE SweepFull
  BY <1>t, <1>5, ConstantsAssumption DEF SweepFull, SweepNextToken, FreeSlot, DropMonitor
<1>6. CASE SweepManager
  BY <1>t, <1>6, ConstantsAssumption DEF SweepManager, SweepNextToken
<1>7. CASE SweepPassEnds
  BY <1>t, <1>7, ConstantsAssumption DEF SweepPassEnds, SweepStart, SweepCycleEnds
<1> QED BY <1>1, <1>2, <1>3, <1>4, <1>5, <1>6, <1>7 DEF SweepStep

\* The chain keeps the invariant: a buy lands watched or escaped.
LEMMA ChainInv ==
  ASSUME PositionInv, ChainStep
  PROVE  PositionInv'
<1> USE DEF PositionInv, BlacklistedFirst, ExecutingIsFresh, OverlapIsContested, Executing,
            FlyingIsWatched, HitStaysGone, OnlyUnverifiedBuysEscape,
            registryVars, streamVars, buyVars, monVars, sellVars, sweepVars, historyVars
<1>t. TypeOK /\ TypeOK' /\ BuyTypeOK /\ SellTypeOK /\ wallet \in [Mint -> Nat]
  BY ChainTyped DEF TypeOK
<1>1. ASSUME NEW t \in BuyTask, BuyLands(t) PROVE PositionInv'
  <2>1. /\ UNCHANGED <<buyPc, registryVars, streamVars, monVars, sellVars, sweepVars, historyVars>>
        /\ buyTx[t] = "flying" /\ buyMint[t] \in Mint
        /\ buyPc[t] = "verifying" \/ buyMint[t] \in unverified
        /\ wallet' = [wallet EXCEPT ![buyMint[t]] = @ + 1]
    BY <1>t, <1>1 DEF BuyLands, BuyTypeOK
  <2>2. \A u \in BuyTask : /\ buyPc[u] # "idle" => buyMint'[u] = buyMint[u]
                           /\ u # t => buyMint'[u] = buyMint[u] /\ buyTx'[u] = buyTx[u]
                           /\ buyTx'[t] = IF buyPc[t] = "verifying" THEN "landed" ELSE "none"
    BY <1>t, <1>1 DEF BuyLands, BuyTypeOK
  <2>3. BlacklistedFirst' /\ ExecutingIsFresh' /\ OverlapIsContested' /\ FlyingIsWatched'
    BY <1>t, <2>1, <2>2 DEF BuyTypeOK
  <2>4. HitStaysGone'
    <3>1. CASE sweepHit = buyMint[t] /\ sweepPhase \in {"basic", "full"}
      <4>1. sweepHit \in BOUGHT_TOKENS_BLACKLIST
        BY <2>1, <3>1, ConstantsAssumption
      <4>2. buyMint[t] \in unverified \cup contested
        BY <2>1, <3>1, <4>1
      <4> QED BY <2>1, <3>1, <4>2
    <3>2. CASE sweepHit # buyMint[t] \/ sweepPhase \notin {"basic", "full"}
      BY <1>t, <2>1, <3>2
    <3> QED BY <3>1, <3>2
  <2>5. OnlyUnverifiedBuysEscape'
    BY <1>t, <2>1, <2>2 DEF BuyTypeOK
  <2> QED BY <1>t, <2>3, <2>4, <2>5
<1>2. ASSUME NEW t \in BuyTask, BuyFails(t) PROVE PositionInv'
  BY <1>t, <1>2 DEF BuyFails, BuyTypeOK
<1>3. ASSUME NEW s \in SellTask, NEW a \in Attempt, SaleLands(s, a) PROVE PositionInv'
  BY <1>t, <1>3 DEF SaleLands, SaleResolved, SellGoto, SellTypeOK
<1>4. ASSUME NEW s \in SellTask, NEW a \in Attempt, SaleFails(s, a) PROVE PositionInv'
  BY <1>t, <1>4 DEF SaleFails, SaleResolved, SellGoto, SellTypeOK
<1> QED BY <1>1, <1>2, <1>3, <1>4 DEF ChainStep

\* Every step keeps the invariant.
LEMMA NextInv == ASSUME PositionInv, [Next]_vars PROVE PositionInv'
<1>t. TypeOK'
  BY NextTyped DEF PositionInv
<1>0. ASSUME UNCHANGED <<registryVars, buyVars, monVars, sellVars, sweepVars, wallet,
                         historyVars>>
      PROVE  PositionInv'
  BY <1>t, <1>0
  DEF PositionInv, BlacklistedFirst, ExecutingIsFresh, OverlapIsContested, Executing,
      FlyingIsWatched, HitStaysGone, OnlyUnverifiedBuysEscape,
      registryVars, buyVars, monVars, sellVars, sweepVars, historyVars
<1>1. CASE DispatcherStops
  BY <1>0, <1>1 DEF DispatcherStops
<1>2. CASE UNCHANGED vars
  BY <1>0, <1>2 DEF vars
<1> QED BY <1>1, <1>2, BuyInv, MonitorInv, SellInv, SweepInv, ChainInv
        DEF Next, ProcessStep

\* PositionInv is inductive: nothing is listed, tracked or watched before it is
\* blacklisted, what else is sold or swept was misread out of another token's
\* trade, and an executing buy is fresh or shares its mint with another.
THEOREM PositionInvariant == Spec => []PositionInv
<1>1. Init => PositionInv
  BY InitInv
<1>2. PositionInv /\ [Next]_vars => PositionInv'
  BY NextInv
<1> QED BY <1>1, <1>2, PTL DEF Spec

\* Whatever the wallet holds is listed, unless its buy is still being verified,
\* returned Err although it was broadcast, or ran beside another of its mint.
THEOREM EscapedBuys == Spec => []OnlyUnverifiedBuysEscape
<1>1. PositionInv => OnlyUnverifiedBuysEscape
  BY DEF PositionInv
<1> QED BY <1>1, PositionInvariant, PTL

-----------------------------------------------------------------------------
(* Action properties *)

\* A buy is broadcast only by BuySent and BuySentButErr, from a handler that is
\* still building.
LEMMA BroadcastSteps ==
  ASSUME TypeOK, [Next]_vars, NEW t \in BuyTask, buyTx'[t] = "flying", buyTx[t] # "flying"
  PROVE  buyPc[t] = "building" /\ (BuySent(t) \/ BuySentButErr(t))
<1> USE DEF TypeOK, BuyTypeOK, registryVars, streamVars, buyVars, monVars, sellVars,
            sweepVars, historyVars
<1>1. ASSUME NEW u \in BuyTask, BuyStep(u) PROVE u = t /\ (BuySent(t) \/ BuySentButErr(t))
  <2>1. ASSUME NEW m \in Mint, BeginBuy(u, m) PROVE FALSE
    BY <2>1 DEF BeginBuy
  <2>2. CASE BuyNotSent(u)
    BY <2>2 DEF BuyNotSent
  <2>3. CASE BuySent(u)
    BY <2>3 DEF BuySent
  <2>4. CASE BuySentButErr(u)
    BY <2>4 DEF BuySentButErr
  <2>5. CASE VerifyBuyOk(u)
    BY <2>5 DEF VerifyBuyOk
  <2>6. CASE VerifyBuyErr(u)
    BY <2>6 DEF VerifyBuyErr
  <2>7. ASSUME NEW k \in Monitor, NEW measured \in BOOLEAN, NEW priced \in BOOLEAN,
               BookBuy(u, k, measured, priced)
        PROVE  FALSE
    BY <2>7 DEF BookBuy, Refresh, RegisterMonitor
  <2> QED BY <1>1, <2>1, <2>2, <2>3, <2>4, <2>5, <2>6, <2>7
          DEF BuyStep, BuyProgress, BeginSniperBuy, BeginCopyBuy
<1>2. ASSUME NEW k \in Monitor, MonitorStep(k) PROVE FALSE
  BY <1>2 DEF MonitorStep, MonitorConnects, MonitorStops, MonitorMessage
<1>3. ASSUME NEW s \in SellTask, SellStep(s) PROVE FALSE
  BY <1>3 DEF SellStep, SellDetect, SellDetectWhale, SellUrgent, SellEvaluate, SellBalance,
              SellSend, SellCancelMonitoring
<1>4. CASE SweepStep
  BY <1>4 DEF SweepStep, SweepTick, SweepReadsZero, SweepKeeps, SweepBasic, SweepFull,
              SweepManager, SweepPassEnds
<1>5. CASE DispatcherStops
  BY <1>5 DEF DispatcherStops
<1>6. CASE ChainStep
  BY <1>6 DEF ChainStep, BuyLands, BuyFails, SaleLands, SaleFails
<1>7. CASE UNCHANGED vars
  BY <1>7 DEF vars
<1> QED BY <1>1, <1>2, <1>3, <1>4, <1>5, <1>6, <1>7 DEF Next, ProcessStep, BuySent, BuySentButErr

\* No token is bought a second time but through a buy that returned Err although
\* it was broadcast, or through two handlers past the blacklist check together.
THEOREM NoOtherRebuy == Spec => RebuyOnlyThroughHoles
<1>1. ASSUME PositionInv, [Next]_vars, NEW t \in BuyTask, buyTx'[t] = "flying",
             buyTx[t] # "flying"
      PROVE  \/ buyMint[t] \notin BOUGHT_TOKENS_BLACKLIST /\ wallet[buyMint[t]] = 0
             \/ buyMint[t] \in unverified \cup contested
  <2>1. TypeOK /\ buyPc[t] = "building"
    BY <1>1, BroadcastSteps DEF PositionInv
  <2>2. buyMint[t] \in Mint /\ wallet[buyMint[t]] \in Nat
    BY <2>1 DEF TypeOK, BuyTypeOK
  <2>3. buyMint[t] \notin BOUGHT_TOKENS_BLACKLIST \/ buyMint[t] \in contested
    BY <1>1, <2>1 DEF PositionInv, ExecutingIsFresh, Executing
  <2>4. CASE wallet[buyMint[t]] > 0 /\ buyMint[t] \notin contested
    <3>1. buyMint[t] \notin BOUGHT_TOKEN_LIST
      BY <1>1, <2>3, <2>4 DEF PositionInv, BlacklistedFirst
    <3>2. \A u \in BuyTask : ~(buyPc[u] = "verifying" /\ buyMint[u] = buyMint[t])
      BY <1>1, <2>1, <2>4 DEF PositionInv, OverlapIsContested, Executing
    <3> QED BY <1>1, <2>2, <2>4, <3>1, <3>2 DEF PositionInv, OnlyUnverifiedBuysEscape
  <2> QED BY <2>2, <2>3, <2>4
<1>2. PositionInv /\ [Next]_vars =>
        [\A t \in BuyTask : buyTx'[t] = "flying" /\ buyTx[t] # "flying" =>
           \/ buyMint[t] \notin BOUGHT_TOKENS_BLACKLIST /\ wallet[buyMint[t]] = 0
           \/ buyMint[t] \in unverified \cup contested]_vars
  BY <1>1
<1> QED BY <1>2, PositionInvariant, PTL DEF Spec, RebuyOnlyThroughHoles

\* The sweeper never drops a token that the wallet holds, but for escaped buys.
THEOREM SweeperIsSafe == Spec => SweeperDropsNothingHeld
<1> DEFINE Dropped(m) == \/ m \in BOUGHT_TOKEN_LIST /\ m \notin BOUGHT_TOKEN_LIST'
                         \/ MONITORING_TASKS[m] # MONITORING_TASKS'[m]
<1>1. ASSUME PositionInv, SweepStep, NEW m \in Mint, Dropped(m)
      PROVE  wallet[m] = 0 \/ m \in unverified \cup contested
  <2>1. sweepHit = m /\ sweepPhase \in {"basic", "full"}
    BY <1>1 DEF PositionInv, TypeOK, RegistryTypeOK, SweepStep, SweepTick, SweepReadsZero,
                SweepKeeps, SweepBasic, SweepFull, SweepManager, SweepPassEnds, DropMonitor,
                registryVars
  <2> QED BY <1>1, <2>1 DEF PositionInv, HitStaysGone
<1>2. PositionInv /\ [Next]_vars =>
        [SweepStep => \A m \in Mint :
           Dropped(m) => wallet[m] = 0 \/ m \in unverified \cup contested]_vars
  BY <1>1
<1> QED BY <1>2, PositionInvariant, PTL DEF Spec, SweeperDropsNothingHeld

\* The streaming flag is cleared only when nothing is listed, and so nothing
\* but an escaped or unverified buy is left in the wallet.
THEOREM StopIsSafe == Spec => StopLeavesNoPosition
<1> USE DEF registryVars, streamVars, buyVars, monVars, sellVars, sweepVars, historyVars
<1> DEFINE Stops == SHOULD_CONTINUE_STREAMING /\ ~SHOULD_CONTINUE_STREAMING'
<1> DEFINE OnlyHitListed ==
      \/ BOUGHT_TOKEN_LIST = {}
      \/ sweepPhase \in {"basic", "full"} /\ BOUGHT_TOKEN_LIST \subseteq {sweepHit}
<1>1. ASSUME [Next]_vars, Stops PROVE OnlyHitListed
  <2>1. ASSUME NEW t \in BuyTask, BuyStep(t) PROVE FALSE
    BY <1>1, <2>1 DEF BuyStep, BuyProgress, BeginSniperBuy, BeginCopyBuy, BeginBuy, BuyNotSent,
                      BuySent, BuySentButErr, VerifyBuyOk, VerifyBuyErr, BookBuy,
                      RegisterMonitor
  <2>2. ASSUME NEW k \in Monitor, MonitorStep(k) PROVE FALSE
    BY <1>1, <2>2 DEF MonitorStep, MonitorConnects, MonitorStops, MonitorMessage
  <2>3. ASSUME NEW s \in SellTask, SellStep(s) PROVE BOUGHT_TOKEN_LIST = {}
    BY <1>1, <2>3 DEF SellStep, SellDetect, SellDetectWhale, SellUrgent, SellEvaluate,
                      SellBalance, SellSend, SellCancelMonitoring, StopIfAllSold
  <2>4. CASE SweepStep
    BY <1>1, <2>4 DEF SweepStep, SweepTick, SweepReadsZero, SweepKeeps, SweepBasic, SweepFull,
                      SweepManager, SweepPassEnds, StopIfAllSold
  <2>5. CASE DispatcherStops
    BY <1>1, <2>5 DEF DispatcherStops
  <2>6. CASE ChainStep
    BY <1>1, <2>6 DEF ChainStep, BuyLands, BuyFails, SaleLands, SaleFails
  <2>7. CASE UNCHANGED vars
    BY <1>1, <2>7 DEF vars
  <2> QED BY <1>1, <2>1, <2>2, <2>3, <2>4, <2>5, <2>6, <2>7 DEF Next, ProcessStep
<1>2. ASSUME PositionInv, OnlyHitListed, NEW m \in Mint, wallet[m] > 0
      PROVE  \/ m \in unverified \cup contested
             \/ \E t \in BuyTask : buyPc[t] = "verifying" /\ buyMint[t] = m
  <2>1. wallet[m] # 0
    BY <1>2 DEF PositionInv, TypeOK
  <2>2. m \in BOUGHT_TOKEN_LIST => m \in unverified \cup contested
    BY <1>2, <2>1 DEF PositionInv, HitStaysGone
  <2> QED BY <1>2, <2>2 DEF PositionInv, OnlyUnverifiedBuysEscape
<1>3. PositionInv /\ [Next]_vars =>
        [Stops => \A m \in Mint : wallet[m] > 0 =>
           \/ m \in unverified \cup contested
           \/ \E t \in BuyTask : buyPc[t] = "verifying" /\ buyMint[t] = m]_vars
  <2> HIDE DEF Stops
  <2> QED BY <1>1, <1>2
<1> QED BY <1>3, PositionInvariant, PTL DEF Spec, StopLeavesNoPosition

-----------------------------------------------------------------------------
(* The counter limit *)

Busy == {t \in BuyTask : buyPc[t] # "idle"}

\* The two sets the limit counts are finite.
LEMMA Counts ==
  ASSUME NEW B, NEW T, B \subseteq BuyTask, T \subseteq Mint
  PROVE  /\ IsFiniteSet(B) /\ Cardinality(B) \in Nat /\ Cardinality(B) <= Cardinality(BuyTask)
         /\ IsFiniteSet(T) /\ Cardinality(T) \in Nat
         /\ Cardinality(BuyTask) \in Nat \ {0} /\ CounterLimit \in Nat
<1>1. IsFiniteSet(Mint) /\ IsFiniteSet(BuyTask) /\ BuyTask # {} /\ CounterLimit \in Nat
  BY ConstantsAssumption
<1> QED BY <1>1, FS_Subset, FS_CardinalityType, FS_EmptySet

\* Both counted sets are subsets of finite constants.
LEMMA BusyTyped ==
  ASSUME TypeOK PROVE Busy \subseteq BuyTask /\ TOKEN_TRACKING \subseteq Mint
BY DEF Busy, TypeOK, RegistryTypeOK

\* A step either starts a buy, or books one, or adds neither a slot nor a buy.
LEMMA LimitSteps ==
  ASSUME TypeOK, [Next]_vars
  PROVE  \/ TOKEN_TRACKING' \subseteq TOKEN_TRACKING /\ Busy' \subseteq Busy
         \/ \E t \in BuyTask :
              /\ BelowLimit
              /\ Entry = "sniper" => Busy = {}
              /\ t \notin Busy /\ Busy' = Busy \cup {t} /\ TOKEN_TRACKING' = TOKEN_TRACKING
         \/ \E t \in Busy, m \in Mint :
              Busy' = Busy \ {t} /\ TOKEN_TRACKING' = TOKEN_TRACKING \cup {m}
<1> USE DEF registryVars, streamVars, buyVars, monVars, sellVars, sweepVars, historyVars
<1> DEFINE Shrinks == TOKEN_TRACKING' \subseteq TOKEN_TRACKING /\ Busy' \subseteq Busy
<1>t. BuyTypeOK
  BY DEF TypeOK
<1>1. ASSUME NEW t \in BuyTask, NEW m \in Mint, BeginBuy(t, m)
      PROVE  /\ BelowLimit
             /\ t \notin Busy /\ Busy' = Busy \cup {t} /\ TOKEN_TRACKING' = TOKEN_TRACKING
  BY <1>t, <1>1 DEF BeginBuy, BuySlotFree, Busy, BuyTypeOK
<1>2. ASSUME NEW t \in BuyTask, NEW m \in Mint, BeginSniperBuy(t, m)
      PROVE  BeginBuy(t, m) /\ (Entry = "sniper" => Busy = {})
  BY <1>2 DEF BeginSniperBuy, ConfigGuardFree, Busy
<1>3. ASSUME NEW t \in BuyTask, NEW m \in Mint, BeginCopyBuy(t, m)
      PROVE  BeginBuy(t, m) /\ Entry # "sniper"
  BY <1>3 DEF BeginCopyBuy
<1>4. ASSUME NEW t \in BuyTask, NEW k \in Monitor, NEW measured \in BOOLEAN,
             NEW priced \in BOOLEAN, BookBuy(t, k, measured, priced)
      PROVE  \E m \in Mint :
               t \in Busy /\ Busy' = Busy \ {t} /\ TOKEN_TRACKING' = TOKEN_TRACKING \cup {m}
  BY <1>t, <1>4 DEF BookBuy, Refresh, RegisterMonitor, Busy, BuyTypeOK
<1>5. ASSUME NEW t \in BuyTask,
             \/ BuyNotSent(t) \/ BuySent(t) \/ BuySentButErr(t)
             \/ VerifyBuyOk(t) \/ VerifyBuyErr(t)
      PROVE  Shrinks
  BY <1>t, <1>5 DEF BuyNotSent, BuySent, BuySentButErr, VerifyBuyOk, VerifyBuyErr, Busy,
                    BuyTypeOK
<1>6. ASSUME NEW k \in Monitor, MonitorStep(k) PROVE Shrinks
  BY <1>6 DEF MonitorStep, MonitorConnects, MonitorStops, MonitorMessage, Busy
<1>7. ASSUME NEW s \in SellTask, SellStep(s) PROVE Shrinks
  BY <1>7 DEF SellStep, SellDetect, SellDetectWhale, SellUrgent, SellEvaluate, SellBalance,
              SellSend, SellCancelMonitoring, FreeSlot, Busy
<1>8. ASSUME SweepStep PROVE Shrinks
  BY <1>8 DEF SweepStep, SweepTick, SweepReadsZero, SweepKeeps, SweepBasic, SweepFull,
              SweepManager, SweepPassEnds, FreeSlot, Busy
<1>9. ASSUME ChainStep \/ DispatcherStops \/ UNCHANGED vars PROVE Shrinks
  BY <1>9 DEF ChainStep, BuyLands, BuyFails, SaleLands, SaleFails, DispatcherStops, vars, Busy
<1> QED
  <2> HIDE DEF Shrinks
  <2>1. ASSUME NEW t \in BuyTask, BuyStep(t)
        PROVE  \/ Shrinks
               \/ /\ BelowLimit /\ (Entry = "sniper" => Busy = {}) /\ t \notin Busy
                  /\ Busy' = Busy \cup {t} /\ TOKEN_TRACKING' = TOKEN_TRACKING
               \/ \E m \in Mint :
                    t \in Busy /\ Busy' = Busy \ {t} /\ TOKEN_TRACKING' = TOKEN_TRACKING \cup {m}
    BY <1>1, <1>2, <1>3, <1>4, <1>5, <2>1 DEF BuyStep, BuyProgress
  <2>2. Shrinks \/ \E t \in BuyTask : BuyStep(t)
    <3>1. Next \/ UNCHANGED vars
      OBVIOUS
    <3>2. CASE ChainStep \/ UNCHANGED vars \/ DispatcherStops
      BY <1>9, <3>2
    <3>3. CASE \E k \in Monitor : MonitorStep(k)
      BY <1>6, <3>3
    <3>4. CASE \E s \in SellTask : SellStep(s)
      BY <1>7, <3>4
    <3> QED BY <1>8, <3>1, <3>2, <3>3, <3>4 DEF Next, ProcessStep
  <2> QED BY <2>1, <2>2 DEF Shrinks, Busy

\* The slots taken and the buys under way stay within counter_limit plus the
\* handlers that can pass its check together, less one.
THEOREM LimitHolds == Spec => []TrackingWithinLimit
<1> DEFINE Load == Cardinality(TOKEN_TRACKING) + Cardinality(Busy)
<1>a. TrackingWithinLimit <=> Load <= CounterLimit + ConcurrentBuys - 1
  BY DEF TrackingWithinLimit, Busy
<1>b. ConcurrentBuys \in {1, Cardinality(BuyTask)}
  BY DEF ConcurrentBuys
<1>1. ASSUME Init PROVE TrackingWithinLimit
  <2>1. TOKEN_TRACKING = {} /\ Busy = {}
    BY <1>1 DEF Init, Busy
  <2>2. Load = 0
    BY <2>1, FS_EmptySet
  <2> QED BY <2>2, <1>a, <1>b, Counts, BusyTyped, <1>1, InitTyped
<1>2. ASSUME TypeOK, TrackingWithinLimit, [Next]_vars PROVE TrackingWithinLimit'
  <2>t. /\ Busy \subseteq BuyTask /\ TOKEN_TRACKING \subseteq Mint
        /\ Busy' \subseteq BuyTask /\ TOKEN_TRACKING' \subseteq Mint
    BY <1>2, NextTyped, BusyTyped DEF Busy, TypeOK, RegistryTypeOK
  <2>a. TrackingWithinLimit' <=>
          Cardinality(TOKEN_TRACKING') + Cardinality(Busy') <= CounterLimit + ConcurrentBuys - 1
    BY DEF TrackingWithinLimit, Busy, ConcurrentBuys
  <2>b. /\ Cardinality(Busy) \in Nat /\ Cardinality(Busy') \in Nat
        /\ Cardinality(TOKEN_TRACKING) \in Nat /\ Cardinality(TOKEN_TRACKING') \in Nat
        /\ Cardinality(Busy') <= Cardinality(BuyTask)
        /\ Cardinality(BuyTask) \in Nat \ {0} /\ CounterLimit \in Nat
        /\ IsFiniteSet(Busy) /\ IsFiniteSet(TOKEN_TRACKING)
    BY <2>t, Counts
  <2>1. CASE TOKEN_TRACKING' \subseteq TOKEN_TRACKING /\ Busy' \subseteq Busy
    <3>1. /\ Cardinality(TOKEN_TRACKING') <= Cardinality(TOKEN_TRACKING)
          /\ Cardinality(Busy') <= Cardinality(Busy)
      BY <2>1, <2>b, FS_Subset
    <3> QED BY <1>2, <1>a, <1>b, <2>a, <2>b, <3>1
  <2>2. ASSUME NEW t \in BuyTask, BelowLimit, Entry = "sniper" => Busy = {}, t \notin Busy,
               Busy' = Busy \cup {t}, TOKEN_TRACKING' = TOKEN_TRACKING
        PROVE  TrackingWithinLimit'
    <3>1. Cardinality(TOKEN_TRACKING') < CounterLimit
      BY <2>2 DEF BelowLimit
    <3>2. CASE Entry = "sniper"
      <4>1. Cardinality(Busy') = 1
        BY <2>2, <3>2, FS_Singleton
      <4> QED BY <2>a, <2>b, <3>1, <3>2, <4>1 DEF ConcurrentBuys
    <3>3. CASE Entry # "sniper"
      BY <2>a, <2>b, <3>1, <3>3 DEF ConcurrentBuys
    <3> QED BY <3>2, <3>3
  <2>3. ASSUME NEW t \in Busy, NEW m \in Mint, Busy' = Busy \ {t},
               TOKEN_TRACKING' = TOKEN_TRACKING \cup {m}
        PROVE  TrackingWithinLimit'
    <3>1. Cardinality(Busy') = Cardinality(Busy) - 1
      BY <2>3, <2>b, FS_RemoveElement
    <3>2. Cardinality(TOKEN_TRACKING') <= Cardinality(TOKEN_TRACKING) + 1
      <4>1. Cardinality(TOKEN_TRACKING \cup {m}) \in
              {Cardinality(TOKEN_TRACKING), Cardinality(TOKEN_TRACKING) + 1}
        BY <2>b, FS_AddElement
      <4> QED BY <2>3, <2>b, <4>1
    <3> QED BY <1>2, <1>a, <1>b, <2>a, <2>b, <3>1, <3>2
  <2> QED BY <1>2, <2>1, <2>2, <2>3, LimitSteps
<1> QED BY <1>1, <1>2, Typing, PTL DEF Spec

-----------------------------------------------------------------------------
(* Monitors *)

SalesExplained ==
  \A s \in SellTask :
    sellMint[s] # None => sellMint[s] \in BOUGHT_TOKENS_BLACKLIST \cup misread

\* A buy that is not booked yet is alone with its token: nobody watches it or
\* books another one ...
BookedAlone ==
  \A t \in BuyTask : buyPc[t] = "metrics" /\ buyMint[t] \notin contested =>
    /\ \A k \in Monitor : monPc[k] # "off" => monMint[k] # buyMint[t]
    /\ \A u \in BuyTask : u # t /\ buyPc[u] = "metrics" => buyMint[u] # buyMint[t]

\* ... and nobody sells it or sweeps it away, unless a trade was misread.
BookedIsHeld ==
  \A t \in BuyTask : buyPc[t] = "metrics" /\ buyMint[t] \notin contested \cup misread =>
    /\ wallet[buyMint[t]] # 0 /\ buyMint[t] \in BOUGHT_TOKEN_LIST /\ sweepHit # buyMint[t]
    /\ \A s \in SellTask : sellMint[s] # buyMint[t]

\* A buy that is seen to have landed is being verified, and its lot is in the wallet.
LandedIsHeld ==
  \A t \in BuyTask : buyTx[t] = "landed" =>
    buyPc[t] = "verifying" /\ (buyMint[t] \notin contested \cup misread => wallet[buyMint[t]] # 0)

WatchInv ==
  /\ SalesExplained /\ BookedAlone /\ BookedIsHeld /\ LandedIsHeld
  /\ TrackedIsMonitoredAndListed /\ OneMonitorPerToken

LEMMA InitWatch == ASSUME Init PROVE WatchInv
BY DEF Init, WatchInv, SalesExplained, BookedAlone, BookedIsHeld, LandedIsHeld, TrackedIsMonitoredAndListed,
       OneMonitorPerToken

\* A buy that is verified finds its token new to everybody, and when it is booked
\* nobody has come to watch it.
LEMMA BuyWatch ==
  ASSUME PositionInv, WatchInv, NEW t \in BuyTask, BuyStep(t)
  PROVE  WatchInv'
<1> USE DEF registryVars, streamVars, buyVars, monVars, sellVars, sweepVars, historyVars
<1>t. BuyTypeOK /\ MonitorTypeOK /\ SellTypeOK /\ RegistryTypeOK /\ wallet \in [Mint -> Nat]
  BY DEF PositionInv, TypeOK
<1>0. SalesExplained /\ BookedAlone /\ BookedIsHeld /\ LandedIsHeld /\ TrackedIsMonitoredAndListed /\ OneMonitorPerToken
  BY DEF WatchInv
<1>1. ASSUME NEW m \in Mint, BeginBuy(t, m) PROVE WatchInv'
  <2>1. SalesExplained' /\ LandedIsHeld'
    BY <1>t, <1>0, <1>1 DEF BeginBuy, BuySlotFree, BuyTypeOK, SalesExplained, LandedIsHeld
  <2>2. BookedAlone' /\ BookedIsHeld'
    BY <1>t, <1>0, <1>1 DEF BeginBuy, BuySlotFree, BuyTypeOK, BookedAlone, BookedIsHeld
  <2>3. TrackedIsMonitoredAndListed' /\ OneMonitorPerToken'
    BY <1>t, <1>0, <1>1 DEF BeginBuy, TrackedIsMonitoredAndListed, OneMonitorPerToken
  <2> QED BY <2>1, <2>2, <2>3 DEF WatchInv
<1>2. CASE BuyNotSent(t) \/ BuySent(t) \/ BuySentButErr(t) \/ VerifyBuyErr(t)
  <2>1. /\ UNCHANGED <<registryVars, monVars, sellVars, sweepVars, wallet, contested, misread>>
        /\ \A u \in BuyTask : /\ buyPc'[u] = "metrics" => buyPc[u] = "metrics" /\ buyMint'[u] = buyMint[u]
                              /\ buyTx'[u] = "landed" => /\ buyTx[u] = "landed" /\ buyMint'[u] = buyMint[u]
                                                         /\ buyPc'[u] = buyPc[u]
    BY <1>t, <1>2 DEF BuyNotSent, BuySent, BuySentButErr, VerifyBuyErr, BuyTypeOK
  <2>2. SalesExplained' /\ LandedIsHeld' /\ BookedAlone' /\ BookedIsHeld'
    BY <1>0, <2>1 DEF SalesExplained, LandedIsHeld, BookedAlone, BookedIsHeld
  <2>3. TrackedIsMonitoredAndListed' /\ OneMonitorPerToken'
    BY <1>0, <2>1 DEF TrackedIsMonitoredAndListed, OneMonitorPerToken
  <2> QED BY <2>2, <2>3 DEF WatchInv
<1>3. CASE VerifyBuyOk(t)
  <2> DEFINE m == buyMint[t]
  <2>1. /\ m \in Mint /\ buyPc[t] = "verifying" /\ buyTx[t] = "landed"
        /\ UNCHANGED <<buyMint, TOKEN_TRACKING, MONITORING_TASKS, monVars, sellVars, sweepVars,
                       wallet, contested, misread>>
        /\ BOUGHT_TOKEN_LIST' = BOUGHT_TOKEN_LIST \cup {m}
        /\ BOUGHT_TOKENS_BLACKLIST' = BOUGHT_TOKENS_BLACKLIST \cup {m}
        /\ \A u \in BuyTask : /\ buyPc'[u] = "metrics" <=> u = t \/ buyPc[u] = "metrics"
                              /\ buyTx'[u] = "landed" => buyTx[u] = "landed" /\ buyPc'[u] = buyPc[u]
    BY <1>t, <1>3 DEF VerifyBuyOk, BuyTypeOK
  <2>2. m \notin contested => m \notin BOUGHT_TOKENS_BLACKLIST
    BY <2>1 DEF PositionInv, ExecutingIsFresh, Executing
  <2>3. /\ m \notin contested =>
             /\ \A k \in Monitor : monPc[k] # "off" => monMint[k] # m
             /\ \A u \in BuyTask : buyPc[u] = "metrics" => buyMint[u] # m
        /\ m \notin contested \cup misread =>
             /\ wallet[m] # 0 /\ sweepHit # m
             /\ \A s \in SellTask : sellMint[s] # m
    BY <1>0, <2>1, <2>2, ConstantsAssumption
    DEF PositionInv, BlacklistedFirst, SalesExplained, LandedIsHeld
  <2>4. SalesExplained' /\ LandedIsHeld'
    BY <1>0, <2>1 DEF SalesExplained, LandedIsHeld
  <2>5. BookedAlone' /\ BookedIsHeld'
    <3>1. \A u \in BuyTask : buyPc[u] = "metrics" => buyMint[u] # m \/ m \in contested
      BY <2>3
    <3> QED BY <1>0, <2>1, <2>3, <3>1 DEF BookedAlone, BookedIsHeld
  <2>6. TrackedIsMonitoredAndListed' /\ OneMonitorPerToken'
    BY <1>0, <2>1 DEF TrackedIsMonitoredAndListed, OneMonitorPerToken
  <2> QED BY <2>4, <2>5, <2>6 DEF WatchInv
<1>4. ASSUME NEW k \in Monitor, NEW measured \in BOOLEAN, NEW priced \in BOOLEAN,
             BookBuy(t, k, measured, priced)
      PROVE  WatchInv'
  <2> DEFINE m == buyMint[t]
  <2>1. /\ m \in Mint /\ buyPc[t] = "metrics" /\ monPc[k] = "off"
        /\ UNCHANGED <<buyTx, cancelled, sellVars, sweepVars, wallet, contested, misread>>
        /\ BOUGHT_TOKEN_LIST \subseteq BOUGHT_TOKEN_LIST'
        /\ BOUGHT_TOKENS_BLACKLIST \subseteq BOUGHT_TOKENS_BLACKLIST'
        /\ TOKEN_TRACKING' = TOKEN_TRACKING \cup {m}
        /\ MONITORING_TASKS' = [MONITORING_TASKS EXCEPT ![m] = k]
        /\ monPc' = [monPc EXCEPT ![k] = "connecting"] /\ monMint' = [monMint EXCEPT ![k] = m]
        /\ \A u \in BuyTask : /\ buyPc'[u] = "metrics" => u # t /\ buyPc[u] = "metrics"
                              /\ u # t => buyMint'[u] = buyMint[u] /\ buyPc'[u] = buyPc[u]
    BY <1>t, <1>4 DEF BookBuy, RegisterMonitor, BuyTypeOK
  <2>2. /\ \A j \in Monitor : monPc'[j] # "off" =>
              (j = k /\ monMint'[j] = m) \/ (j # k /\ monPc[j] # "off" /\ monMint'[j] = monMint[j])
        /\ MONITORING_TASKS'[m] = k /\ \A x \in Mint \ {m} : MONITORING_TASKS'[x] = MONITORING_TASKS[x]
    BY <1>t, <2>1 DEF MonitorTypeOK, RegistryTypeOK
  <2>3. SalesExplained' /\ LandedIsHeld'
    <3>1. buyTx[t] # "landed"
      BY <1>t, <2>1 DEF BuyTypeOK
    <3> QED BY <1>0, <2>1, <3>1 DEF SalesExplained, LandedIsHeld
  <2>4. BookedAlone' /\ BookedIsHeld'
    BY <1>0, <2>1, <2>2 DEF BookedAlone, BookedIsHeld
  <2>5. /\ m \notin contested => \A j \in Monitor : monPc[j] # "off" => monMint[j] # m
        /\ m \notin contested \cup misread => m \in BOUGHT_TOKEN_LIST
    BY <1>0, <2>1 DEF BookedAlone, BookedIsHeld
  <2>6. TrackedIsMonitoredAndListed'
    BY <1>t, <1>0, <2>1, <2>2, <2>5, ConstantsAssumption DEF TrackedIsMonitoredAndListed, RegistryTypeOK
  <2>7. OneMonitorPerToken'
    BY <1>t, <1>0, <2>1, <2>2, <2>5 DEF OneMonitorPerToken, MonitorTypeOK
  <2> QED BY <2>3, <2>4, <2>6, <2>7 DEF WatchInv
<1> QED BY <1>1, <1>2, <1>3, <1>4 DEF BuyStep, BuyProgress, BeginSniperBuy, BeginCopyBuy

\* Monitors sell what they watch, and leave.
LEMMA MonitorWatch ==
  ASSUME PositionInv, WatchInv, NEW k \in Monitor, MonitorStep(k)
  PROVE  WatchInv'
<1> USE DEF registryVars, streamVars, buyVars, monVars, sellVars, sweepVars, historyVars
<1>t. MonitorTypeOK /\ SellTypeOK
  BY DEF PositionInv, TypeOK
<1>0. SalesExplained /\ BookedAlone /\ BookedIsHeld /\ LandedIsHeld /\ TrackedIsMonitoredAndListed /\ OneMonitorPerToken
  BY DEF WatchInv
<1>1. /\ UNCHANGED <<registryVars, buyVars, sweepVars, wallet, unverified, contested>>
      /\ misread \subseteq misread'
      /\ \A j \in Monitor : monPc'[j] # "off" =>
            /\ monPc[j] # "off" /\ monMint'[j] = monMint[j]
            /\ j \in cancelled => j \in cancelled'
  BY <1>t DEF MonitorStep, MonitorConnects, MonitorStops, MonitorMessage, MonitorExits, MonitorTypeOK
<1>2. \A s \in SellTask :
        \/ sellMint'[s] = sellMint[s]
        \/ sellMint'[s] \in misread'
        \/ monPc[k] # "off" /\ sellMint'[s] = monMint[k]
  BY <1>t DEF MonitorStep, MonitorConnects, MonitorStops, MonitorMessage, SellTypeOK
<1>3. SalesExplained' /\ LandedIsHeld'
  BY <1>0, <1>1, <1>2 DEF SalesExplained, LandedIsHeld, PositionInv, BlacklistedFirst
<1>4. BookedAlone' /\ BookedIsHeld'
  BY <1>0, <1>1, <1>2 DEF BookedAlone, BookedIsHeld
<1>5. TrackedIsMonitoredAndListed' /\ OneMonitorPerToken'
  BY <1>0, <1>1 DEF TrackedIsMonitoredAndListed, OneMonitorPerToken
<1> QED BY <1>3, <1>4, <1>5 DEF WatchInv

\* To drop a registration cancels the monitor it named.
LEMMA DroppedMonitor ==
  ASSUME TypeOK, OneMonitorPerToken, NEW m \in Mint, DropMonitor(m),
         UNCHANGED <<monPc, monMint, contested>>
  PROVE  /\ OneMonitorPerToken'
         /\ \A x \in Mint \ {m} : MONITORING_TASKS'[x] = MONITORING_TASKS[x]
<1>1. RegistryTypeOK /\ MonitorTypeOK
  BY DEF TypeOK
<1>2. \A x \in Mint \ {m} : MONITORING_TASKS'[x] = MONITORING_TASKS[x]
  BY <1>1 DEF DropMonitor, RegistryTypeOK
<1>3. OneMonitorPerToken'
  BY <1>1, <1>2 DEF DropMonitor, OneMonitorPerToken, MonitorTypeOK
<1> QED BY <1>2, <1>3

\* A sell handler works on one token, and a spawned one on its parent's.
LEMMA SellMints ==
  ASSUME TypeOK, NEW s \in SellTask, SellStep(s)
  PROVE  \A x \in SellTask : sellMint'[x] \in {sellMint[x], sellMint[s], None}
<1>t. SellTypeOK
  BY DEF TypeOK
<1>1. ASSUME NEW pc, NEW kind, SellGoto(s, pc, kind)
      PROVE  \A x \in SellTask : sellMint'[x] \in {sellMint[x], sellMint[s], None}
  BY <1>t, <1>1 DEF SellGoto, SellTypeOK
<1>2. ASSUME NEW u \in SellTask \ {s}, SellDetectWhale(s, u)
      PROVE  \A x \in SellTask : sellMint'[x] \in {sellMint[x], sellMint[s], None}
  BY <1>t, <1>2 DEF SellDetectWhale, SellTypeOK
<1> QED BY <1>1, <1>2 DEF SellStep, SellDetect, SellUrgent, SellEvaluate, SellBalance, SellSend,
           SellCancelMonitoring, SellErr

LEMMA SellWatch ==
  ASSUME PositionInv, WatchInv, NEW s \in SellTask, SellStep(s)
  PROVE  WatchInv'
<1> USE DEF registryVars, streamVars, buyVars, monVars, sellVars, sweepVars, historyVars
<1>t. TypeOK /\ SellTypeOK
  BY DEF PositionInv, TypeOK
<1>0. SalesExplained /\ BookedAlone /\ BookedIsHeld /\ LandedIsHeld /\ TrackedIsMonitoredAndListed /\ OneMonitorPerToken
  BY DEF WatchInv
<1>1. /\ UNCHANGED <<BOUGHT_TOKEN_LIST, BOUGHT_TOKENS_BLACKLIST, buyVars, monPc, monMint, sweepVars,
                     wallet, historyVars>>
      /\ sellMint[s] \in Mint
      /\ \/ UNCHANGED <<TOKEN_TRACKING, MONITORING_TASKS, cancelled>>
         \/ DropMonitor(sellMint[s]) /\ FreeSlot(sellMint[s])
  BY <1>t DEF SellTypeOK, SellStep, SellDetect, SellDetectWhale, SellUrgent, SellEvaluate, SellBalance,
     SellSend, SellCancelMonitoring
<1>2. SalesExplained' /\ LandedIsHeld'
  BY <1>t, <1>0, <1>1, SellMints, ConstantsAssumption DEF SalesExplained, LandedIsHeld
<1>3. BookedAlone' /\ BookedIsHeld'
  <2>1. \A t \in BuyTask : buyPc[t] = "metrics" => buyMint[t] # None
    BY <1>t, ConstantsAssumption DEF TypeOK, BuyTypeOK
  <2> QED BY <1>t, <1>0, <1>1, <2>1, SellMints DEF BookedAlone, BookedIsHeld
<1>4. TrackedIsMonitoredAndListed' /\ OneMonitorPerToken'
  <2>1. CASE UNCHANGED <<TOKEN_TRACKING, MONITORING_TASKS, cancelled>>
    BY <1>0, <1>1, <2>1 DEF TrackedIsMonitoredAndListed, OneMonitorPerToken
  <2>2. CASE DropMonitor(sellMint[s]) /\ FreeSlot(sellMint[s])
    <3>1. TOKEN_TRACKING \subseteq Mint
      BY <1>t DEF TypeOK, RegistryTypeOK
    <3> QED BY <1>t, <1>0, <1>1, <2>2, <3>1, DroppedMonitor DEF TrackedIsMonitoredAndListed, FreeSlot
  <2> QED BY <1>1, <2>1, <2>2
<1> QED BY <1>2, <1>3, <1>4 DEF WatchInv

\* The sweeper takes a token off the list together with its slot.
LEMMA SweepWatch ==
  ASSUME PositionInv, WatchInv, SweepStep
  PROVE  WatchInv'
<1> USE DEF registryVars, streamVars, buyVars, monVars, sellVars, sweepVars, historyVars
<1>t. TypeOK /\ RegistryTypeOK /\ SweepTypeOK
  BY DEF PositionInv, TypeOK
<1>0. SalesExplained /\ BookedAlone /\ BookedIsHeld /\ LandedIsHeld /\ TrackedIsMonitoredAndListed /\ OneMonitorPerToken
  BY DEF WatchInv
<1>1. /\ UNCHANGED <<BOUGHT_TOKENS_BLACKLIST, buyVars, monPc, monMint, sellVars, wallet, historyVars>>
      /\ \/ UNCHANGED <<BOUGHT_TOKEN_LIST, TOKEN_TRACKING>>
         \/ /\ sweepHit # None /\ BOUGHT_TOKEN_LIST' = BOUGHT_TOKEN_LIST \ {sweepHit}
            /\ FreeSlot(sweepHit)
      /\ \/ UNCHANGED <<MONITORING_TASKS, cancelled>>
         \/ sweepHit # None /\ DropMonitor(sweepHit) /\ FreeSlot(sweepHit)
  BY DEF SweepStep, SweepTick, SweepReadsZero, SweepKeeps, SweepBasic, SweepFull, SweepManager,
     SweepPassEnds
<1>2. sweepHit' # None => sweepHit' = sweepHit \/ wallet[sweepHit'] = 0
  BY DEF SweepStep, SweepTick, SweepStart, SweepReadsZero, BalanceGone, SweepKeeps, SweepBasic,
     SweepFull, SweepManager, SweepNextToken, SweepPassEnds, SweepCycleEnds
<1>3. SalesExplained' /\ LandedIsHeld'
  BY <1>0, <1>1 DEF SalesExplained, LandedIsHeld
<1>4. BookedAlone' /\ BookedIsHeld'
  <2>1. \A t \in BuyTask : buyPc[t] = "metrics" => buyMint[t] # None
    BY <1>t, ConstantsAssumption DEF TypeOK, BuyTypeOK
  <2> QED BY <1>0, <1>1, <1>2, <2>1 DEF BookedAlone, BookedIsHeld
<1>5. OneMonitorPerToken' /\ \A m \in TOKEN_TRACKING' : MONITORING_TASKS'[m] = MONITORING_TASKS[m]
  <2>1. CASE UNCHANGED <<MONITORING_TASKS, cancelled>>
    BY <1>0, <1>1, <2>1 DEF OneMonitorPerToken
  <2>2. CASE sweepHit # None /\ DropMonitor(sweepHit) /\ FreeSlot(sweepHit)
    BY <1>t, <1>0, <1>1, <2>2, DroppedMonitor DEF SweepTypeOK, FreeSlot, RegistryTypeOK
  <2> QED BY <1>1, <2>1, <2>2
<1>6. TrackedIsMonitoredAndListed'
  BY <1>0, <1>1, <1>5 DEF TrackedIsMonitoredAndListed, FreeSlot
<1> QED BY <1>3, <1>4, <1>5, <1>6 DEF WatchInv

\* What lands of a token that is not booked yet are its buys.
LEMMA ChainWatch ==
  ASSUME PositionInv, WatchInv, ChainStep
  PROVE  WatchInv'
<1> USE DEF registryVars, streamVars, buyVars, monVars, sellVars, sweepVars, historyVars
<1>t. BuyTypeOK /\ SellTypeOK /\ wallet \in [Mint -> Nat]
  BY DEF PositionInv, TypeOK
<1>0. SalesExplained /\ BookedAlone /\ BookedIsHeld /\ LandedIsHeld /\ TrackedIsMonitoredAndListed /\ OneMonitorPerToken
  BY DEF WatchInv
<1>1. /\ UNCHANGED <<buyPc, registryVars, monVars, sweepVars, historyVars>>
  BY DEF ChainStep, BuyLands, BuyFails, SaleLands, SaleFails
<1>2. TrackedIsMonitoredAndListed' /\ OneMonitorPerToken'
  BY <1>0, <1>1 DEF TrackedIsMonitoredAndListed, OneMonitorPerToken
<1>3. ASSUME NEW t \in BuyTask, BuyLands(t) PROVE WatchInv'
  <2>1. /\ UNCHANGED sellVars /\ buyMint[t] \in Mint
        /\ \A m \in Mint : wallet'[m] = IF m = buyMint[t] THEN wallet[m] + 1 ELSE wallet[m]
        /\ \A u \in BuyTask : /\ buyPc[u] # "idle" => buyMint'[u] = buyMint[u]
                              /\ buyTx'[u] = "landed" => /\ u = t \/ buyTx[u] = "landed"
                                                         /\ buyPc[u] = "verifying"
    BY <1>t, <1>0, <1>3 DEF BuyLands, BuyTypeOK, LandedIsHeld
  <2>2. \A m \in Mint : wallet[m] # 0 \/ m = buyMint[t] => wallet'[m] # 0
    BY <1>t, <2>1
  <2>3. \A u \in BuyTask : buyPc[u] # "idle" => buyMint[u] \in Mint
    BY <1>t DEF BuyTypeOK
  <2>4. SalesExplained' /\ LandedIsHeld'
    BY <1>0, <1>1, <2>1, <2>2, <2>3 DEF SalesExplained, LandedIsHeld
  <2>5. BookedAlone' /\ BookedIsHeld'
    BY <1>0, <1>1, <2>1, <2>2, <2>3 DEF BookedAlone, BookedIsHeld
  <2> QED BY <1>2, <2>4, <2>5 DEF WatchInv
<1>4. ASSUME NEW t \in BuyTask, BuyFails(t) PROVE WatchInv'
  <2>1. /\ UNCHANGED <<sellVars, wallet>>
        /\ \A u \in BuyTask : /\ buyPc[u] = "metrics" => buyMint'[u] = buyMint[u]
                              /\ buyTx'[u] = "landed" => buyTx[u] = "landed" /\ buyMint'[u] = buyMint[u]
    BY <1>t, <1>4 DEF BuyFails, BuyTypeOK
  <2>2. SalesExplained' /\ LandedIsHeld' /\ BookedAlone' /\ BookedIsHeld'
    BY <1>0, <1>1, <2>1 DEF SalesExplained, LandedIsHeld, BookedAlone, BookedIsHeld
  <2> QED BY <1>2, <2>2 DEF WatchInv
<1>5. ASSUME NEW s \in SellTask, NEW a \in Attempt, SaleLands(s, a) \/ SaleFails(s, a) PROVE WatchInv'
  <2>1. /\ UNCHANGED buyVars /\ sellMint[s] \in Mint
        /\ \A x \in SellTask : sellMint'[x] \in {sellMint[x], None}
        /\ \A m \in Mint : m # sellMint[s] => wallet'[m] = wallet[m]
    BY <1>t, <1>5 DEF SaleLands, SaleFails, SaleResolved, SellGoto, SellTypeOK
  <2>2. \A t \in BuyTask : buyPc[t] # "idle" \/ buyTx[t] = "landed" => buyMint[t] \in Mint
    BY <1>t DEF BuyTypeOK
  <2>3. SalesExplained'
    BY <1>0, <1>1, <2>1 DEF SalesExplained
  <2>4. LandedIsHeld'
    <3>1. ASSUME NEW t \in BuyTask, buyTx[t] = "landed", buyMint[t] \notin contested \cup misread
          PROVE  buyMint[t] # sellMint[s]
      <4>1. buyPc[t] = "verifying"
        BY <1>0, <3>1 DEF LandedIsHeld
      <4>2. buyMint[t] \notin BOUGHT_TOKENS_BLACKLIST
        BY <3>1, <4>1 DEF PositionInv, ExecutingIsFresh, Executing
      <4> QED BY <1>0, <2>1, <3>1, <4>2, ConstantsAssumption DEF SalesExplained
    <3> QED BY <1>0, <1>1, <2>1, <2>2, <3>1 DEF LandedIsHeld
  <2>5. BookedAlone'
    BY <1>0, <1>1, <2>1 DEF BookedAlone
  <2>6. BookedIsHeld'
    <3>1. ASSUME NEW t \in BuyTask, buyPc[t] = "metrics", buyMint[t] \notin contested \cup misread
          PROVE  /\ wallet'[buyMint[t]] # 0 /\ \A x \in SellTask : sellMint'[x] # buyMint[t]
                 /\ buyMint[t] \in BOUGHT_TOKEN_LIST /\ sweepHit # buyMint[t]
      BY <1>0, <2>1, <2>2, <3>1, ConstantsAssumption DEF BookedIsHeld
    <3> QED BY <1>1, <2>1, <3>1 DEF BookedIsHeld
  <2> QED BY <1>2, <2>3, <2>4, <2>5, <2>6 DEF WatchInv
<1> QED BY <1>3, <1>4, <1>5 DEF ChainStep

LEMMA NextWatch == PositionInv /\ WatchInv /\ [Next]_vars => WatchInv'
<1>1. ASSUME WatchInv, DispatcherStops \/ UNCHANGED vars PROVE WatchInv'
  BY <1>1 DEF DispatcherStops, vars, registryVars, streamVars, buyVars, monVars, sellVars, sweepVars,
     historyVars, WatchInv, SalesExplained, BookedAlone, BookedIsHeld, LandedIsHeld, TrackedIsMonitoredAndListed,
     OneMonitorPerToken
<1> QED BY <1>1, BuyWatch, MonitorWatch, SellWatch, SweepWatch, ChainWatch DEF Next, ProcessStep

\* Between the awaits of a buy nobody else registers its token, and nobody sells or
\* sweeps it but a handler that the trade of another token was misread for.
THEOREM WatchInvariant == Spec => []WatchInv
<1>1. Init => WatchInv
  BY InitWatch
<1> QED BY <1>1, NextWatch, PositionInvariant, PTL DEF Spec

\* A slot of the counter limit belongs to a registered token, which is listed, so
\* that the sweeper frees the slot, unless two handlers bought it at once or a
\* trade was misread as one of it (fr_handle_parsed_data_for_selling).
THEOREM TrackedAreMonitored == Spec => []TrackedIsMonitoredAndListed
<1>1. WatchInv => TrackedIsMonitoredAndListed
  BY DEF WatchInv
<1> QED BY <1>1, WatchInvariant, PTL

\* A monitor that MONITORING_TASKS does not name has been cancelled, but for
\* tokens that two handlers bought at once (fr_setup_selling_strategy).
THEOREM OneMonitorEach == Spec => []OneMonitorPerToken
<1>1. WatchInv => OneMonitorPerToken
  BY DEF WatchInv
<1> QED BY <1>1, WatchInvariant, PTL
-----------------------------------------------------------------------------
(* PositionLifecycle implements Portfolio *)

LEMMA InitKeepsPromise == ASSUME Init PROVE Promise!Init
BY DEF Init, Promise!Init, BeingBought, InWallet, Executing

\* While no buy handler moves, no token changes its place among the orders.
LEMMA SameOrders ==
  ASSUME UNCHANGED <<buyPc, buyMint>>
  PROVE  BeingBought' = BeingBought
BY DEF BeingBought, Executing

\* What a buy handler that moves does to the orders: only its own token can
\* leave them, and if it stays then because another handler executes it too.
LEMMA OrdersOfOne ==
  ASSUME TypeOK, NEW t \in BuyTask, NEW m \in Mint, Executing(t), buyMint[t] = m,
         OverlapIsContested,
         \A u \in BuyTask \ {t} : buyPc'[u] = buyPc[u] /\ buyMint'[u] = buyMint[u]
  PROVE  /\ m \in BeingBought
         /\ Executing(t)' /\ buyMint'[t] = m => BeingBought' = BeingBought
         /\ ~Executing(t)' => \/ BeingBought' = BeingBought \ {m}
                              \/ m \in contested /\ BeingBought' = BeingBought
<1>1. m \in BeingBought
  BY DEF BeingBought
<1>2. ASSUME Executing(t)' /\ buyMint'[t] = m PROVE BeingBought' = BeingBought
  BY <1>2 DEF BeingBought, Executing
<1>3. ASSUME ~Executing(t)'
      PROVE  \/ BeingBought' = BeingBought \ {m}
             \/ m \in contested /\ BeingBought' = BeingBought
  <2>1. CASE \E u \in BuyTask \ {t} : Executing(u) /\ buyMint[u] = m
    <3>1. m \in contested
      BY <2>1 DEF OverlapIsContested
    <3>2. BeingBought' = BeingBought
      BY <1>3, <2>1 DEF BeingBought, Executing
    <3> QED BY <3>1, <3>2
  <2>2. CASE ~\E u \in BuyTask \ {t} : Executing(u) /\ buyMint[u] = m
    BY <1>3, <2>2 DEF BeingBought, Executing
  <2> QED BY <2>1, <2>2
<1> QED BY <1>1, <1>2, <1>3

\* A token that is held while it is executed landed from this very order, or
\* went astray.
LEMMA HeldWhileOrdered ==
  ASSUME PositionInv, NEW t \in BuyTask, Executing(t), wallet[buyMint[t]] > 0
  PROVE  buyTx[t] = "landed" \/ buyMint[t] \in unverified \cup contested
<1>1. buyMint[t] \in Mint
  BY DEF PositionInv, TypeOK, BuyTypeOK, Executing
<1>2. CASE buyMint[t] \in BOUGHT_TOKEN_LIST
  BY <1>2 DEF PositionInv, BlacklistedFirst, ExecutingIsFresh
<1>3. ASSUME NEW u \in BuyTask, buyPc[u] = "verifying", buyMint[u] = buyMint[t],
             buyTx[u] = "landed"
      PROVE  buyTx[t] = "landed" \/ buyMint[t] \in contested
  BY <1>3 DEF PositionInv, OverlapIsContested, Executing
<1> QED BY <1>1, <1>2, <1>3 DEF PositionInv, OnlyUnverifiedBuysEscape

\* Buy handlers order, give up and book.
LEMMA BuyKeepsPromise ==
  ASSUME PositionInv, WatchInv, NEW t \in BuyTask, BuyStep(t)
  PROVE  Promise!Next \/ UNCHANGED Promise!vars
<1> DEFINE m == buyMint[t]
<1> USE DEF registryVars, streamVars, buyVars, monVars, sellVars, sweepVars, historyVars
<1>t. TypeOK /\ BuyTypeOK /\ OverlapIsContested
  BY DEF PositionInv, TypeOK
<1>m. buyPc[t] # "idle" => m \in Mint
  BY <1>t DEF BuyTypeOK
<1>w. wallet' = wallet => InWallet' = InWallet
  BY DEF InWallet
<1>1. ASSUME NEW x \in Mint, BeginBuy(t, x) PROVE Promise!Order(x)
  <2>1. /\ buyPc[t] = "idle" /\ x \notin BOUGHT_TOKENS_BLACKLIST
        /\ UNCHANGED <<BOUGHT_TOKENS_BLACKLIST, BOUGHT_TOKEN_LIST, wallet, unverified, misread>>
        /\ buyPc'[t] = "building" /\ buyMint'[t] = x
        /\ \A u \in BuyTask \ {t} : buyPc'[u] = buyPc[u] /\ buyMint'[u] = buyMint[u]
    BY <1>t, <1>1 DEF BeginBuy, BuySlotFree, NotBlacklisted, BuyTypeOK
  <2>2. BeingBought' = BeingBought \cup {x}
    BY <2>1 DEF BeingBought, Executing
  <2>3. contested' = contested \cup (BeingBought \cap {x})
    BY <1>1, <2>1 DEF BeginBuy, BeingBought, Executing
  <2> QED BY <1>w, <2>1, <2>2, <2>3 DEF Promise!Order
<1>2. CASE BuyNotSent(t)
  <2>1. /\ buyPc[t] = "building" /\ Executing(t) /\ ~Executing(t)'
        /\ UNCHANGED <<BOUGHT_TOKENS_BLACKLIST, BOUGHT_TOKEN_LIST, wallet, unverified, contested, misread>>
        /\ \A u \in BuyTask \ {t} : buyPc'[u] = buyPc[u] /\ buyMint'[u] = buyMint[u]
    BY <1>t, <1>2 DEF BuyNotSent, BuyTypeOK, Executing
  <2>2. Promise!CloseOrder(m)
    BY <1>t, <1>m, <2>1, OrdersOfOne DEF Promise!CloseOrder
  <2>3. m \notin InWallet \ (unverified \cup contested)
    BY <1>t, <2>1, HeldWhileOrdered DEF InWallet, BuyTypeOK
  <2>4. Promise!GiveUp(m)
    BY <1>w, <2>1, <2>2, <2>3 DEF Promise!GiveUp
  <2> QED BY <1>m, <2>1, <2>4 DEF Promise!Next
<1>3. CASE BuySent(t)
  <2>1. /\ buyPc[t] = "building" /\ Executing(t) /\ Executing(t)' /\ buyMint'[t] = m
        /\ UNCHANGED <<BOUGHT_TOKENS_BLACKLIST, BOUGHT_TOKEN_LIST, wallet, unverified, contested, misread>>
        /\ \A u \in BuyTask \ {t} : buyPc'[u] = buyPc[u] /\ buyMint'[u] = buyMint[u]
    BY <1>t, <1>3 DEF BuySent, BuyTypeOK, Executing
  <2> QED BY <1>t, <1>m, <1>w, <2>1, OrdersOfOne DEF Promise!vars
<1>4. CASE BuySentButErr(t)
  <2>1. /\ buyPc[t] = "building" /\ Executing(t) /\ ~Executing(t)'
        /\ UNCHANGED <<BOUGHT_TOKENS_BLACKLIST, BOUGHT_TOKEN_LIST, wallet, contested, misread>>
        /\ unverified' = unverified \cup {m}
        /\ \A u \in BuyTask \ {t} : buyPc'[u] = buyPc[u] /\ buyMint'[u] = buyMint[u]
    BY <1>t, <1>4 DEF BuySentButErr, BuyTypeOK, Executing
  <2>2. Promise!CloseOrder(m)
    BY <1>t, <1>m, <2>1, OrdersOfOne DEF Promise!CloseOrder
  <2>3. Promise!GiveUp(m)
    BY <1>w, <2>1, <2>2 DEF Promise!GiveUp
  <2> QED BY <1>m, <2>1, <2>3 DEF Promise!Next
<1>5. CASE VerifyBuyOk(t)
  <2>1. /\ buyPc[t] = "verifying" /\ buyTx[t] = "landed" /\ Executing(t) /\ ~Executing(t)'
        /\ UNCHANGED <<wallet, unverified, contested, misread>>
        /\ BOUGHT_TOKEN_LIST' = BOUGHT_TOKEN_LIST \cup {m}
        /\ BOUGHT_TOKENS_BLACKLIST' = BOUGHT_TOKENS_BLACKLIST \cup {m}
        /\ \A u \in BuyTask \ {t} : buyPc'[u] = buyPc[u] /\ buyMint'[u] = buyMint[u]
    BY <1>t, <1>5 DEF VerifyBuyOk, BuyTypeOK, Executing
  <2>2. Promise!CloseOrder(m)
    BY <1>t, <1>m, <2>1, OrdersOfOne DEF Promise!CloseOrder
  <2>3. m \in InWallet \cup (unverified \cup contested) \cup misread
    BY <1>t, <1>m, <2>1 DEF WatchInv, LandedIsHeld, InWallet, TypeOK
  <2>4. Promise!Book(m)
    BY <1>w, <2>1, <2>2, <2>3 DEF Promise!Book
  <2> QED BY <1>m, <2>1, <2>4 DEF Promise!Next
<1>6. CASE VerifyBuyErr(t)
  <2>1. /\ buyPc[t] = "verifying" /\ Executing(t) /\ ~Executing(t)'
        /\ UNCHANGED <<BOUGHT_TOKENS_BLACKLIST, BOUGHT_TOKEN_LIST, wallet, contested, misread>>
        /\ unverified' = unverified \cup {m} \/ (buyTx[t] = "none" /\ unverified' = unverified)
        /\ \A u \in BuyTask \ {t} : buyPc'[u] = buyPc[u] /\ buyMint'[u] = buyMint[u]
    BY <1>t, <1>6 DEF VerifyBuyErr, BuyTypeOK, Executing
  <2>2. Promise!CloseOrder(m)
    BY <1>t, <1>m, <2>1, OrdersOfOne DEF Promise!CloseOrder
  <2>3. buyTx[t] = "none" => m \notin InWallet \ (unverified \cup contested)
    BY <1>t, <2>1, HeldWhileOrdered DEF InWallet
  <2>4. Promise!GiveUp(m)
    BY <1>w, <2>1, <2>2, <2>3 DEF Promise!GiveUp
  <2> QED BY <1>m, <2>1, <2>4 DEF Promise!Next
<1>7. ASSUME NEW k \in Monitor, NEW measured \in BOOLEAN, NEW priced \in BOOLEAN,
             BookBuy(t, k, measured, priced)
      PROVE  Promise!Relist(m) \/ UNCHANGED Promise!vars
  <2>1. /\ buyPc[t] = "metrics" /\ m \in BOUGHT_TOKENS_BLACKLIST
        /\ UNCHANGED <<BOUGHT_TOKENS_BLACKLIST, wallet, unverified, contested, misread>>
        /\ BOUGHT_TOKEN_LIST' \in {BOUGHT_TOKEN_LIST, BOUGHT_TOKEN_LIST \cup {m}}
        /\ \A u \in BuyTask : Executing(u)' <=> Executing(u)
        /\ \A u \in BuyTask : Executing(u) => buyMint'[u] = buyMint[u]
    BY <1>t, <1>7 DEF BookBuy, BuyTypeOK, Executing, PositionInv, BlacklistedFirst
  <2>2. BeingBought' = BeingBought
    BY <2>1 DEF BeingBought
  <2>3. m \in BOUGHT_TOKEN_LIST \cup contested \cup misread
    BY <2>1 DEF WatchInv, BookedAlone, BookedIsHeld
  <2> QED BY <1>w, <2>1, <2>2, <2>3 DEF Promise!Relist, Promise!vars
<1>8. ASSUME NEW k \in Monitor, NEW measured \in BOOLEAN, NEW priced \in BOOLEAN,
             BookBuy(t, k, measured, priced)
      PROVE  m \in Mint
  BY <1>m, <1>8 DEF BookBuy
<1> QED BY <1>1, <1>2, <1>3, <1>4, <1>5, <1>6, <1>7, <1>8
        DEF BuyStep, BuyProgress, BeginSniperBuy, BeginCopyBuy, Promise!Next

\* Monitors and sell handlers leave the portfolio alone, but a monitor may read
\* the trade of its token as one of another.
LEMMA SellersKeepPromise ==
  ASSUME (\E k \in Monitor : MonitorStep(k)) \/ (\E s \in SellTask : SellStep(s))
  PROVE  Promise!Next \/ UNCHANGED Promise!vars
<1>1. UNCHANGED <<BOUGHT_TOKEN_LIST, BOUGHT_TOKENS_BLACKLIST, buyPc, buyMint, wallet,
                  unverified, contested>>
  BY DEF MonitorStep, MonitorConnects, MonitorStops, MonitorMessage, SellStep, SellDetect,
     SellDetectWhale, SellUrgent, SellEvaluate, SellBalance, SellSend, SellCancelMonitoring,
     registryVars, buyVars, historyVars
<1>2. BeingBought' = BeingBought /\ InWallet' = InWallet
  BY <1>1, SameOrders DEF InWallet
<1>3. misread' = misread \/ \E m \in Mint : misread' = misread \cup {m}
  <2>1. ASSUME NEW k \in Monitor, NEW s \in SellTask, NEW m \in Mint, MonitorMessage(k, s, m)
        PROVE  misread' = misread \/ misread' = misread \cup {m}
    <3>1. {m} \ {monMint[k]} = {} \/ {m} \ {monMint[k]} = {m}
      OBVIOUS
    <3> QED BY <2>1, <3>1 DEF MonitorMessage
  <2> QED BY <2>1
      DEF MonitorStep, MonitorConnects, MonitorStops, SellStep, SellDetect, SellDetectWhale,
          SellUrgent, SellEvaluate, SellBalance, SellSend, SellCancelMonitoring, historyVars
<1> QED BY <1>1, <1>2, <1>3 DEF Promise!Misread, Promise!Next, Promise!vars

\* The sweeper delists what is gone.
LEMMA SweepKeepsPromise ==
  ASSUME PositionInv, SweepStep
  PROVE  Promise!Next \/ UNCHANGED Promise!vars
<1>1. UNCHANGED <<BOUGHT_TOKENS_BLACKLIST, buyPc, buyMint, wallet, unverified, contested, misread>>
  BY DEF SweepStep, SweepTick, SweepReadsZero, SweepKeeps, SweepBasic, SweepFull, SweepManager,
     SweepPassEnds, registryVars, buyVars, historyVars
<1>2. BeingBought' = BeingBought /\ InWallet' = InWallet
  BY <1>1, SameOrders DEF InWallet
<1>3. CASE BOUGHT_TOKEN_LIST' = BOUGHT_TOKEN_LIST
  BY <1>1, <1>2, <1>3 DEF Promise!vars
<1>4. CASE /\ sweepHit # None /\ sweepPhase \in {"basic", "full"}
           /\ BOUGHT_TOKEN_LIST' = BOUGHT_TOKEN_LIST \ {sweepHit}
  <2>1. sweepHit \in Mint
    BY <1>4 DEF PositionInv, TypeOK, SweepTypeOK
  <2>2. sweepHit \notin InWallet \ (unverified \cup contested)
    BY <1>4, <2>1 DEF PositionInv, HitStaysGone, InWallet
  <2> QED BY <1>1, <1>2, <1>4, <2>1, <2>2 DEF Promise!Delist, Promise!Next
<1> QED BY <1>3, <1>4 DEF SweepStep, SweepTick, SweepReadsZero, SweepKeeps, SweepBasic, SweepFull,
           SweepManager, SweepPassEnds, registryVars

\* The chain fills orders and sells what was bought.
LEMMA ChainKeepsPromise ==
  ASSUME PositionInv, WatchInv, ChainStep
  PROVE  Promise!Next \/ UNCHANGED Promise!vars
<1> USE DEF registryVars, streamVars, buyVars, monVars, sellVars, sweepVars, historyVars
<1>t. TypeOK /\ BuyTypeOK /\ SellTypeOK /\ wallet \in [Mint -> Nat]
  BY DEF PositionInv, TypeOK
<1>0. UNCHANGED <<BOUGHT_TOKEN_LIST, BOUGHT_TOKENS_BLACKLIST, buyPc, unverified, contested, misread>>
  BY DEF ChainStep, BuyLands, BuyFails, SaleLands, SaleFails
<1>1. BeingBought' = BeingBought
  <2>1. \A u \in BuyTask : Executing(u) => buyMint'[u] = buyMint[u]
    BY <1>t DEF ChainStep, BuyLands, BuyFails, SaleLands, SaleFails, BuyTypeOK, Executing
  <2> QED BY <1>0, <2>1 DEF BeingBought, Executing
<1>2. CASE wallet' = wallet
  BY <1>0, <1>1, <1>2 DEF Promise!vars, InWallet
<1>3. ASSUME NEW t \in BuyTask, BuyLands(t) PROVE Promise!Next
  <2>1. buyMint[t] \in Mint /\ buyTx[t] = "flying" /\ wallet' = [wallet EXCEPT ![buyMint[t]] = @ + 1]
    BY <1>t, <1>3 DEF BuyLands, BuyTypeOK
  <2>2. InWallet' = InWallet \cup {buyMint[t]}
    BY <1>t, <2>1 DEF InWallet
  <2>3. buyMint[t] \in BeingBought \cup (unverified \cup contested)
    BY <2>1 DEF PositionInv, FlyingIsWatched, BeingBought, Executing
  <2> QED BY <1>0, <1>1, <2>1, <2>2, <2>3 DEF Promise!Fill, Promise!Next
<1>4. ASSUME NEW s \in SellTask, NEW a \in Attempt, SaleLands(s, a)
      PROVE  Promise!Next \/ UNCHANGED Promise!vars
  <2> DEFINE m == sellMint[s]
  <2>1. /\ m \in Mint /\ sale[s][a] \in Nat /\ wallet[m] >= sale[s][a]
        /\ wallet' = [wallet EXCEPT ![m] = @ - sale[s][a]]
    BY <1>t, <1>4 DEF SaleLands, SaleResolved, SellTypeOK
  <2>2. m \in BOUGHT_TOKENS_BLACKLIST \cup misread
    BY <2>1, ConstantsAssumption DEF WatchInv, SalesExplained
  <2>3. wallet' \in [Mint -> Nat] /\ \A x \in Mint \ {m} : wallet'[x] = wallet[x]
    BY <1>t, <2>1
  <2>4. wallet'[m] <= wallet[m]
    BY <1>t, <2>1
  <2>5. InWallet' \in {InWallet, InWallet \ {m}}
    BY <1>t, <2>1, <2>3, <2>4 DEF InWallet
  <2>6. CASE InWallet' = InWallet
    BY <1>0, <1>1, <2>6 DEF Promise!vars
  <2>7. CASE InWallet' = InWallet \ {m}
    BY <1>0, <1>1, <2>1, <2>2, <2>7 DEF Promise!Sell, Promise!Next
  <2> QED BY <2>5, <2>6, <2>7
<1> QED BY <1>2, <1>3, <1>4 DEF ChainStep, BuyFails, SaleFails

LEMMA NextKeepsPromise ==
  PositionInv /\ WatchInv /\ [Next]_vars => [Promise!Next]_(Promise!vars)
<1>1. ASSUME DispatcherStops \/ UNCHANGED vars PROVE UNCHANGED Promise!vars
  <2>1. UNCHANGED <<BOUGHT_TOKEN_LIST, BOUGHT_TOKENS_BLACKLIST, buyPc, buyMint, wallet,
                    unverified, contested, misread>>
    BY <1>1 DEF DispatcherStops, vars, registryVars, buyVars, historyVars
  <2> QED BY <2>1, SameOrders DEF Promise!vars, InWallet
<1> QED BY <1>1, BuyKeepsPromise, SellersKeepPromise, SweepKeepsPromise, ChainKeepsPromise
        DEF Next, ProcessStep

\* The engine keeps the promise of Portfolio, for any number of tokens, tasks
\* and monitors: a token that did not go astray is never ordered again after it
\* was bought, and is listed while it is held.
THEOREM EngineImplementsPortfolio == Spec => ImplementsPortfolio
<1>1. Init => Promise!Init
  BY InitKeepsPromise
<1> QED BY <1>1, NextKeepsPromise, PositionInvariant, WatchInvariant, PTL
        DEF Spec, Promise!Spec, ImplementsPortfolio

Owner == INSTANCE Portfolio_proofs WITH
  ordered <- BeingBought,
  bought  <- BOUGHT_TOKENS_BLACKLIST,
  listed  <- BOUGHT_TOKEN_LIST,
  held    <- InWallet,
  astray  <- unverified \cup contested,
  misread <- misread

\* A token that was sold is not bought back by any of the engine's tasks, and
\* the blacklist forgets none, but for tokens that went astray.
THEOREM SoldForGood == Spec => Owner!NoSecondPosition
<1>1. Promise!Init => Owner!Init
  BY DEF Promise!Init, Owner!Init
<1>2. [Promise!Next]_(Promise!vars) => [Owner!Next]_(Owner!vars)
  BY DEF Promise!Next, Owner!Next, Promise!vars, Owner!vars,
     Promise!Order, Promise!Fill, Promise!GiveUp, Promise!CloseOrder, Promise!Book,
     Promise!Relist, Promise!Sell, Promise!Delist, Promise!Misread,
     Owner!Order, Owner!Fill, Owner!GiveUp, Owner!CloseOrder, Owner!Book,
     Owner!Relist, Owner!Sell, Owner!Delist, Owner!Misread
<1>3. Spec => Owner!Spec
  BY <1>1, <1>2, EngineImplementsPortfolio, PTL DEF ImplementsPortfolio, Promise!Spec, Owner!Spec
<1> QED BY <1>3, Owner!OnePosition, PTL
-----------------------------------------------------------------------------
(* A cycle of the sweeper comes to its end *)

\* What the sweeper has read is of the token it is at, and between two ticks it
\* is at none.
SweepPlace ==
  /\ sweepHit \in sweepTodo \cup {None}
  /\ sweepPhase = "idle" => sweepTodo = {} /\ sweepHit = None

\* The passes that are still to come or under way, and the steps that the pass
\* under way has left: two for each token, the answer and what follows from it.
PassesLeft == [idle |-> 0, manager |-> 1, full |-> 2, basic |-> 3][sweepPhase]
AnswersLeft == 2 * Cardinality(sweepTodo) - (IF sweepHit = None THEN 0 ELSE 1)
SweepLeft == PassesLeft * (2 * Cardinality(Mint) + 1) + AnswersLeft

LEMMA SweepKeepsPlace ==
  ASSUME TypeOK, SweepPlace, SweepStep
  PROVE  SweepPlace'
<1> USE DEF SweepPlace
<1>1. CASE SweepTick
  BY <1>1 DEF SweepTick, SweepStart
<1>2. CASE \E m \in sweepTodo : SweepReadsZero(m)
  BY <1>2 DEF SweepReadsZero
<1>3. CASE \E m \in sweepTodo : SweepKeeps(m)
  BY <1>3 DEF SweepKeeps
<1>4. CASE SweepBasic \/ SweepFull \/ SweepManager
  BY <1>4 DEF SweepBasic, SweepFull, SweepManager, SweepNextToken
<1>5. CASE SweepPassEnds
  BY <1>5 DEF SweepPassEnds, SweepStart, SweepCycleEnds
<1> QED BY <1>1, <1>2, <1>3, <1>4, <1>5 DEF SweepStep

\* Only the sweeper moves the sweeper.
LEMMA OthersLeaveSweeper ==
  ASSUME [Next]_vars, ~SweepStep
  PROVE  UNCHANGED sweepVars
BY DEF Next, ProcessStep, ChainStep, vars, BuyStep, BuyProgress, BeginSniperBuy, BeginCopyBuy,
   BeginBuy, BuyNotSent, BuySent, BuySentButErr, VerifyBuyOk, VerifyBuyErr, BookBuy,
   MonitorStep, MonitorConnects, MonitorStops, MonitorMessage,
   SellStep, SellDetect, SellDetectWhale, SellUrgent, SellEvaluate, SellBalance, SellSend,
   SellCancelMonitoring, DispatcherStops, BuyLands, BuyFails, SaleLands, SaleFails

LEMMA SweepPlaceInvariant == Spec => []SweepPlace
<1>1. Init => SweepPlace
  BY DEF Init, SweepPlace
<1>2. TypeOK /\ SweepPlace /\ [Next]_vars => SweepPlace'
  BY SweepKeepsPlace, OthersLeaveSweeper DEF sweepVars, SweepPlace
<1> QED BY <1>1, <1>2, Typing, PTL DEF Spec

\* The set of tokens still to be looked at is finite, and each one that is done
\* with leaves one less.
LEMMA TodoCounts ==
  ASSUME TypeOK
  PROVE  /\ IsFiniteSet(sweepTodo) /\ Cardinality(sweepTodo) \in 0..Cardinality(Mint)
         /\ Cardinality(Mint) \in Nat
         /\ \A m \in sweepTodo : /\ Cardinality(sweepTodo \ {m}) = Cardinality(sweepTodo) - 1
                                 /\ Cardinality(sweepTodo) >= 1
<1>1. IsFiniteSet(Mint) /\ sweepTodo \subseteq Mint
  BY ConstantsAssumption DEF TypeOK, SweepTypeOK
<1>2. /\ IsFiniteSet(sweepTodo) /\ Cardinality(sweepTodo) <= Cardinality(Mint)
      /\ Cardinality(sweepTodo) \in Nat /\ Cardinality(Mint) \in Nat
  BY <1>1, FS_Subset, FS_CardinalityType
<1>3. \A m \in sweepTodo : Cardinality(sweepTodo \ {m}) = Cardinality(sweepTodo) - 1
  BY <1>2, FS_RemoveElement
<1>4. \A m \in sweepTodo : Cardinality(sweepTodo \ {m}) \in Nat
  BY <1>2, FS_RemoveElement, FS_CardinalityType
<1> QED BY <1>2, <1>3, <1>4

\* What is left is a number.
LEMMA LeftIsCounted ==
  TypeOK /\ SweepPlace =>
    AnswersLeft \in 0..(2 * Cardinality(Mint)) /\ PassesLeft \in 0..3
<1> SUFFICES ASSUME TypeOK, SweepPlace
             PROVE  AnswersLeft \in 0..(2 * Cardinality(Mint)) /\ PassesLeft \in 0..3
  OBVIOUS
<1>1. PassesLeft \in 0..3
  BY DEF PassesLeft, TypeOK, SweepTypeOK
<1>2. PICK n \in Nat : n = Cardinality(Mint)
  BY TodoCounts
<1>3. PICK c \in 0..n : c = Cardinality(sweepTodo)
  BY <1>2, TodoCounts
<1>4. sweepHit # None => c >= 1
  BY <1>3, TodoCounts DEF SweepPlace
<1>5. AnswersLeft \in 0..(2 * n)
  BY <1>3, <1>4 DEF AnswersLeft
<1> QED BY <1>1, <1>2, <1>5

\* Within a pass every step of the sweeper leaves it less to do.
LEMMA AnswersRunOut ==
  ASSUME TypeOK, SweepPlace,
         \/ \E m \in sweepTodo : SweepReadsZero(m) \/ SweepKeeps(m)
         \/ SweepBasic \/ SweepFull \/ SweepManager
  PROVE  AnswersLeft' < AnswersLeft /\ sweepPhase' = sweepPhase
<1>1. PICK c \in Nat : c = Cardinality(sweepTodo)
  BY TodoCounts
<1>n. \A m \in sweepTodo : m # None
  BY ConstantsAssumption DEF TypeOK, SweepTypeOK
<1>2. ASSUME NEW m \in sweepTodo, SweepReadsZero(m)
      PROVE  AnswersLeft' < AnswersLeft /\ sweepPhase' = sweepPhase
  <2>1. sweepHit = None /\ sweepHit' # None /\ sweepTodo' = sweepTodo /\ sweepPhase' = sweepPhase
    BY <1>n, <1>2 DEF SweepReadsZero
  <2> QED BY <1>1, <2>1 DEF AnswersLeft
<1>3. ASSUME NEW m \in sweepTodo, SweepKeeps(m)
      PROVE  AnswersLeft' < AnswersLeft /\ sweepPhase' = sweepPhase
  <2>1. /\ sweepHit = None /\ sweepHit' = None /\ sweepPhase' = sweepPhase
        /\ Cardinality(sweepTodo') = c - 1
    BY <1>1, <1>3, TodoCounts DEF SweepKeeps
  <2> QED BY <1>1, <2>1 DEF AnswersLeft
<1>4. ASSUME SweepBasic \/ SweepFull \/ SweepManager
      PROVE  AnswersLeft' < AnswersLeft /\ sweepPhase' = sweepPhase
  <2>1. /\ sweepHit # None /\ sweepHit' = None /\ sweepPhase' = sweepPhase
        /\ sweepTodo' = sweepTodo \ {sweepHit}
    BY <1>4 DEF SweepBasic, SweepFull, SweepManager, SweepNextToken
  <2>2. Cardinality(sweepTodo') = c - 1
    BY <1>1, <2>1, TodoCounts DEF SweepPlace
  <2> QED BY <1>1, <2>1, <2>2 DEF AnswersLeft
<1> QED BY <1>2, <1>3, <1>4

\* A cycle of the sweeper has an end, whatever the RPCs answer and whatever the
\* other tasks put into the maps meanwhile: every step it makes between two ticks
\* of its timer leaves it fewer, and no step of anybody else leaves it more
\* (fr_launch_enhanced_selling_monitor goes by snapshots of the maps).
THEOREM CyclesEnd ==
  Spec => [][/\ SweepStep /\ sweepPhase # "idle" => SweepLeft' \in 0..(SweepLeft - 1)
             /\ ~SweepStep => SweepLeft' = SweepLeft]_vars
<1>1. ASSUME TypeOK, SweepPlace, TypeOK', SweepPlace', SweepStep, sweepPhase # "idle"
      PROVE  SweepLeft' \in 0..(SweepLeft - 1)
  <2>1. PICK n \in Nat : n = Cardinality(Mint)
    BY <1>1, TodoCounts
  <2>2. PICK a \in 0..(2 * n), p \in 0..3 : a = AnswersLeft /\ p = PassesLeft
    BY <1>1, <2>1, LeftIsCounted
  <2>3. PICK b \in 0..(2 * n), q \in 0..3 : b = AnswersLeft' /\ q = PassesLeft'
    <3>1. (TypeOK /\ SweepPlace =>
            AnswersLeft \in 0..(2 * Cardinality(Mint)) /\ PassesLeft \in 0..3)'
      BY LeftIsCounted, PTL
    <3> QED BY <1>1, <2>1, <3>1
  <2>4. SweepLeft = p * (2 * n + 1) + a /\ SweepLeft' = q * (2 * n + 1) + b
    BY <2>1, <2>2, <2>3 DEF SweepLeft
  <2>5. (q = p /\ b < a) \/ q < p
    <3>1. CASE SweepPassEnds
      <4>1. PassesLeft' < PassesLeft
        BY <1>1, <3>1 DEF SweepPassEnds, SweepStart, SweepCycleEnds, PassesLeft
      <4> QED BY <2>2, <2>3, <4>1
    <3>2. CASE ~SweepPassEnds
      <4>1. AnswersLeft' < AnswersLeft /\ sweepPhase' = sweepPhase
        BY <1>1, <3>2, AnswersRunOut DEF SweepStep, SweepTick
      <4> QED BY <2>2, <2>3, <4>1 DEF PassesLeft
    <3> QED BY <3>1, <3>2
  <2>6. CASE q = p /\ b < a
    BY <2>4, <2>6
  <2>7. CASE q < p
    <3>1. (q + 1) * (2 * n + 1) <= p * (2 * n + 1)
      BY <2>7
    <3> QED BY <2>4, <3>1
  <2> QED BY <2>5, <2>6, <2>7
<1>2. ASSUME [Next]_vars, ~SweepStep PROVE SweepLeft' = SweepLeft
  BY <1>2, OthersLeaveSweeper DEF sweepVars, SweepLeft, PassesLeft, AnswersLeft
<1>3. TypeOK /\ SweepPlace /\ TypeOK' /\ SweepPlace' /\ [Next]_vars =>
        [/\ SweepStep /\ sweepPhase # "idle" => SweepLeft' \in 0..(SweepLeft - 1)
         /\ ~SweepStep => SweepLeft' = SweepLeft]_vars
  BY <1>1, <1>2
<1> QED BY <1>3, Typing, SweepPlaceInvariant, PTL DEF Spec
-----------------------------------------------------------------------------
(* Sniper buys: the configuration guard lets no two of them overlap *)

NoOverlap == contested = {}

\* fr_execute_sniper_buy runs under the guard of the global configuration: when
\* only it calls fr_execute_buy, no token goes astray for a second buy beside the
\* first one, for any number of handlers.
THEOREM SniperBuysNeverOverlap == ASSUME Entry = "sniper" PROVE Spec => []NoOverlap
<1>1. Init => NoOverlap
  BY DEF Init, NoOverlap
<1>2. NoOverlap /\ [Next]_vars => NoOverlap'
  <2> SUFFICES ASSUME NoOverlap, [Next]_vars PROVE NoOverlap'
    OBVIOUS
  <2>1. ASSUME NEW t \in BuyTask, NEW m \in Mint, BeginSniperBuy(t, m) PROVE NoOverlap'
    <3>1. \A u \in BuyTask : ~Executing(u)
      BY Entry = "sniper", <2>1 DEF BeginSniperBuy, ConfigGuardFree, Executing
    <3> QED BY <2>1, <3>1 DEF NoOverlap, BeginSniperBuy, BeginBuy
  <2>2. ASSUME NEW t \in BuyTask, NEW m \in Mint, BeginCopyBuy(t, m) PROVE NoOverlap'
    BY Entry = "sniper", <2>2 DEF BeginCopyBuy
  <2>3. CASE UNCHANGED contested
    BY <2>3 DEF NoOverlap
  <2>4. \/ \E t \in BuyTask, m \in Mint : BeginSniperBuy(t, m) \/ BeginCopyBuy(t, m)
        \/ UNCHANGED contested
    BY DEF Next, ProcessStep, ChainStep, vars, historyVars, BuyStep, BuyProgress, BuyNotSent,
       BuySent, BuySentButErr, VerifyBuyOk, VerifyBuyErr, BookBuy, MonitorStep, MonitorConnects,
       MonitorStops, MonitorMessage, SellStep, SellDetect, SellDetectWhale, SellUrgent,
       SellEvaluate, SellBalance, SellSend, SellCancelMonitoring, SweepStep, SweepTick,
       SweepReadsZero, SweepKeeps, SweepBasic, SweepFull, SweepManager, SweepPassEnds,
       DispatcherStops, BuyLands, BuyFails, SaleLands, SaleFails
  <2> QED BY <2>1, <2>2, <2>3, <2>4
<1> QED BY <1>1, <1>2, PTL DEF Spec

\* A token in the wallet is listed or its buy is being verified, or a buy of it
\* returned Err although it was broadcast; a taken slot is a registered token,
\* listed unless a trade was misread as one of it; and a monitor that is not
\* registered has been cancelled.
BooksKept ==
  /\ \A m \in Mint : wallet[m] > 0 =>
       \/ m \in BOUGHT_TOKEN_LIST
       \/ \E t \in BuyTask : buyPc[t] = "verifying" /\ buyMint[t] = m
       \/ m \in unverified
  /\ \A m \in TOKEN_TRACKING :
       MONITORING_TASKS[m] # None /\ m \in BOUGHT_TOKEN_LIST \cup misread
  /\ \A k \in Monitor : monPc[k] # "off" =>
       MONITORING_TASKS[monMint[k]] = k \/ k \in cancelled

\* A sniper-only engine keeps its books without the exceptions for overlapping
\* buys: what is left is the buy whose answer was lost (sniper-bot.rs:680), and the
\* unlisted slot of a token that another's trade was read as (sniper-bot.rs:4064).
THEOREM SniperKeepsBooks == ASSUME Entry = "sniper" PROVE Spec => []BooksKept
<1>1. PositionInv /\ WatchInv /\ NoOverlap => BooksKept
  BY DEF PositionInv, WatchInv, OnlyUnverifiedBuysEscape, TrackedIsMonitoredAndListed,
         OneMonitorPerToken, NoOverlap, BooksKept
<1>2. Spec => []NoOverlap
  BY Entry = "sniper", SniperBuysNeverOverlap
<1> QED BY <1>1, <1>2, PositionInvariant, WatchInvariant, PTL
=============================================================================
