-------------------------- MODULE SwapBuild_proofs --------------------------
(* Theorems about SwapBuild, for any number of orders and every pool. *)
EXTENDS SwapBuild, TLAPS

\* Between two runs nothing is left of the first but what it sent.
Stopped ==
  ~ running => /\ WALLET_TOKEN_ACCOUNTS = {}
               /\ \A b \in Builder : pc[b] \in {"idle", "orphan"}

\* An account is on the list as soon as a transaction that opens it is built.
CreatorListed ==
  \A b \in Builder, a \in Account :
    pc[b] = "pending" /\ Creator(b, a) => a \in WALLET_TOKEN_ACCOUNTS

\* Two that open the same account come from orders that checked at once.
OneCreator ==
  \A b, c \in Builder, a \in Account :
    /\ b # c /\ pc[b] = "pending" /\ pc[c] = "pending"
    /\ Creator(b, a) /\ Creator(c, a)
    => a \in doubled

\* A creation that must fail is of an account the list did not have.
CreatesUnknown ==
  \A b \in Builder :
    pc[b] = "pending" => tx[b].creates \cap accounts \subseteq unlisted \cup doubled

\* What a checked order is not to create is on the list.
CheckedIsListed ==
  \A b \in Builder :
    pc[b] = "checked" =>
      /\ "token" \in missing[b] \cup WALLET_TOKEN_ACCOUNTS
      /\ job[b].dex = "RaydiumLaunchpad" =>
           "wsol" \in missing[b] \cup WALLET_TOKEN_ACCOUNTS

\* What a buy needs and does not open was on the list when it was built.
NeedsAreListed ==
  \A b \in Builder :
    LET t == tx[b] IN
    pc[b] = "pending" /\ t.swap = "buy" =>
      \A a \in Needs(t) \ (t.creates \cup t.ensures) :
        a \in WALLET_TOKEN_ACCOUNTS \/ (a = "wsol" /\ t.dex = "PumpSwap")

ListInv ==
  /\ Stopped /\ CreatorListed /\ OneCreator /\ CreatesUnknown
  /\ CheckedIsListed /\ NeedsAreListed
  /\ KnownIsThere /\ ThereIsKnown

\* The time an account read for a PumpSwap sale has lain about.
AgeInv ==
  /\ \A e \in FR_TOKEN_ACCOUNT_CACHE : e.left >= -1 /\ e.age + e.left <= Ttl + RpcTicks
  /\ \A b \in Builder :
       /\ IF Waiting(b) THEN waited[b] <= RpcTicks ELSE waited[b] = 0
       /\ pc[b] = "read" => read[b].age <= waited[b]
       /\ pc[b] = "joined" => read[b].age <= Ttl + RpcTicks + waited[b]

\* The shapes of sales.
SaleInv ==
  \A b \in Builder :
    Sent(b) => /\ tx[b].swap = "sell" => tx[b].creates = {}
               /\ tx[b].close = "before" => tx[b].dex = "PumpSwap" /\ tx[b].swap = "sell"
               /\ tx[b].close = "after" => tx[b].dex = "PumpFun"
-----------------------------------------------------------------------------
(* Types *)

\* Division rounds down.
LEMMA DivRoundsDown ==
  ASSUME NEW n \in Nat, NEW d \in Nat \ {0}
  PROVE  n \div d \in Nat /\ (n \div d) * d <= n
BY Z3

\* Products compare factor by factor.
LEMMA FactorLess ==
  ASSUME NEW q \in Nat, NEW k \in Nat, NEW d \in Nat, q * d < k * d
  PROVE  q < k
<1> SUFFICES ASSUME k <= q PROVE FALSE
  OBVIOUS
<1>1. k * d <= q * d
  BY Z3
<1> QED BY <1>1

\* A buy never asks for all the tokens of the pool.
LEMMA TokensOutBounds ==
  ASSUME NEW sol \in Nat, NEW r \in Nat \X Nat
  PROVE  /\ TokensOut(sol, r) \in Nat
         /\ r[2] > 0 => TokensOut(sol, r) < r[2]
<1> DEFINE n == sol * r[2]
           d == r[1] + sol
<1>1. CASE sol = 0 \/ r[1] = 0 \/ r[2] = 0
  BY <1>1 DEF TokensOut
<1>2. CASE ~ (sol = 0 \/ r[1] = 0 \/ r[2] = 0)
  <2>1. n \in Nat /\ d \in Nat \ {0} /\ r[2] \in Nat \ {0} /\ r[1] \in Nat \ {0}
    BY <1>2
  <2>2. n < r[2] * d
    <3>1. r[2] * d = n + r[2] * r[1] /\ r[2] * r[1] > 0
      BY <1>2, <2>1, Z3
    <3> HIDE DEF n, d
    <3> QED BY <2>1, <3>1
  <2>3. n \div d \in Nat /\ n \div d < r[2]
    <3> HIDE DEF n, d
    <3>1. n \div d \in Nat /\ (n \div d) * d <= n
      BY <2>1, DivRoundsDown
    <3>2. (n \div d) * d \in Int /\ r[2] * d \in Int
      BY <2>1, <3>1
    <3>3. (n \div d) * d < r[2] * d
      BY <2>1, <2>2, <3>1, <3>2
    <3> QED BY <2>1, <3>1, <3>3, FactorLess
  <2> QED BY <1>2, <2>3 DEF TokensOut
<1> QED BY <1>1, <1>2

\* What a sale asks for is a number.
LEMMA SaleAmount ==
  ASSUME NEW n \in Nat, NEW portion \in {"full", "half"}
  PROVE  Portion(portion, n) \in Nat /\ AtLeastOne(Portion(portion, n)) \in Nat
BY DEF Portion, AtLeastOne

\* An order's end, or its transaction, keeps the types.
LEMMA FreeTypes ==
  ASSUME TypeOK, NEW b \in Builder, NEW state \in {"idle", "pending"}, Free(b, state),
         NEW t \in Tx, tx' = tx \/ tx' = [tx EXCEPT ![b] = t]
  PROVE  /\ pc' \in [Builder -> {"idle", "checked", "fetching", "read", "joined",
                                 "pending", "orphan"}]
         /\ job' \in [Builder -> Job] /\ missing' \in [Builder -> SUBSET Account]
         /\ read' \in [Builder -> Read] /\ waited' \in [Builder -> Nat]
         /\ tx' \in [Builder -> Tx]
<1>1. NoJob \in Job /\ NoRead \in Read
  BY DEF NoJob, NoRead, Job, Dex, Read
<1> QED BY <1>1 DEF Free, TypeOK

LEMMA NoTxType == NoTx \in Tx
BY DEF NoTx, Tx, Dex

LEMMA InitTypes == Init => TypeOK
<1>1. NoJob \in Job /\ NoRead \in Read
  BY DEF NoJob, NoRead, Job, Dex, Read
<1>2. ASSUME Init PROVE accounts \subseteq Account /\ tokens \in 0..MaxTokens
  BY <1>2, SwapBuildAssumption DEF Init, Account
<1>3. ASSUME Init
      PROVE  /\ pc \in [Builder -> {"idle", "checked", "fetching", "read", "joined",
                                   "pending", "orphan"}]
             /\ job \in [Builder -> Job] /\ missing \in [Builder -> SUBSET Account]
             /\ read \in [Builder -> Read] /\ waited \in [Builder -> Nat]
             /\ tx \in [Builder -> Tx]
  BY <1>1, <1>3, NoTxType DEF Init
<1>4. ASSUME Init
      PROVE  /\ venue \in {"pump", "launchpad"} /\ running \in BOOLEAN
             /\ WALLET_TOKEN_ACCOUNTS = {} /\ FR_TOKEN_ACCOUNT_CACHE = {}
             /\ gone = {} /\ unlisted = {} /\ doubled = {}
  BY <1>4 DEF Init
<1> QED BY <1>2, <1>3, <1>4 DEF TypeOK

\* An order checks its accounts.
LEMMA CheckTypes ==
  ASSUME TypeOK, NEW b \in Builder, NEW j \in Job, NEW needed \in SUBSET Account,
         NEW found \in SUBSET Account, Check(b, j, needed, found)
  PROVE  TypeOK'
BY DEF Check, OffList, TypeOK, chainVars, historyVars

\* An order's transaction is built.
LEMMA BuiltTypes ==
  ASSUME TypeOK, NEW b \in Builder, NEW dex \in Dex, Checked(b, dex),
         NEW t \in Tx, Built(b, t) \/ BuildErr(b), gone' \subseteq Account
  PROVE  TypeOK'
<1>1. WALLET_TOKEN_ACCOUNTS' \subseteq Account /\ doubled' \subseteq Account
  BY DEF Checked, ListMissing, TypeOK
<1>2. UNCHANGED <<venue, running, FR_TOKEN_ACCOUNT_CACHE, accounts, tokens, unlisted>>
  BY DEF Checked, chainVars
<1> QED BY <1>1, <1>2, FreeTypes DEF Built, BuildErr, TypeOK

\* A sale's transaction is built or given up.
LEMMA SaleTypes ==
  ASSUME TypeOK, NEW b \in Builder, NEW t \in Tx, Built(b, t) \/ BuildErr(b),
         UNCHANGED <<venue, running, cacheVars, chainVars, historyVars>>
  PROVE  TypeOK'
BY FreeTypes DEF Built, BuildErr, TypeOK, cacheVars, chainVars, historyVars

LEMMA BuyStepTypes ==
  ASSUME TypeOK, NEW b \in Builder, BuyStep(b)
  PROVE  TypeOK'
<1> USE DEF Dex
<1>1. ASSUME NEW j \in Job, NEW needed \in SUBSET Account, NEW found \in Found(needed),
             Check(b, j, needed, found)
      PROVE  TypeOK'
  <2>1. found \in SUBSET Account
    BY <1>1 DEF Found
  <2> QED BY <1>1, <2>1, CheckTypes
<1>2. CASE PumpFunBuyChecks(b)
  <2>1. [NoJob EXCEPT !.dex = "PumpFun"] \in Job /\ {"token"} \in SUBSET Account
        /\ {} \in SUBSET Account
    BY DEF NoJob, Job, Account
  <2> QED BY <1>2, <2>1, CheckTypes DEF PumpFunBuyChecks
<1>3. CASE PumpSwapBuyChecks(b)
  <2>1. [NoJob EXCEPT !.dex = "PumpSwap"] \in Job /\ {"token"} \in SUBSET Account
    BY DEF NoJob, Job, Account
  <2> QED BY <1>1, <1>3, <2>1 DEF PumpSwapBuyChecks
<1>4. CASE RaydiumChecks(b)
  <2>1. PICK side \in {"buy", "sell"}, portion \in {"full", "half"}, found \in Found(Account) :
          Check(b, [dex |-> "RaydiumLaunchpad", side |-> side, portion |-> portion],
                Account, found)
    BY <1>4 DEF RaydiumChecks
  <2>2. [dex |-> "RaydiumLaunchpad", side |-> side, portion |-> portion] \in Job
        /\ Account \in SUBSET Account
    BY DEF Job
  <2> QED BY <1>1, <2>1, <2>2
<1>5. missing[b] \in SUBSET Account /\ gone \in SUBSET Account /\ tokens \in Nat
      /\ job[b].side \in {"buy", "sell"} /\ job[b].portion \in {"full", "half"}
  BY SwapBuildAssumption DEF TypeOK, Job
<1>6. ASSUME NEW r \in Reserves PROVE TokensOut(Lamports, r) \in Nat
  BY SwapBuildAssumption, TokensOutBounds
<1>7. CASE PumpFunBuyBuilt(b)
  <2>1. PICK r \in Reserves :
          Built(b, [NoTx EXCEPT !.dex = "PumpFun", !.creates = missing[b],
                     !.swap = IF TokensOut(Lamports, r) > 0 THEN "buy" ELSE "none",
                     !.amount = TokensOut(Lamports, r)])
    BY <1>7 DEF PumpFunBuyBuilt
  <2>2. [NoTx EXCEPT !.dex = "PumpFun", !.creates = missing[b],
           !.swap = IF TokensOut(Lamports, r) > 0 THEN "buy" ELSE "none",
           !.amount = TokensOut(Lamports, r)] \in Tx
    BY <1>5, <1>6 DEF NoTx, Tx
  <2>3. Checked(b, "PumpFun") /\ gone' \subseteq Account
    BY <1>5, <1>7 DEF PumpFunBuyBuilt
  <2> QED BY <2>1, <2>2, <2>3, BuiltTypes
<1>8. CASE PumpSwapBuyBuilt(b)
  <2>1. PICK r \in Reserves :
          Built(b, [NoTx EXCEPT !.dex = "PumpSwap", !.ensures = missing[b],
                                !.swap = "buy", !.amount = TokensOut(Lamports, r)])
    BY <1>8 DEF PumpSwapBuyBuilt
  <2>2. [NoTx EXCEPT !.dex = "PumpSwap", !.ensures = missing[b],
                     !.swap = "buy", !.amount = TokensOut(Lamports, r)] \in Tx
    BY <1>5, <1>6 DEF NoTx, Tx
  <2>3. Checked(b, "PumpSwap") /\ gone' \subseteq Account
    BY <1>5, <1>8 DEF PumpSwapBuyBuilt
  <2> QED BY <2>1, <2>2, <2>3, BuiltTypes
<1>9. CASE RaydiumBuilt(b)
  <2> DEFINE n == IF job[b].side = "buy"
                    THEN 1 ELSE AtLeastOne(Portion(job[b].portion, tokens))
             t == [NoTx EXCEPT !.dex = "RaydiumLaunchpad", !.ensures = missing[b],
                               !.swap = job[b].side, !.amount = n]
  <2>1. n \in Nat
    BY <1>5, SaleAmount
  <2>2. t \in Tx
    <3> HIDE DEF n
    <3> QED BY <1>5, <2>1 DEF NoTx, Tx
  <2>3. Checked(b, "RaydiumLaunchpad") /\ gone' \subseteq Account /\ Built(b, t)
    BY <1>5, <1>9 DEF RaydiumBuilt
  <2> HIDE DEF t
  <2> QED BY <2>2, <2>3, BuiltTypes
<1>10. CASE CheckedErr(b)
  <2>1. PICK dex \in Dex : Checked(b, dex)
    BY <1>10 DEF CheckedErr
  <2>2. BuildErr(b) /\ gone' \subseteq Account
    BY <1>5, <1>10 DEF CheckedErr
  <2> QED BY <2>1, <2>2, NoTxType, BuiltTypes
<1> QED BY <1>2, <1>3, <1>4, <1>7, <1>8, <1>9, <1>10 DEF BuyStep

LEMMA SellStepTypes ==
  ASSUME TypeOK, NEW b \in Builder, SellStep(b)
  PROVE  TypeOK'
<1> USE DEF Dex
<1>1. tokens \in Nat /\ read[b].amount \in Nat /\ job[b].portion \in {"full", "half"}
  BY SwapBuildAssumption DEF TypeOK, Job, Read
<1>2. CASE PumpFunSells(b)
  <2>1. PICK portion \in {"full", "half"} :
          Built(b, [NoTx EXCEPT !.dex = "PumpFun", !.swap = "sell",
                                !.amount = AtLeastOne(Portion(portion, tokens)),
                                !.close = ClosedLast(portion)])
    BY <1>2 DEF PumpFunSells
  <2>2. [NoTx EXCEPT !.dex = "PumpFun", !.swap = "sell",
                     !.amount = AtLeastOne(Portion(portion, tokens)),
                     !.close = ClosedLast(portion)] \in Tx
    BY <1>1, SaleAmount DEF NoTx, Tx, ClosedLast
  <2> QED BY <1>2, <2>1, <2>2, SaleTypes DEF PumpFunSells
<1>3. CASE PumpSwapSellBegins(b)
  <2>1. WALLET_TOKEN_ACCOUNTS' \subseteq Account
    BY <1>3 DEF PumpSwapSellBegins, TypeOK, Account
  <2>2. job' \in [Builder -> Job]
    BY <1>3 DEF PumpSwapSellBegins, TypeOK, Job
  <2>3. Fetched \subseteq Read
    BY DEF Fetched, TypeOK, Read
  <2>4. read' \in [Builder -> Read]
        /\ pc' \in [Builder -> {"idle", "checked", "fetching", "read", "joined",
                                "pending", "orphan"}]
    BY <1>3, <2>3 DEF PumpSwapSellBegins, TypeOK
  <2>5. UNCHANGED <<venue, running, FR_TOKEN_ACCOUNT_CACHE, missing, waited, tx,
                    accounts, tokens, gone, unlisted, doubled>>
    BY <1>3 DEF PumpSwapSellBegins, chainVars, historyVars
  <2> QED BY <2>1, <2>2, <2>4, <2>5 DEF TypeOK
<1>4. CASE RpcReads(b)
  BY <1>1, <1>4 DEF RpcReads, TypeOK, Read, cacheVars, chainVars, historyVars
<1>5. CASE AccountInfoCached(b)
  <2>1. FR_TOKEN_ACCOUNT_CACHE' = {Entry(read[b])}
    BY <1>5 DEF AccountInfoCached, Inserted
  <2>2. Entry(read[b]) \in [amount : Nat, age : Nat, left : Int]
    BY SwapBuildAssumption DEF Entry, TypeOK, Read
  <2>3. pc' \in [Builder -> {"idle", "checked", "fetching", "read", "joined",
                            "pending", "orphan"}]
    BY <1>5 DEF AccountInfoCached, TypeOK
  <2>4. UNCHANGED <<venue, running, WALLET_TOKEN_ACCOUNTS, job, missing, read, waited, tx,
                    accounts, tokens, gone, unlisted, doubled>>
    BY <1>5 DEF AccountInfoCached, chainVars, historyVars
  <2> QED BY <2>1, <2>2, <2>3, <2>4 DEF TypeOK
<1>6. CASE PumpSwapSellBuilt(b)
  <2> DEFINE n == Portion(job[b].portion, read[b].amount)
             t == [NoTx EXCEPT !.dex = "PumpSwap", !.swap = "sell", !.amount = n,
                               !.close = ClosedFirst(job[b].portion)]
  <2>1. n \in Nat
    BY <1>1, SaleAmount
  <2>2. t \in Tx
    <3> HIDE DEF n
    <3> QED BY <2>1 DEF NoTx, Tx, ClosedFirst
  <2>3. Built(b, t)
    BY <1>6 DEF PumpSwapSellBuilt
  <2> HIDE DEF t
  <2> QED BY <1>6, <2>2, <2>3, SaleTypes DEF PumpSwapSellBuilt
<1>7. CASE PumpSwapSellErr(b)
  BY <1>7, NoTxType, SaleTypes DEF PumpSwapSellErr
<1> QED BY <1>2, <1>3, <1>4, <1>5, <1>6, <1>7 DEF SellStep

LEMMA ChainStepTypes ==
  ASSUME TypeOK, NEW b \in Builder, TxExecutes(b) \/ TxLost(b)
  PROVE  TypeOK'
<1>1. Opened(tx[b]) \subseteq Account /\ tx[b].amount \in Nat /\ tokens \in 0..MaxTokens
      /\ tx[b].swap \in {"none", "buy", "sell"} /\ MaxTokens \in Nat
      /\ tx[b].creates \subseteq Account /\ tx[b].ensures \subseteq Account
  BY SwapBuildAssumption DEF TypeOK, Tx, Opened
<1>2. pc' \in [Builder -> {"idle", "checked", "fetching", "read", "joined",
                          "pending", "orphan"}]
      /\ tx' \in [Builder -> Tx]
  BY NoTxType DEF TxExecutes, TxLost, TxDone, TypeOK
<1>3. CASE TxExecutes(b)
  <2>1. accounts' \subseteq Account /\ gone' \subseteq Account /\ unlisted' \subseteq Account
    BY <1>1, <1>3 DEF TxExecutes, Gone, Foreign, TypeOK
  <2>2. ASSUME NEW n \in Received(tx[b]) PROVE n \in Nat
    BY <1>1, <2>2 DEF Received
  <2>3. tokens' \in 0..MaxTokens
    <3>1. CASE tx[b].swap = "none"
      BY <1>1, <1>3, <3>1 DEF TxExecutes
    <3>2. CASE tx[b].swap = "sell"
      BY <1>1, <1>3, <3>2 DEF TxExecutes, Lands
    <3>3. CASE tx[b].swap = "buy"
      BY <1>1, <1>3, <2>2, <3>3 DEF TxExecutes
    <3> QED BY <1>1, <3>1, <3>2, <3>3
  <2>4. UNCHANGED <<venue, running, WALLET_TOKEN_ACCOUNTS, FR_TOKEN_ACCOUNT_CACHE, job,
                    missing, read, waited, doubled>>
    BY <1>3 DEF TxExecutes, cacheVars
  <2> QED BY <1>2, <2>1, <2>3, <2>4 DEF TypeOK
<1>4. CASE TxLost(b)
  <2>1. gone' \subseteq Account
    BY <1>1, <1>4 DEF TxLost, Gone, TypeOK
  <2>2. UNCHANGED <<venue, running, WALLET_TOKEN_ACCOUNTS, FR_TOKEN_ACCOUNT_CACHE, job,
                    missing, read, waited, accounts, tokens, unlisted, doubled>>
    BY <1>4 DEF TxLost, cacheVars, chainVars
  <2> QED BY <1>2, <2>1, <2>2 DEF TypeOK
<1> QED BY <1>3, <1>4

LEMMA TimeStepTypes ==
  ASSUME TypeOK, Tick \/ ClearExpired
  PROVE  TypeOK'
<1> USE DEF chainVars, historyVars, taskVars
<1>1. CASE Tick
  <2>1. ASSUME NEW e \in FR_TOKEN_ACCOUNT_CACHE
        PROVE  Aged(e) \in [amount : Nat, age : Nat, left : Int]
    <3>1. e \in [amount : Nat, age : Nat, left : Int]
      BY DEF TypeOK
    <3> QED BY <3>1 DEF Aged
  <2>2. FR_TOKEN_ACCOUNT_CACHE' \subseteq [amount : Nat, age : Nat, left : Int]
        /\ \A e, f \in FR_TOKEN_ACCOUNT_CACHE' : e = f
    BY <1>1, <2>1 DEF Tick, TypeOK
  <2>3. read' \in [Builder -> Read] /\ waited' \in [Builder -> Nat]
    BY <1>1 DEF Tick, TypeOK, Read
  <2> QED BY <1>1, <2>2, <2>3 DEF Tick, TypeOK
<1>2. CASE ClearExpired
  BY <1>2 DEF ClearExpired, TypeOK
<1> QED BY <1>1, <1>2

LEMMA HostStepTypes ==
  ASSUME TypeOK, HostStep
  PROVE  TypeOK'
<1> USE DEF cacheVars, chainVars, historyVars, taskVars
<1>1. CASE EngineStops
  <2>1. NoJob \in Job /\ NoRead \in Read
    BY DEF NoJob, NoRead, Job, Dex, Read
  <2>2. pc' \in [Builder -> {"idle", "checked", "fetching", "read", "joined",
                            "pending", "orphan"}]
        /\ tx' \in [Builder -> Tx]
    BY <1>1, NoTxType DEF EngineStops, TypeOK
  <2>3. job' \in [Builder -> Job] /\ missing' \in [Builder -> SUBSET Account]
        /\ read' \in [Builder -> Read] /\ waited' \in [Builder -> Nat]
    BY <1>1, <2>1 DEF EngineStops
  <2> QED BY <1>1, <2>2, <2>3 DEF EngineStops, TypeOK
<1>2. CASE EngineStarts
  BY <1>2 DEF EngineStarts, ListRead, TypeOK
<1>3. CASE WrapSol
  BY <1>3 DEF WrapSol, Gone, Foreign, TypeOK, Account
<1>4. CASE UnwrapSol
  BY <1>4 DEF UnwrapSol, Gone, TypeOK
<1>5. CASE CloseAllTokenAccounts
  BY <1>5 DEF CloseAllTokenAccounts, Gone, TypeOK
<1> QED BY <1>1, <1>2, <1>3, <1>4, <1>5 DEF HostStep

LEMMA StepTypes == TypeOK /\ [Next]_vars => TypeOK'
<1>1. ASSUME TypeOK, UNCHANGED vars PROVE TypeOK'
  BY <1>1 DEF vars, cacheVars, taskVars, chainVars, historyVars, TypeOK
<1> QED BY <1>1, BuyStepTypes, SellStepTypes, ChainStepTypes, TimeStepTypes, HostStepTypes
     DEF Next

\* TypeOK holds in every reachable state; the cache never has two entries for
\* one account.
THEOREM BuildTyping == Spec => []TypeOK
BY InitTypes, StepTypes, PTL DEF Spec
-----------------------------------------------------------------------------
(* The list of token accounts *)

LEMMA InitList == Init => ListInv
BY DEF Init, ListInv, Stopped, CreatorListed, OneCreator, CreatesUnknown, CheckedIsListed,
   NeedsAreListed, KnownIsThere, ThereIsKnown, Creator, Sent

\* An order checks its accounts: the list grows by accounts that are there.
LEMMA CheckKeepsList ==
  ASSUME TypeOK, ListInv, NEW b \in Builder, NEW j, NEW needed, NEW found,
         found \subseteq accounts, "token" \in needed,
         j.dex = "RaydiumLaunchpad" => "wsol" \in needed,
         Check(b, j, needed, found)
  PROVE  ListInv'
<1> USE DEF Check, OffList, Idle, chainVars, historyVars
<1>1. UNCHANGED <<running, tx, accounts, tokens, gone, unlisted, doubled>>
      /\ WALLET_TOKEN_ACCOUNTS' = WALLET_TOKEN_ACCOUNTS \cup found
      /\ pc' = [pc EXCEPT ![b] = "checked"] /\ pc[b] = "idle" /\ running
  OBVIOUS
<1>2. ASSUME NEW c \in Builder
      PROVE  /\ pc'[c] = "pending" <=> pc[c] = "pending"
             /\ \A a \in Account : pc[c] = "pending" => (Creator(c, a)' <=> Creator(c, a))
  BY <1>1 DEF TypeOK, Creator, Sent
<1>3. Stopped' /\ CreatorListed' /\ OneCreator' /\ CreatesUnknown'
  BY <1>1, <1>2 DEF ListInv, Stopped, CreatorListed, OneCreator, CreatesUnknown
<1>4. CheckedIsListed'
  BY <1>1 DEF ListInv, CheckedIsListed, TypeOK
<1>5. NeedsAreListed'
  BY <1>1, <1>2 DEF ListInv, NeedsAreListed, Needs
<1>6. KnownIsThere'
  BY <1>1, <1>2 DEF ListInv, KnownIsThere, TypeOK, Account
<1>7. ThereIsKnown'
  BY <1>1 DEF ListInv, ThereIsKnown
<1> QED BY <1>3, <1>4, <1>5, <1>6, <1>7 DEF ListInv

\* An order goes on without opening accounts: sales.
LEMMA OrderKeepsList ==
  ASSUME TypeOK, ListInv, NEW b \in Builder,
         running, UNCHANGED <<running, accounts, gone, unlisted, doubled>>,
         WALLET_TOKEN_ACCOUNTS \subseteq WALLET_TOKEN_ACCOUNTS',
         WALLET_TOKEN_ACCOUNTS' \subseteq WALLET_TOKEN_ACCOUNTS \cup accounts,
         pc[b] # "pending", pc'[b] # "checked",
         pc'[b] = "pending" => /\ tx'[b].creates \cup tx'[b].ensures = {}
                               /\ tx'[b].swap = "sell",
         \A c \in Builder : c # b => /\ pc'[c] = pc[c] /\ tx'[c] = tx[c]
                                     /\ missing'[c] = missing[c] /\ job'[c] = job[c]
  PROVE  ListInv'
<1>1. ASSUME NEW c \in Builder, NEW a \in Account
      PROVE  pc'[c] = "pending" /\ Creator(c, a)' <=> pc[c] = "pending" /\ Creator(c, a)
  BY DEF Creator, Sent
<1>2. Stopped' /\ CreatorListed' /\ OneCreator'
  BY <1>1 DEF ListInv, Stopped, CreatorListed, OneCreator
<1>3. CreatesUnknown'
  BY DEF ListInv, CreatesUnknown
<1>4. CheckedIsListed'
  BY DEF ListInv, CheckedIsListed
<1>5. NeedsAreListed'
  BY DEF ListInv, NeedsAreListed, Needs
<1>6. WALLET_TOKEN_ACCOUNTS' \subseteq Account
  BY DEF TypeOK
<1>7. KnownIsThere'
  BY <1>1, <1>6 DEF ListInv, KnownIsThere
<1>8. ThereIsKnown'
  BY DEF ListInv, ThereIsKnown
<1> QED BY <1>2, <1>3, <1>4, <1>5, <1>7, <1>8 DEF ListInv

\* A builder lists what it is to create, and its transaction opens it.
LEMMA BuiltKeepsList ==
  ASSUME TypeOK, ListInv, NEW b \in Builder, NEW dex \in Dex, Checked(b, dex),
         NEW t \in Tx, Built(b, t), UNCHANGED gone,
         t.creates \cup t.ensures = missing[b], t.dex = dex
  PROVE  ListInv'
<1>1. /\ WALLET_TOKEN_ACCOUNTS' = WALLET_TOKEN_ACCOUNTS \cup missing[b]
      /\ doubled' = doubled \cup (missing[b] \cap WALLET_TOKEN_ACCOUNTS)
      /\ UNCHANGED <<running, accounts, gone, unlisted>> /\ running
      /\ pc[b] = "checked" /\ job[b].dex = dex /\ missing[b] \subseteq Account
  BY DEF Checked, ListMissing, chainVars, TypeOK
<1>2. /\ pc' \in [Builder -> {"idle", "checked", "fetching", "read", "joined",
                              "pending", "orphan"}]
      /\ pc'[b] = "pending" /\ tx'[b] = t
      /\ \A c \in Builder : c # b => /\ pc'[c] = pc[c] /\ tx'[c] = tx[c]
                                     /\ missing'[c] = missing[c] /\ job'[c] = job[c]
  BY DEF Built, Free, TypeOK
<1>3. ASSUME NEW c \in Builder, NEW a \in Account, c # b
      PROVE  pc'[c] = "pending" /\ Creator(c, a)' <=> pc[c] = "pending" /\ Creator(c, a)
  BY <1>2, <1>3 DEF Creator, Sent
<1>4. ASSUME NEW a \in Account
      PROVE  Creator(b, a)' <=> a \in missing[b]
  BY <1>2 DEF Creator, Sent
<1>5. Stopped' /\ CreatorListed'
  BY <1>1, <1>3, <1>4 DEF ListInv, Stopped, CreatorListed
<1>6. OneCreator'
  <2> SUFFICES ASSUME NEW c \in Builder, NEW d \in Builder, NEW a \in Account,
                      c # d, pc'[c] = "pending", pc'[d] = "pending",
                      Creator(c, a)', Creator(d, a)'
               PROVE  a \in doubled'
    BY DEF OneCreator
  <2>1. CASE c # b /\ d # b
    BY <1>1, <1>3, <2>1 DEF ListInv, OneCreator
  <2>2. CASE c = b
    BY <1>1, <1>3, <1>4, <2>2 DEF ListInv, CreatorListed
  <2>3. CASE d = b
    BY <1>1, <1>3, <1>4, <2>3 DEF ListInv, CreatorListed
  <2> QED BY <2>1, <2>2, <2>3
<1>7. CreatesUnknown'
  <2> SUFFICES ASSUME NEW c \in Builder, pc'[c] = "pending"
               PROVE  tx'[c].creates \cap accounts' \subseteq unlisted' \cup doubled'
    BY DEF CreatesUnknown
  <2>1. CASE c # b
    BY <1>1, <1>2, <2>1 DEF ListInv, CreatesUnknown
  <2>2. CASE c = b
    BY <1>1, <1>2, <2>2 DEF ListInv, ThereIsKnown
  <2> QED BY <2>1, <2>2
<1>8. CheckedIsListed'
  BY <1>1, <1>2 DEF ListInv, CheckedIsListed
<1>9. NeedsAreListed'
  <2> SUFFICES ASSUME NEW c \in Builder, pc'[c] = "pending", tx'[c].swap = "buy",
                      NEW a \in Needs(tx'[c]) \ (tx'[c].creates \cup tx'[c].ensures)
               PROVE  a \in WALLET_TOKEN_ACCOUNTS' \/ (a = "wsol" /\ tx'[c].dex = "PumpSwap")
    BY DEF NeedsAreListed, Needs
  <2>1. CASE c # b
    BY <1>1, <1>2, <2>1 DEF ListInv, NeedsAreListed, Needs
  <2>2. CASE c = b
    <3>1. a \in Account /\ (t.dex = "PumpFun" => a = "token")
      BY <1>2, <2>2 DEF Needs, Account
    <3>2. a \notin missing[b]
      BY <1>2, <2>2
    <3>3. "token" \in missing[b] \cup WALLET_TOKEN_ACCOUNTS
          /\ (dex = "RaydiumLaunchpad" => "wsol" \in missing[b] \cup WALLET_TOKEN_ACCOUNTS)
      BY <1>1 DEF ListInv, CheckedIsListed
    <3> QED BY <1>1, <1>2, <2>2, <3>1, <3>2, <3>3 DEF Account, Dex
  <2> QED BY <2>1, <2>2
<1>10. KnownIsThere'
  <2> SUFFICES ASSUME NEW a \in WALLET_TOKEN_ACCOUNTS' \ accounts'
               PROVE  \/ a \in gone'
                      \/ \E c \in Builder : pc'[c] = "pending" /\ Creator(c, a)'
    BY DEF KnownIsThere
  <2>1. a \in Account
    BY <1>1 DEF TypeOK
  <2>2. CASE a \in missing[b]
    BY <1>2, <1>4, <2>1, <2>2
  <2>3. CASE a \notin missing[b]
    <3>1. a \in gone \/ \E c \in Builder : pc[c] = "pending" /\ Creator(c, a)
      BY <1>1, <2>3 DEF ListInv, KnownIsThere
    <3> QED BY <1>1, <1>3, <2>1, <3>1
  <2> QED BY <2>2, <2>3
<1>11. ThereIsKnown'
  BY <1>1 DEF ListInv, ThereIsKnown
<1> QED BY <1>5, <1>6, <1>7, <1>8, <1>9, <1>10, <1>11 DEF ListInv

\* A builder that fails after the listing leaves accounts on the list that
\* nothing opens.
LEMMA CheckedErrKeepsList ==
  ASSUME TypeOK, ListInv, NEW b \in Builder, CheckedErr(b)
  PROVE  ListInv'
<1>1. /\ WALLET_TOKEN_ACCOUNTS' = WALLET_TOKEN_ACCOUNTS \cup missing[b]
      /\ doubled' = doubled \cup (missing[b] \cap WALLET_TOKEN_ACCOUNTS)
      /\ UNCHANGED <<running, accounts, unlisted, tx>> /\ running
      /\ gone' = (gone \cup missing[b]) \ accounts /\ pc[b] = "checked"
  BY DEF CheckedErr, Checked, ListMissing, chainVars, BuildErr
<1>2. /\ pc'[b] = "idle"
      /\ \A c \in Builder : c # b => /\ pc'[c] = pc[c]
                                     /\ missing'[c] = missing[c] /\ job'[c] = job[c]
  BY DEF CheckedErr, BuildErr, Free, TypeOK
<1>3. ASSUME NEW c \in Builder, NEW a \in Account
      PROVE  pc'[c] = "pending" /\ Creator(c, a)' <=> pc[c] = "pending" /\ Creator(c, a)
  BY <1>1, <1>2 DEF Creator, Sent
<1>4. Stopped' /\ CreatorListed' /\ OneCreator'
  BY <1>1, <1>3 DEF ListInv, Stopped, CreatorListed, OneCreator
<1>5. CreatesUnknown' /\ CheckedIsListed'
  BY <1>1, <1>2 DEF ListInv, CreatesUnknown, CheckedIsListed
<1>6. NeedsAreListed'
  BY <1>1, <1>2 DEF ListInv, NeedsAreListed, Needs
<1>7. WALLET_TOKEN_ACCOUNTS' \subseteq Account
  BY <1>1 DEF TypeOK
<1>8. KnownIsThere'
  BY <1>1, <1>3, <1>7 DEF ListInv, KnownIsThere
<1>9. ThereIsKnown'
  BY <1>1 DEF ListInv, ThereIsKnown
<1> QED BY <1>4, <1>5, <1>6, <1>8, <1>9 DEF ListInv

LEMMA BuyStepKeepsList ==
  ASSUME TypeOK, ListInv, NEW b \in Builder, BuyStep(b)
  PROVE  ListInv'
<1> USE DEF Dex
<1>1. CASE PumpFunBuyChecks(b)
  <2> DEFINE j == [NoJob EXCEPT !.dex = "PumpFun"]
  <2>1. j.dex = "PumpFun" /\ Check(b, j, {"token"}, {}) /\ {} \subseteq accounts
    BY <1>1 DEF NoJob, PumpFunBuyChecks
  <2> HIDE DEF j
  <2> QED BY <2>1, CheckKeepsList
<1>2. CASE PumpSwapBuyChecks(b)
  <2>1. [NoJob EXCEPT !.dex = "PumpSwap"].dex = "PumpSwap"
    BY DEF NoJob
  <2>2. PICK found \in Found({"token"}) :
          Check(b, [NoJob EXCEPT !.dex = "PumpSwap"], {"token"}, found)
    BY <1>2 DEF PumpSwapBuyChecks
  <2>3. found \subseteq accounts
    BY DEF Found
  <2> QED BY <2>1, <2>2, <2>3, CheckKeepsList
<1>3. CASE RaydiumChecks(b)
  <2>1. PICK side \in {"buy", "sell"}, portion \in {"full", "half"}, found \in Found(Account) :
          Check(b, [dex |-> "RaydiumLaunchpad", side |-> side, portion |-> portion],
                Account, found)
    BY <1>3 DEF RaydiumChecks
  <2>2. found \subseteq accounts /\ "token" \in Account /\ "wsol" \in Account
    BY DEF Found, Account
  <2> QED BY <2>1, <2>2, CheckKeepsList
<1>4. missing[b] \in SUBSET Account /\ tokens \in Nat /\ job[b].portion \in {"full", "half"}
      /\ job[b].side \in {"buy", "sell"}
  BY SwapBuildAssumption DEF TypeOK, Job
<1>5. ASSUME NEW r \in Reserves PROVE TokensOut(Lamports, r) \in Nat
  BY SwapBuildAssumption, TokensOutBounds
<1>6. CASE PumpFunBuyBuilt(b)
  <2>1. PICK r \in Reserves :
          Built(b, [NoTx EXCEPT !.dex = "PumpFun", !.creates = missing[b],
                     !.swap = IF TokensOut(Lamports, r) > 0 THEN "buy" ELSE "none",
                     !.amount = TokensOut(Lamports, r)])
    BY <1>6 DEF PumpFunBuyBuilt
  <2> DEFINE t == [NoTx EXCEPT !.dex = "PumpFun", !.creates = missing[b],
                     !.swap = IF TokensOut(Lamports, r) > 0 THEN "buy" ELSE "none",
                     !.amount = TokensOut(Lamports, r)]
  <2>2. t \in Tx /\ t.creates \cup t.ensures = missing[b] /\ t.dex = "PumpFun"
    BY <1>4, <1>5 DEF NoTx, Tx
  <2>3. Checked(b, "PumpFun") /\ UNCHANGED gone /\ Built(b, t)
    BY <1>6, <2>1 DEF PumpFunBuyBuilt
  <2> HIDE DEF t
  <2> QED BY <2>2, <2>3, BuiltKeepsList
<1>7. CASE PumpSwapBuyBuilt(b)
  <2>1. PICK r \in Reserves :
          Built(b, [NoTx EXCEPT !.dex = "PumpSwap", !.ensures = missing[b],
                                !.swap = "buy", !.amount = TokensOut(Lamports, r)])
    BY <1>7 DEF PumpSwapBuyBuilt
  <2> DEFINE t == [NoTx EXCEPT !.dex = "PumpSwap", !.ensures = missing[b],
                               !.swap = "buy", !.amount = TokensOut(Lamports, r)]
  <2>2. t \in Tx /\ t.creates \cup t.ensures = missing[b] /\ t.dex = "PumpSwap"
    BY <1>4, <1>5 DEF NoTx, Tx
  <2>3. Checked(b, "PumpSwap") /\ UNCHANGED gone /\ Built(b, t)
    BY <1>7, <2>1 DEF PumpSwapBuyBuilt
  <2> HIDE DEF t
  <2> QED BY <2>2, <2>3, BuiltKeepsList
<1>8. CASE RaydiumBuilt(b)
  <2> DEFINE n == IF job[b].side = "buy"
                    THEN 1 ELSE AtLeastOne(Portion(job[b].portion, tokens))
             t == [NoTx EXCEPT !.dex = "RaydiumLaunchpad", !.ensures = missing[b],
                               !.swap = job[b].side, !.amount = n]
  <2>1. n \in Nat
    BY <1>4, SaleAmount
  <2>2. t \in Tx /\ t.creates \cup t.ensures = missing[b] /\ t.dex = "RaydiumLaunchpad"
    <3> HIDE DEF n
    <3> QED BY <1>4, <2>1 DEF NoTx, Tx
  <2>3. Checked(b, "RaydiumLaunchpad") /\ UNCHANGED gone /\ Built(b, t)
    BY <1>8 DEF RaydiumBuilt
  <2> HIDE DEF t
  <2> QED BY <2>2, <2>3, BuiltKeepsList
<1>9. CASE CheckedErr(b)
  BY <1>9, CheckedErrKeepsList
<1> QED BY <1>1, <1>2, <1>3, <1>6, <1>7, <1>8, <1>9 DEF BuyStep

LEMMA SellStepKeepsList ==
  ASSUME TypeOK, ListInv, NEW b \in Builder, SellStep(b)
  PROVE  ListInv'
<1> USE DEF cacheVars, chainVars, historyVars
<1>1. ASSUME NEW t, t.creates \cup t.ensures = {}, t.swap = "sell",
             Built(b, t), running, pc[b] # "pending",
             UNCHANGED <<venue, running, cacheVars, chainVars, historyVars>>
      PROVE  ListInv'
  <2>1. /\ pc'[b] = "pending" /\ tx'[b] = t
        /\ \A c \in Builder : c # b => /\ pc'[c] = pc[c] /\ tx'[c] = tx[c]
                                       /\ missing'[c] = missing[c] /\ job'[c] = job[c]
    BY <1>1 DEF Built, Free, TypeOK
  <2> QED BY <1>1, <2>1, OrderKeepsList
<1>2. CASE PumpFunSells(b)
  <2>1. PICK portion \in {"full", "half"} :
          Built(b, [NoTx EXCEPT !.dex = "PumpFun", !.swap = "sell",
                                !.amount = AtLeastOne(Portion(portion, tokens)),
                                !.close = ClosedLast(portion)])
    BY <1>2 DEF PumpFunSells
  <2> DEFINE t == [NoTx EXCEPT !.dex = "PumpFun", !.swap = "sell",
                               !.amount = AtLeastOne(Portion(portion, tokens)),
                               !.close = ClosedLast(portion)]
  <2>2. t.creates \cup t.ensures = {} /\ t.swap = "sell"
    BY DEF NoTx
  <2>3. Built(b, t) /\ running /\ pc[b] # "pending"
        /\ UNCHANGED <<venue, running, cacheVars, chainVars, historyVars>>
    BY <1>2, <2>1 DEF PumpFunSells, Idle
  <2> HIDE DEF t
  <2> QED BY <1>1, <2>2, <2>3
<1>3. CASE PumpSwapSellBegins(b)
  <2>1. /\ running /\ pc[b] = "idle" /\ pc'[b] \in {"fetching", "joined"}
        /\ \A c \in Builder : c # b => pc'[c] = pc[c] /\ job'[c] = job[c]
    BY <1>3 DEF PumpSwapSellBegins, Idle, TypeOK
  <2>2. UNCHANGED <<running, accounts, gone, unlisted, doubled, missing, tx>>
        /\ WALLET_TOKEN_ACCOUNTS \subseteq WALLET_TOKEN_ACCOUNTS'
        /\ WALLET_TOKEN_ACCOUNTS' \subseteq WALLET_TOKEN_ACCOUNTS \cup accounts
    BY <1>3 DEF PumpSwapSellBegins
  <2> QED BY <2>1, <2>2, OrderKeepsList
<1>4. CASE RpcReads(b) \/ AccountInfoCached(b)
  <2>1. /\ running /\ pc[b] \in {"fetching", "read"} /\ pc'[b] \in {"read", "joined"}
        /\ \A c \in Builder : c # b => pc'[c] = pc[c]
    BY <1>4 DEF RpcReads, AccountInfoCached, TypeOK
  <2>2. UNCHANGED <<running, WALLET_TOKEN_ACCOUNTS, accounts, gone, unlisted, doubled,
                    job, missing, tx>>
    BY <1>4 DEF RpcReads, AccountInfoCached
  <2> QED BY <2>1, <2>2, OrderKeepsList
<1>5. CASE PumpSwapSellBuilt(b)
  <2> DEFINE t == [NoTx EXCEPT !.dex = "PumpSwap", !.swap = "sell",
                               !.amount = Portion(job[b].portion, read[b].amount),
                               !.close = ClosedFirst(job[b].portion)]
  <2>1. t.creates \cup t.ensures = {} /\ t.swap = "sell"
    BY DEF NoTx
  <2>2. Built(b, t) /\ running /\ pc[b] # "pending"
        /\ UNCHANGED <<venue, running, cacheVars, chainVars, historyVars>>
    BY <1>5 DEF PumpSwapSellBuilt
  <2> HIDE DEF t
  <2> QED BY <1>1, <2>1, <2>2
<1>6. CASE PumpSwapSellErr(b)
  <2>1. /\ running /\ pc[b] # "pending" /\ pc'[b] = "idle" /\ UNCHANGED tx
        /\ \A c \in Builder : c # b => /\ pc'[c] = pc[c]
                                       /\ missing'[c] = missing[c] /\ job'[c] = job[c]
    BY <1>6 DEF PumpSwapSellErr, BuildErr, Free, TypeOK
  <2>2. UNCHANGED <<running, WALLET_TOKEN_ACCOUNTS, accounts, gone, unlisted, doubled>>
    BY <1>6 DEF PumpSwapSellErr
  <2> QED BY <2>1, <2>2, OrderKeepsList
<1> QED BY <1>2, <1>3, <1>4, <1>5, <1>6 DEF SellStep

\* A transaction lands: what it opens is on the list, or it comes from a former
\* run; what it closes goes into the history.
LEMMA ExecutesKeepsList ==
  ASSUME TypeOK, ListInv, NEW b \in Builder, TxExecutes(b)
  PROVE  ListInv'
<1> DEFINE t == tx[b]
<1>1. /\ accounts' \subseteq Opened(t) /\ pc[b] \in {"pending", "orphan"}
      /\ gone' = (gone \cup ((Opened(t) \ accounts') \cap WALLET_TOKEN_ACCOUNTS)) \ accounts'
      /\ unlisted \subseteq unlisted'
      /\ (running /\ pc[b] = "orphan" => Opened(t) \ accounts \subseteq unlisted')
      /\ UNCHANGED <<running, WALLET_TOKEN_ACCOUNTS, job, missing, doubled>>
  BY DEF TxExecutes, Gone, Foreign, Sent, cacheVars
<1>2. /\ pc'[b] = "idle"
      /\ \A c \in Builder : c # b => pc'[c] = pc[c] /\ tx'[c] = tx[c]
  BY DEF TxExecutes, TxDone, TypeOK
<1>3. ASSUME NEW c \in Builder, NEW a \in Account, c # b
      PROVE  pc'[c] = "pending" /\ Creator(c, a)' <=> pc[c] = "pending" /\ Creator(c, a)
  BY <1>2, <1>3 DEF Creator, Sent
<1>4. ASSUME NEW a \in Account, a \in Opened(t) \ accounts
      PROVE  Creator(b, a)
  BY <1>1, <1>4 DEF Opened, Creator, Sent
<1>5. WALLET_TOKEN_ACCOUNTS \subseteq Account /\ Opened(t) \subseteq Account
      /\ accounts \subseteq Opened(t)
  BY DEF TypeOK, Opened, Tx
<1>6. Stopped' /\ CreatorListed' /\ OneCreator'
  BY <1>1, <1>2, <1>3 DEF ListInv, Stopped, CreatorListed, OneCreator
<1>7. CreatesUnknown'
  <2> SUFFICES ASSUME NEW c \in Builder, pc'[c] = "pending",
                      NEW a \in tx'[c].creates, a \in accounts'
               PROVE  a \in unlisted' \cup doubled'
    BY DEF CreatesUnknown
  <2>1. c # b /\ pc[c] = "pending" /\ a \in tx[c].creates /\ a \in Opened(t)
    BY <1>1, <1>2
  <2>2. CASE a \in accounts
    BY <1>1, <2>1, <2>2 DEF ListInv, CreatesUnknown
  <2>3. CASE a \notin accounts
    <3>1. Creator(b, a) /\ Creator(c, a) /\ a \in Account
      BY <1>4, <1>5, <2>1, <2>3 DEF Creator, Sent
    <3>2. running
      BY <2>1 DEF ListInv, Stopped
    <3>3. CASE pc[b] = "pending"
      BY <1>1, <2>1, <3>1, <3>3 DEF ListInv, OneCreator
    <3>4. CASE pc[b] = "orphan"
      BY <1>1, <2>1, <2>3, <3>2, <3>4
    <3> QED BY <1>1, <3>3, <3>4
  <2> QED BY <2>2, <2>3
<1>8. CheckedIsListed' /\ NeedsAreListed'
  BY <1>1, <1>2 DEF ListInv, CheckedIsListed, NeedsAreListed, Needs
<1>9. KnownIsThere'
  <2> SUFFICES ASSUME NEW a \in WALLET_TOKEN_ACCOUNTS', a \notin accounts'
               PROVE  \/ a \in gone'
                      \/ \E c \in Builder : pc'[c] = "pending" /\ Creator(c, a)'
    BY DEF KnownIsThere
  <2>1. CASE a \in Opened(t)
    BY <1>1, <2>1
  <2>2. CASE a \notin Opened(t)
    <3>1. ~ Creator(b, a) /\ a \notin accounts
      BY <2>2 DEF Creator, Opened
    <3>2. a \in gone \/ \E c \in Builder : pc[c] = "pending" /\ Creator(c, a)
      BY <1>1, <3>1 DEF ListInv, KnownIsThere
    <3> QED BY <1>1, <1>3, <1>5, <3>1, <3>2
  <2> QED BY <2>1, <2>2
<1>10. ThereIsKnown'
  <2> SUFFICES ASSUME running, NEW a \in accounts', a \notin WALLET_TOKEN_ACCOUNTS
               PROVE  a \in unlisted'
    BY <1>1 DEF ThereIsKnown
  <2>1. CASE a \in accounts
    BY <1>1, <2>1 DEF ListInv, ThereIsKnown
  <2>2. CASE a \notin accounts
    BY <1>1, <1>4, <1>5, <2>2 DEF ListInv, CreatorListed
  <2> QED BY <2>1, <2>2
<1> QED BY <1>6, <1>7, <1>8, <1>9, <1>10 DEF ListInv

\* A transaction is lost: with it the account it was to open.
LEMMA LostKeepsList ==
  ASSUME TypeOK, ListInv, NEW b \in Builder, TxLost(b)
  PROVE  ListInv'
<1>1. /\ UNCHANGED <<running, WALLET_TOKEN_ACCOUNTS, job, missing, accounts, unlisted, doubled>>
      /\ pc[b] \in {"pending", "orphan"}
      /\ gone' = (gone \cup ((IF pc[b] = "pending" THEN tx[b].creates \cup tx[b].ensures ELSE {})
                               \cap WALLET_TOKEN_ACCOUNTS)) \ accounts
  BY DEF TxLost, Gone, Sent, cacheVars, chainVars
<1>2. /\ pc'[b] = "idle"
      /\ \A c \in Builder : c # b => pc'[c] = pc[c] /\ tx'[c] = tx[c]
  BY DEF TxLost, TxDone, TypeOK
<1>3. ASSUME NEW c \in Builder, NEW a \in Account, c # b
      PROVE  pc'[c] = "pending" /\ Creator(c, a)' <=> pc[c] = "pending" /\ Creator(c, a)
  BY <1>2, <1>3 DEF Creator, Sent
<1>4. Stopped' /\ CreatorListed' /\ OneCreator'
  BY <1>1, <1>2, <1>3 DEF ListInv, Stopped, CreatorListed, OneCreator
<1>5. CreatesUnknown' /\ CheckedIsListed' /\ NeedsAreListed'
  BY <1>1, <1>2 DEF ListInv, CreatesUnknown, CheckedIsListed, NeedsAreListed, Needs
<1>6. KnownIsThere'
  <2> SUFFICES ASSUME NEW a \in WALLET_TOKEN_ACCOUNTS, a \notin accounts
               PROVE  \/ a \in gone'
                      \/ \E c \in Builder : pc'[c] = "pending" /\ Creator(c, a)'
    BY <1>1 DEF KnownIsThere
  <2>1. a \in Account
    BY DEF TypeOK
  <2>2. a \in gone \/ \E c \in Builder : pc[c] = "pending" /\ Creator(c, a)
    BY DEF ListInv, KnownIsThere
  <2>3. CASE pc[b] = "pending" /\ Creator(b, a)
    BY <1>1, <2>3 DEF Creator
  <2>4. CASE ~ (pc[b] = "pending" /\ Creator(b, a))
    BY <1>1, <1>3, <2>1, <2>2, <2>4
  <2> QED BY <2>3, <2>4
<1>7. ThereIsKnown'
  BY <1>1 DEF ListInv, ThereIsKnown
<1> QED BY <1>4, <1>5, <1>6, <1>7 DEF ListInv

\* Time touches neither the list nor the chain.
LEMMA TimeKeepsList ==
  ASSUME TypeOK, ListInv,
         UNCHANGED <<running, WALLET_TOKEN_ACCOUNTS, pc, job, missing, tx,
                     chainVars, historyVars>>
  PROVE  ListInv'
BY DEF ListInv, Stopped, CreatorListed, OneCreator, CreatesUnknown, CheckedIsListed,
   NeedsAreListed, Needs, KnownIsThere, ThereIsKnown, Creator, Sent, chainVars, historyVars

LEMMA HostKeepsList ==
  ASSUME TypeOK, ListInv, HostStep
  PROVE  ListInv'
<1> USE DEF cacheVars, chainVars, historyVars, taskVars
<1>1. CASE EngineStops
  <2>1. running' = FALSE /\ WALLET_TOKEN_ACCOUNTS' = {}
        /\ \A b \in Builder : pc'[b] \in {"idle", "orphan"}
    BY <1>1 DEF EngineStops
  <2> QED BY <2>1 DEF ListInv, Stopped, CreatorListed, OneCreator, CreatesUnknown,
             CheckedIsListed, NeedsAreListed, KnownIsThere, ThereIsKnown
<1>2. CASE EngineStarts
  <2>1. running' = TRUE /\ WALLET_TOKEN_ACCOUNTS' \subseteq accounts
        /\ accounts \subseteq WALLET_TOKEN_ACCOUNTS' \cup unlisted'
        /\ UNCHANGED <<pc, accounts>>
        /\ \A b \in Builder : pc[b] \in {"idle", "orphan"}
    BY <1>2 DEF EngineStarts, ListRead, ListInv, Stopped
  <2> QED BY <2>1 DEF ListInv, Stopped, CreatorListed, OneCreator, CreatesUnknown,
             CheckedIsListed, NeedsAreListed, KnownIsThere, ThereIsKnown
<1>3. ASSUME UNCHANGED <<running, WALLET_TOKEN_ACCOUNTS, pc, job, missing, tx, doubled>>,
             NEW A, NEW F, gone' = (gone \cup (A \cap WALLET_TOKEN_ACCOUNTS)) \ accounts',
             accounts \ accounts' \subseteq A,
             unlisted \subseteq unlisted', running => accounts' \ accounts \subseteq unlisted'
      PROVE  ListInv'
  <2>1. Stopped' /\ CreatorListed' /\ OneCreator' /\ CheckedIsListed' /\ NeedsAreListed'
    BY <1>3 DEF ListInv, Stopped, CreatorListed, OneCreator, CheckedIsListed, NeedsAreListed,
       Needs, Creator, Sent
  <2>2. CreatesUnknown'
    <3>1. ASSUME NEW b \in Builder, pc[b] = "pending" PROVE running
      BY <3>1 DEF ListInv, Stopped
    <3> QED BY <1>3, <3>1 DEF ListInv, CreatesUnknown
  <2>3. KnownIsThere'
    BY <1>3 DEF ListInv, KnownIsThere, Creator, Sent
  <2>4. ThereIsKnown'
    BY <1>3 DEF ListInv, ThereIsKnown
  <2> QED BY <2>1, <2>2, <2>3, <2>4 DEF ListInv
<1>4. CASE WrapSol
  <2>1. gone' = (gone \cup ({} \cap WALLET_TOKEN_ACCOUNTS)) \ accounts'
        /\ accounts \ accounts' \subseteq {}
        /\ unlisted \subseteq unlisted' /\ (running => accounts' \ accounts \subseteq unlisted')
    BY <1>4 DEF WrapSol, Gone, Foreign
  <2> QED BY <1>3, <1>4, <2>1 DEF WrapSol
<1>5. CASE UnwrapSol
  <2>1. gone' = (gone \cup ({"wsol"} \cap WALLET_TOKEN_ACCOUNTS)) \ accounts'
        /\ accounts \ accounts' \subseteq {"wsol"} /\ accounts' \ accounts = {}
    BY <1>5 DEF UnwrapSol, Gone
  <2> QED BY <1>3, <1>5, <2>1 DEF UnwrapSol
<1>6. CASE CloseAllTokenAccounts
  <2>1. PICK S \in SUBSET accounts : accounts' = accounts \ S /\ Gone(S)
    BY <1>6 DEF CloseAllTokenAccounts
  <2>2. gone' = (gone \cup (S \cap WALLET_TOKEN_ACCOUNTS)) \ accounts'
        /\ accounts \ accounts' \subseteq S /\ accounts' \ accounts = {}
    BY <2>1 DEF Gone
  <2> QED BY <1>3, <1>6, <2>2 DEF CloseAllTokenAccounts
<1> QED BY <1>1, <1>2, <1>4, <1>5, <1>6 DEF HostStep

LEMMA StepKeepsList == TypeOK /\ ListInv /\ [Next]_vars => ListInv'
<1>1. ASSUME TypeOK, ListInv, Tick \/ ClearExpired \/ UNCHANGED vars PROVE ListInv'
  BY <1>1, TimeKeepsList DEF Tick, ClearExpired, vars, taskVars, cacheVars
<1> QED BY <1>1, BuyStepKeepsList, SellStepKeepsList, ExecutesKeepsList, LostKeepsList,
       HostKeepsList DEF Next

\* The invariant behind the two theorems below.
THEOREM ListInvariant == Spec => []ListInv
BY InitList, StepKeepsList, BuildTyping, PTL DEF Spec

\* Where the list of token accounts and the chain differ, there is a reason in
\* this run, for any number of orders.
THEOREM ListExplained == Spec => []ListIsExplained
<1>1. ListInv => ListIsExplained
  BY DEF ListInv, ListIsExplained
<1> QED BY <1>1, ListInvariant, PTL

\* A buy on its way finds its accounts otherwise than its builder left them only
\* for the reasons BuyFailureExplained lists.
THEOREM BuysExplained == Spec => []BuyFailureExplained
<1>1. ASSUME TypeOK, ListInv PROVE BuyFailureExplained
  <2> SUFFICES ASSUME NEW b \in Builder, pc[b] = "pending", tx[b].swap = "buy"
               PROVE  /\ \A a \in Needs(tx[b]) \ Opened(tx[b]) :
                           \/ a \in gone
                           \/ \E c \in Builder : pc[c] = "pending" /\ Creator(c, a)
                           \/ a = "wsol" /\ tx[b].dex = "PumpSwap"
                      /\ tx[b].creates \cap accounts \subseteq unlisted \cup doubled
    BY DEF BuyFailureExplained
  <2>1. ASSUME NEW a \in Needs(tx[b]) \ Opened(tx[b])
        PROVE  \/ a \in gone
               \/ \E c \in Builder : pc[c] = "pending" /\ Creator(c, a)
               \/ a = "wsol" /\ tx[b].dex = "PumpSwap"
    <3>1. a \in Needs(tx[b]) \ (tx[b].creates \cup tx[b].ensures) /\ a \notin accounts
      BY <2>1 DEF Opened
    <3>2. a \in WALLET_TOKEN_ACCOUNTS \/ (a = "wsol" /\ tx[b].dex = "PumpSwap")
      BY <1>1, <3>1 DEF ListInv, NeedsAreListed
    <3> QED BY <1>1, <3>1, <3>2 DEF ListInv, KnownIsThere
  <2> QED BY <1>1, <2>1 DEF ListInv, CreatesUnknown
<1> QED BY <1>1, ListInvariant, BuildTyping, PTL
-----------------------------------------------------------------------------
(* The cached balance *)

LEMMA InitAge == Init => AgeInv
BY SwapBuildAssumption DEF Init, AgeInv, Waiting

\* A step that ends an order's wait, or is none of it.
LEMMA FreeKeepsAge ==
  ASSUME TypeOK, AgeInv, NEW b \in Builder, NEW state \in {"idle", "pending"},
         Free(b, state), UNCHANGED FR_TOKEN_ACCOUNT_CACHE
  PROVE  AgeInv'
BY SwapBuildAssumption DEF TypeOK, AgeInv, Free, Waiting

LEMMA CheckKeepsAge ==
  ASSUME TypeOK, AgeInv, NEW b \in Builder, NEW j, NEW needed, NEW found,
         Check(b, j, needed, found)
  PROVE  AgeInv'
BY DEF Check, Idle, TypeOK, AgeInv, Waiting

LEMMA BuyStepKeepsAge ==
  ASSUME TypeOK, AgeInv, NEW b \in Builder, BuyStep(b)
  PROVE  AgeInv'
<1>1. CASE PumpFunBuyChecks(b) \/ PumpSwapBuyChecks(b) \/ RaydiumChecks(b)
  BY <1>1, CheckKeepsAge DEF PumpFunBuyChecks, PumpSwapBuyChecks, RaydiumChecks
<1>2. CASE PumpFunBuyBuilt(b) \/ PumpSwapBuyBuilt(b) \/ RaydiumBuilt(b) \/ CheckedErr(b)
  <2>1. (Free(b, "pending") \/ Free(b, "idle")) /\ UNCHANGED FR_TOKEN_ACCOUNT_CACHE
    BY <1>2 DEF PumpFunBuyBuilt, PumpSwapBuyBuilt, RaydiumBuilt, CheckedErr, Checked, Built,
       BuildErr
  <2> QED BY <2>1, FreeKeepsAge
<1> QED BY <1>1, <1>2 DEF BuyStep

\* Reading, caching and taking the balance from the cache.
LEMMA SellStepKeepsAge ==
  ASSUME TypeOK, AgeInv, NEW b \in Builder, SellStep(b)
  PROVE  AgeInv'
<1>1. CASE PumpFunSells(b) \/ PumpSwapSellBuilt(b) \/ PumpSwapSellErr(b)
  <2>1. (Free(b, "pending") \/ Free(b, "idle")) /\ UNCHANGED FR_TOKEN_ACCOUNT_CACHE
    BY <1>1 DEF PumpFunSells, PumpSwapSellBuilt, PumpSwapSellErr, Built, BuildErr, cacheVars
  <2> QED BY <2>1, FreeKeepsAge
<1>2. CASE PumpSwapSellBegins(b)
  <2>1. pc[b] = "idle" /\ waited[b] = 0 /\ UNCHANGED <<FR_TOKEN_ACCOUNT_CACHE, waited>>
    BY <1>2 DEF PumpSwapSellBegins, Idle, AgeInv, Waiting
  <2>2. ASSUME NEW account \in Fetched PROVE account.age <= Ttl + RpcTicks
    <3>1. PICK e \in FR_TOKEN_ACCOUNT_CACHE : ~ IsExpired(e) /\ account.age = e.age
      BY <2>2 DEF Fetched
    <3>2. e \in [amount : Nat, age : Nat, left : Int]
      BY DEF TypeOK
    <3>3. e.left >= 0
      BY <3>1, <3>2 DEF IsExpired
    <3> QED BY <3>1, <3>2, <3>3, SwapBuildAssumption DEF AgeInv
  <2>3. \A c \in Builder : c # b => pc'[c] = pc[c] /\ read'[c] = read[c]
    BY <1>2 DEF PumpSwapSellBegins, TypeOK
  <2>4. \/ pc'[b] = "fetching"
        \/ pc'[b] = "joined" /\ read'[b] \in Fetched
    BY <1>2 DEF PumpSwapSellBegins, TypeOK
  <2>5. pc'[b] = "joined" => read'[b].age <= Ttl + RpcTicks + waited[b]
    BY <2>1, <2>2, <2>4, SwapBuildAssumption
  <2> QED BY <2>1, <2>3, <2>4, <2>5, SwapBuildAssumption DEF AgeInv, Waiting
<1>3. CASE RpcReads(b)
  BY <1>3, SwapBuildAssumption DEF RpcReads, TypeOK, AgeInv, Waiting, cacheVars
<1>4. CASE AccountInfoCached(b)
  <2>1. FR_TOKEN_ACCOUNT_CACHE' = {Entry(read[b])} /\ pc[b] = "read" /\ UNCHANGED <<read, waited>>
        /\ pc' = [pc EXCEPT ![b] = "joined"]
    BY <1>4 DEF AccountInfoCached, Inserted
  <2>2. read[b].age \in Nat /\ waited[b] \in Nat /\ read[b].age <= waited[b]
        /\ waited[b] <= RpcTicks
    BY <2>1 DEF TypeOK, Read, AgeInv, Waiting
  <2>3. Entry(read[b]).age = read[b].age /\ Entry(read[b]).left = Ttl
    BY DEF Entry
  <2>4. \A e \in FR_TOKEN_ACCOUNT_CACHE' : e.left >= -1 /\ e.age + e.left <= Ttl + RpcTicks
    BY <2>1, <2>2, <2>3, SwapBuildAssumption
  <2>5. \A c \in Builder :
          /\ IF Waiting(c)' THEN waited'[c] <= RpcTicks ELSE waited'[c] = 0
          /\ pc'[c] = "read" => read'[c].age <= waited'[c]
          /\ pc'[c] = "joined" => read'[c].age <= Ttl + RpcTicks + waited'[c]
    BY <2>1, <2>2, SwapBuildAssumption DEF AgeInv, Waiting, TypeOK
  <2> QED BY <2>4, <2>5 DEF AgeInv
<1> QED BY <1>1, <1>2, <1>3, <1>4 DEF SellStep

\* A tick ages what is cached and what is read alike.
LEMMA TickKeepsAge ==
  ASSUME TypeOK, AgeInv, Tick
  PROVE  AgeInv'
<1>1. ASSUME NEW e \in FR_TOKEN_ACCOUNT_CACHE
      PROVE  Aged(e).left >= -1 /\ Aged(e).age + Aged(e).left <= Ttl + RpcTicks
  <2>1. e \in [amount : Nat, age : Nat, left : Int]
        /\ e.left >= -1 /\ e.age + e.left <= Ttl + RpcTicks
    BY DEF TypeOK, AgeInv
  <2>2. CASE IsExpired(e)
    BY <2>1, <2>2 DEF Aged
  <2>3. CASE ~ IsExpired(e)
    <3>1. Aged(e) = [amount |-> e.amount, age |-> e.age + 1, left |-> e.left - 1]
          /\ ~ (e.left < 0)
      BY <2>3 DEF Aged, IsExpired
    <3> QED BY <2>1, <3>1, SwapBuildAssumption
  <2> QED BY <2>2, <2>3
<1>2. \A e \in FR_TOKEN_ACCOUNT_CACHE' : e.left >= -1 /\ e.age + e.left <= Ttl + RpcTicks
  BY <1>1 DEF Tick
<1>3. ASSUME NEW b \in Builder
      PROVE  /\ IF Waiting(b)' THEN waited'[b] <= RpcTicks ELSE waited'[b] = 0
             /\ pc'[b] = "read" => read'[b].age <= waited'[b]
             /\ pc'[b] = "joined" => read'[b].age <= Ttl + RpcTicks + waited'[b]
  <2>1. waited[b] \in Nat /\ read[b] \in Read /\ UNCHANGED pc
    BY DEF Tick, TypeOK
  <2>2. Waiting(b)' <=> Waiting(b)
    BY <2>1 DEF Waiting
  <2>3. waited'[b] = IF Waiting(b) THEN waited[b] + 1 ELSE waited[b]
    BY DEF Tick
  <2>4. pc[b] \in {"read", "joined"} => read'[b].age = read[b].age + 1 /\ Waiting(b)
    BY <2>1 DEF Tick, Waiting, Read
  <2>5. Waiting(b) => waited[b] < RpcTicks
    BY DEF Tick
  <2>6. read[b].age \in Nat
    BY <2>1 DEF Read
  <2> QED BY <2>1, <2>2, <2>3, <2>4, <2>5, <2>6, SwapBuildAssumption DEF AgeInv
<1> QED BY <1>2, <1>3 DEF AgeInv

LEMMA StepKeepsAge == TypeOK /\ AgeInv /\ [Next]_vars => AgeInv'
<1>1. ASSUME AgeInv,
             UNCHANGED <<FR_TOKEN_ACCOUNT_CACHE, pc, read, waited>>
      PROVE  AgeInv'
  BY <1>1 DEF AgeInv, Waiting
<1>2. ASSUME TypeOK, AgeInv, NEW b \in Builder, TxExecutes(b) \/ TxLost(b) PROVE AgeInv'
  <2>1. UNCHANGED <<FR_TOKEN_ACCOUNT_CACHE, read, waited>> /\ pc' = [pc EXCEPT ![b] = "idle"]
        /\ pc[b] \in {"pending", "orphan"}
    BY <1>2 DEF TxExecutes, TxLost, TxDone, Sent, cacheVars
  <2> QED BY <1>2, <2>1 DEF TypeOK, AgeInv, Waiting
<1>3. ASSUME AgeInv, ClearExpired PROVE AgeInv'
  BY <1>3 DEF ClearExpired, AgeInv, Waiting, taskVars
<1>4. ASSUME TypeOK, AgeInv, EngineStops PROVE AgeInv'
  BY <1>4 DEF EngineStops, AgeInv, Waiting
<1>5. ASSUME AgeInv, EngineStarts \/ WrapSol \/ UnwrapSol \/ CloseAllTokenAccounts PROVE AgeInv'
  BY <1>1, <1>5 DEF EngineStarts, WrapSol, UnwrapSol, CloseAllTokenAccounts, taskVars, cacheVars
<1>6. ASSUME AgeInv, UNCHANGED vars PROVE AgeInv'
  BY <1>1, <1>6 DEF vars, taskVars, cacheVars
<1> QED BY <1>2, <1>3, <1>4, <1>5, <1>6, BuyStepKeepsAge, SellStepKeepsAge, TickKeepsAge
     DEF Next, HostStep

\* What a PumpSwap sale takes for the balance is at most one life of a cache
\* entry and two time-outs old, for every life and every time-out.
THEOREM BalanceIsRecent == Spec => []AmountIsRecent
<1>1. ASSUME TypeOK, AgeInv PROVE AmountIsRecent
  <2> SUFFICES ASSUME NEW b \in Builder, pc[b] = "joined"
               PROVE  read[b].age <= Ttl + 2 * RpcTicks
    BY DEF AmountIsRecent
  <2>1. read[b].age \in Nat /\ waited[b] \in Nat /\ waited[b] <= RpcTicks
        /\ read[b].age <= Ttl + RpcTicks + waited[b]
    BY <1>1 DEF TypeOK, Read, AgeInv, Waiting
  <2> QED BY <2>1, SwapBuildAssumption
<1> QED BY <1>1, InitAge, StepKeepsAge, BuildTyping, PTL DEF Spec
-----------------------------------------------------------------------------
(* Sales *)

\* A transaction that is built has the shape of a sale, or is none.
LEMMA BuiltSale ==
  ASSUME TypeOK, SaleInv, NEW b \in Builder, NEW t, Built(b, t),
         t.swap = "sell" => t.creates = {},
         t.close = "before" => t.dex = "PumpSwap" /\ t.swap = "sell",
         t.close = "after" => t.dex = "PumpFun"
  PROVE  SaleInv'
BY DEF TypeOK, SaleInv, Sent, Built, Free

\* Orders that are not built by the step keep their transactions.
LEMMA OtherSale ==
  ASSUME TypeOK, SaleInv, NEW b \in Builder, pc'[b] \notin {"pending", "orphan"},
         \A c \in Builder : c # b => pc'[c] = pc[c] /\ tx'[c] = tx[c]
  PROVE  SaleInv'
BY DEF SaleInv, Sent

LEMMA BuyStepKeepsSale ==
  ASSUME TypeOK, SaleInv, NEW b \in Builder, BuyStep(b)
  PROVE  SaleInv'
<1>1. CASE PumpFunBuyChecks(b) \/ PumpSwapBuyChecks(b) \/ RaydiumChecks(b)
  <2>1. PICK j, needed, found : Check(b, j, needed, found)
    BY <1>1 DEF PumpFunBuyChecks, PumpSwapBuyChecks, RaydiumChecks
  <2> QED BY <2>1, OtherSale DEF Check, TypeOK
<1>2. CASE PumpFunBuyBuilt(b)
  <2>1. PICK r \in Reserves :
          Built(b, [NoTx EXCEPT !.dex = "PumpFun", !.creates = missing[b],
                     !.swap = IF TokensOut(Lamports, r) > 0 THEN "buy" ELSE "none",
                     !.amount = TokensOut(Lamports, r)])
    BY <1>2 DEF PumpFunBuyBuilt
  <2> DEFINE t == [NoTx EXCEPT !.dex = "PumpFun", !.creates = missing[b],
                     !.swap = IF TokensOut(Lamports, r) > 0 THEN "buy" ELSE "none",
                     !.amount = TokensOut(Lamports, r)]
  <2>2. t.swap # "sell" /\ t.close = "none"
    BY DEF NoTx
  <2> HIDE DEF t
  <2> QED BY <2>1, <2>2, BuiltSale DEF t
<1>3. CASE PumpSwapBuyBuilt(b)
  <2>1. PICK r \in Reserves :
          Built(b, [NoTx EXCEPT !.dex = "PumpSwap", !.ensures = missing[b],
                                !.swap = "buy", !.amount = TokensOut(Lamports, r)])
    BY <1>3 DEF PumpSwapBuyBuilt
  <2>2. [NoTx EXCEPT !.dex = "PumpSwap", !.ensures = missing[b],
                     !.swap = "buy", !.amount = TokensOut(Lamports, r)].swap = "buy"
        /\ [NoTx EXCEPT !.dex = "PumpSwap", !.ensures = missing[b],
                        !.swap = "buy", !.amount = TokensOut(Lamports, r)].close = "none"
    BY DEF NoTx
  <2> QED BY <2>1, <2>2, BuiltSale
<1>4. CASE RaydiumBuilt(b)
  <2> DEFINE n == IF job[b].side = "buy"
                    THEN 1 ELSE AtLeastOne(Portion(job[b].portion, tokens))
             t == [NoTx EXCEPT !.dex = "RaydiumLaunchpad", !.ensures = missing[b],
                               !.swap = job[b].side, !.amount = n]
  <2>1. t.creates = {} /\ t.close = "none"
    BY DEF NoTx
  <2>2. Built(b, t)
    BY <1>4 DEF RaydiumBuilt
  <2> HIDE DEF t
  <2> QED BY <2>1, <2>2, BuiltSale
<1>5. CASE CheckedErr(b)
  BY <1>5, OtherSale DEF CheckedErr, BuildErr, Free, TypeOK
<1> QED BY <1>1, <1>2, <1>3, <1>4, <1>5 DEF BuyStep

LEMMA SellStepKeepsSale ==
  ASSUME TypeOK, SaleInv, NEW b \in Builder, SellStep(b)
  PROVE  SaleInv'
<1>1. CASE PumpFunSells(b)
  <2>1. PICK portion \in {"full", "half"} :
          Built(b, [NoTx EXCEPT !.dex = "PumpFun", !.swap = "sell",
                                !.amount = AtLeastOne(Portion(portion, tokens)),
                                !.close = ClosedLast(portion)])
    BY <1>1 DEF PumpFunSells
  <2> DEFINE t == [NoTx EXCEPT !.dex = "PumpFun", !.swap = "sell",
                               !.amount = AtLeastOne(Portion(portion, tokens)),
                               !.close = ClosedLast(portion)]
  <2>2. t.creates = {} /\ t.close # "before" /\ t.dex = "PumpFun"
    BY DEF NoTx, ClosedLast
  <2>3. Built(b, t)
    BY <2>1
  <2> HIDE DEF t
  <2> QED BY <2>2, <2>3, BuiltSale
<1>2. CASE PumpSwapSellBuilt(b)
  <2> DEFINE t == [NoTx EXCEPT !.dex = "PumpSwap", !.swap = "sell",
                               !.amount = Portion(job[b].portion, read[b].amount),
                               !.close = ClosedFirst(job[b].portion)]
  <2>1. t.creates = {} /\ t.dex = "PumpSwap" /\ t.swap = "sell" /\ t.close # "after"
    BY DEF NoTx, ClosedFirst
  <2>2. Built(b, t)
    BY <1>2 DEF PumpSwapSellBuilt
  <2> HIDE DEF t
  <2> QED BY <2>1, <2>2, BuiltSale
<1>3. CASE PumpSwapSellBegins(b) \/ RpcReads(b) \/ AccountInfoCached(b)
  <2>1. pc'[b] \in {"fetching", "joined", "read"} /\ UNCHANGED tx
        /\ \A c \in Builder : c # b => pc'[c] = pc[c]
    BY <1>3 DEF PumpSwapSellBegins, RpcReads, AccountInfoCached, TypeOK
  <2> QED BY <2>1, OtherSale
<1>4. CASE PumpSwapSellErr(b)
  BY <1>4, OtherSale DEF PumpSwapSellErr, BuildErr, Free, TypeOK
<1> QED BY <1>1, <1>2, <1>3, <1>4 DEF SellStep

LEMMA StepKeepsSale == TypeOK /\ SaleInv /\ [Next]_vars => SaleInv'
<1>1. ASSUME SaleInv, UNCHANGED <<pc, tx>> PROVE SaleInv'
  BY <1>1 DEF SaleInv, Sent
<1>2. ASSUME TypeOK, SaleInv, NEW b \in Builder, TxExecutes(b) \/ TxLost(b) PROVE SaleInv'
  BY <1>2, OtherSale DEF TxExecutes, TxLost, TxDone, TypeOK
<1>3. ASSUME TypeOK, SaleInv, EngineStops PROVE SaleInv'
  BY <1>3 DEF EngineStops, SaleInv, Sent, NoTx
<1>4. ASSUME SaleInv,
             \/ Tick \/ ClearExpired \/ EngineStarts \/ WrapSol \/ UnwrapSol
             \/ CloseAllTokenAccounts \/ UNCHANGED vars
      PROVE  SaleInv'
  BY <1>1, <1>4 DEF Tick, ClearExpired, EngineStarts, WrapSol, UnwrapSol,
     CloseAllTokenAccounts, taskVars, vars
<1> QED BY <1>2, <1>3, <1>4, BuyStepKeepsSale, SellStepKeepsSale DEF Next, HostStep

\* Sales keep their shapes in every behaviour.
LEMMA SaleInvariant == Spec => []SaleInv
<1>1. Init => SaleInv
  BY DEF Init, SaleInv, Sent
<1> QED BY <1>1, StepKeepsSale, BuildTyping, PTL DEF Spec

\* Every sale of exactly the balance, with its accounts there, lands, full ones
\* on PumpSwap apart.
THEOREM MatchingSalesLand == Spec => []MatchingSaleLands
<1>1. ASSUME TypeOK, SaleInv PROVE MatchingSaleLands
  <2> SUFFICES ASSUME NEW b \in Builder, Sent(b),
                      ~ (tx[b].dex = "PumpSwap" /\ tx[b].close # "none"),
                      tx[b].swap = "sell", tx[b].amount = tokens,
                      Needs(tx[b]) \subseteq accounts
               PROVE  Lands(tx[b])
    BY DEF MatchingSaleLands, SaleLands
  <2>1. tx[b].creates = {} /\ tx[b].close # "before" /\ tokens \in Nat
    BY <1>1, SwapBuildAssumption DEF SaleInv, TypeOK
  <2> QED BY <2>1 DEF Lands, Opened
<1> QED BY <1>1, SaleInvariant, BuildTyping, PTL

\* A full sale on PumpSwap never lands, whatever the wallet and the chain are
\* like: it closes the account (pump_swap.rs:329) that its swap then sells from.
FullPumpSwapSaleFails ==
  \A b \in Builder :
    Sent(b) /\ tx[b].dex = "PumpSwap" /\ tx[b].close # "none" => ~ Lands(tx[b])

THEOREM FullPumpSwapSalesFail == Spec => []FullPumpSwapSaleFails
<1>1. ASSUME TypeOK, SaleInv PROVE FullPumpSwapSaleFails
  <2> SUFFICES ASSUME NEW b \in Builder, Sent(b), tx[b].dex = "PumpSwap", tx[b].close # "none"
               PROVE  ~ Lands(tx[b])
    BY DEF FullPumpSwapSaleFails
  <2>1. tx[b].close = "before" /\ tx[b].swap = "sell"
    BY <1>1 DEF SaleInv, TypeOK, Tx
  <2> QED BY <2>1 DEF Lands, Needs, Account
<1> QED BY <1>1, SaleInvariant, BuildTyping, PTL
-----------------------------------------------------------------------------
(* Lost until the next run *)

\* A step of a run leaves the list no shorter, opens the account only through
\* one of its creators, and finds nobody who takes it for missing.
LEMMA DeadStaysDead ==
  ASSUME TypeOK, running, running', Dead, [Next]_vars
  PROVE  Dead'
<1>1. ASSUME "token" \in WALLET_TOKEN_ACCOUNTS', "token" \notin accounts',
             \A c \in Builder : ~ Creator(c, "token")' /\ "token" \notin missing'[c]
      PROVE  Dead'
  BY <1>1 DEF Dead
<1>2. ASSUME NEW b \in Builder, NEW t,
             "token" \notin t.creates \cup t.ensures,
             Built(b, t) \/ BuildErr(b),
             UNCHANGED accounts, WALLET_TOKEN_ACCOUNTS \subseteq WALLET_TOKEN_ACCOUNTS'
      PROVE  Dead'
  <2>1. \A c \in Builder : ~ Creator(c, "token")' /\ "token" \notin missing'[c]
    BY <1>2 DEF Dead, Creator, Sent, Built, BuildErr, Free, TypeOK
  <2> QED BY <1>1, <1>2, <2>1 DEF Dead
<1>3. ASSUME NEW b \in Builder, BuyStep(b) PROVE Dead'
  <2>1. "token" \notin missing[b]
    BY DEF Dead
  <2>2. CASE PumpFunBuyChecks(b) \/ PumpSwapBuyChecks(b) \/ RaydiumChecks(b)
    <3>1. PICK j, needed, found : Check(b, j, needed, found)
      BY <2>2 DEF PumpFunBuyChecks, PumpSwapBuyChecks, RaydiumChecks
    <3>2. \A c \in Builder : ~ Creator(c, "token")' /\ "token" \notin missing'[c]
      BY <3>1 DEF Check, OffList, Dead, Creator, Sent, TypeOK
    <3> QED BY <1>1, <3>1, <3>2 DEF Check, Dead, chainVars
  <2>3. CASE PumpFunBuyBuilt(b)
    <3>1. PICK r \in Reserves :
            Built(b, [NoTx EXCEPT !.dex = "PumpFun", !.creates = missing[b],
                       !.swap = IF TokensOut(Lamports, r) > 0 THEN "buy" ELSE "none",
                       !.amount = TokensOut(Lamports, r)])
      BY <2>3 DEF PumpFunBuyBuilt
    <3> DEFINE t == [NoTx EXCEPT !.dex = "PumpFun", !.creates = missing[b],
                       !.swap = IF TokensOut(Lamports, r) > 0 THEN "buy" ELSE "none",
                       !.amount = TokensOut(Lamports, r)]
    <3>2. "token" \notin t.creates \cup t.ensures /\ Built(b, t)
      BY <2>1, <3>1 DEF NoTx
    <3>3. UNCHANGED accounts /\ WALLET_TOKEN_ACCOUNTS \subseteq WALLET_TOKEN_ACCOUNTS'
      BY <2>3 DEF PumpFunBuyBuilt, Checked, ListMissing, chainVars
    <3> HIDE DEF t
    <3> QED BY <1>2, <3>2, <3>3
  <2>4. CASE PumpSwapBuyBuilt(b)
    <3>1. PICK r \in Reserves :
            Built(b, [NoTx EXCEPT !.dex = "PumpSwap", !.ensures = missing[b],
                                  !.swap = "buy", !.amount = TokensOut(Lamports, r)])
      BY <2>4 DEF PumpSwapBuyBuilt
    <3> DEFINE t == [NoTx EXCEPT !.dex = "PumpSwap", !.ensures = missing[b],
                                 !.swap = "buy", !.amount = TokensOut(Lamports, r)]
    <3>2. "token" \notin t.creates \cup t.ensures /\ Built(b, t)
      BY <2>1, <3>1 DEF NoTx
    <3>3. UNCHANGED accounts /\ WALLET_TOKEN_ACCOUNTS \subseteq WALLET_TOKEN_ACCOUNTS'
      BY <2>4 DEF PumpSwapBuyBuilt, Checked, ListMissing, chainVars
    <3> HIDE DEF t
    <3> QED BY <1>2, <3>2, <3>3
  <2>5. CASE RaydiumBuilt(b)
    <3> DEFINE n == IF job[b].side = "buy"
                      THEN 1 ELSE AtLeastOne(Portion(job[b].portion, tokens))
               t == [NoTx EXCEPT !.dex = "RaydiumLaunchpad", !.ensures = missing[b],
                                 !.swap = job[b].side, !.amount = n]
    <3>1. "token" \notin t.creates \cup t.ensures
      BY <2>1 DEF NoTx
    <3>2. Built(b, t)
      BY <2>5 DEF RaydiumBuilt
    <3>3. UNCHANGED accounts /\ WALLET_TOKEN_ACCOUNTS \subseteq WALLET_TOKEN_ACCOUNTS'
      BY <2>5 DEF RaydiumBuilt, Checked, ListMissing, chainVars
    <3> HIDE DEF t
    <3> QED BY <1>2, <3>1, <3>2, <3>3
  <2>6. CASE CheckedErr(b)
    <3>1. BuildErr(b) /\ UNCHANGED accounts
          /\ WALLET_TOKEN_ACCOUNTS \subseteq WALLET_TOKEN_ACCOUNTS'
      BY <2>6 DEF CheckedErr, Checked, ListMissing, chainVars
    <3>2. "token" \notin NoTx.creates \cup NoTx.ensures
      BY DEF NoTx
    <3> QED BY <1>2, <3>1, <3>2
  <2> QED BY <1>3, <2>2, <2>3, <2>4, <2>5, <2>6 DEF BuyStep
<1>4. ASSUME NEW b \in Builder, SellStep(b) PROVE Dead'
  <2> USE DEF cacheVars, chainVars
  <2>1. CASE PumpFunSells(b)
    <3>1. PICK portion \in {"full", "half"} :
            Built(b, [NoTx EXCEPT !.dex = "PumpFun", !.swap = "sell",
                                  !.amount = AtLeastOne(Portion(portion, tokens)),
                                  !.close = ClosedLast(portion)])
      BY <2>1 DEF PumpFunSells
    <3> DEFINE t == [NoTx EXCEPT !.dex = "PumpFun", !.swap = "sell",
                                 !.amount = AtLeastOne(Portion(portion, tokens)),
                                 !.close = ClosedLast(portion)]
    <3>2. "token" \notin t.creates \cup t.ensures /\ Built(b, t)
      BY <3>1 DEF NoTx
    <3> HIDE DEF t
    <3> QED BY <1>2, <2>1, <3>2 DEF PumpFunSells
  <2>2. CASE PumpSwapSellBuilt(b)
    <3> DEFINE t == [NoTx EXCEPT !.dex = "PumpSwap", !.swap = "sell",
                                 !.amount = Portion(job[b].portion, read[b].amount),
                                 !.close = ClosedFirst(job[b].portion)]
    <3>1. "token" \notin t.creates \cup t.ensures
      BY DEF NoTx
    <3>2. Built(b, t)
      BY <2>2 DEF PumpSwapSellBuilt
    <3> HIDE DEF t
    <3> QED BY <1>2, <2>2, <3>1, <3>2 DEF PumpSwapSellBuilt
  <2>3. CASE PumpSwapSellBegins(b) \/ RpcReads(b) \/ AccountInfoCached(b)
    <3>1. /\ UNCHANGED <<accounts, missing, tx>>
          /\ WALLET_TOKEN_ACCOUNTS \subseteq WALLET_TOKEN_ACCOUNTS'
          /\ \A c \in Builder : Sent(c)' => Sent(c)
      BY <2>3 DEF PumpSwapSellBegins, RpcReads, AccountInfoCached, Sent, TypeOK
    <3> QED BY <3>1 DEF Dead, Creator
  <2>4. CASE PumpSwapSellErr(b)
    <3>1. "token" \notin NoTx.creates \cup NoTx.ensures
      BY DEF NoTx
    <3> QED BY <1>2, <2>4, <3>1 DEF PumpSwapSellErr
  <2> QED BY <1>4, <2>1, <2>2, <2>3, <2>4 DEF SellStep
<1>5. ASSUME NEW b \in Builder, TxExecutes(b) \/ TxLost(b) PROVE Dead'
  <2>1. /\ accounts' \subseteq Opened(tx[b]) \cup accounts /\ Sent(b)
        /\ UNCHANGED <<WALLET_TOKEN_ACCOUNTS, missing>>
        /\ \A c \in Builder : pc'[c] \in {pc[c], "idle"} /\ (Sent(c)' => tx'[c] = tx[c])
    BY <1>5 DEF TxExecutes, TxLost, TxDone, Sent, cacheVars, chainVars, TypeOK
  <2>2. "token" \notin accounts'
    BY <2>1 DEF Dead, Opened, Creator
  <2>3. \A c \in Builder : ~ Creator(c, "token")' /\ "token" \notin missing'[c]
    BY <2>1 DEF Dead, Creator, Sent
  <2> QED BY <1>1, <2>1, <2>2, <2>3 DEF Dead
<1>6. ASSUME Tick \/ ClearExpired \/ UNCHANGED vars PROVE Dead'
  BY <1>6 DEF Tick, ClearExpired, Dead, Creator, Sent, vars, taskVars, chainVars, cacheVars
<1>7. ASSUME WrapSol \/ UnwrapSol \/ CloseAllTokenAccounts PROVE Dead'
  <2>1. UNCHANGED <<WALLET_TOKEN_ACCOUNTS, pc, missing, tx>>
        /\ accounts' \subseteq accounts \cup {"wsol"}
    BY <1>7 DEF WrapSol, UnwrapSol, CloseAllTokenAccounts, taskVars, cacheVars
  <2> QED BY <2>1 DEF Dead, Creator, Sent
<1>8. ~ EngineStops /\ ~ EngineStarts
  BY DEF EngineStops, EngineStarts
<1> QED BY <1>3, <1>4, <1>5, <1>6, <1>7, <1>8 DEF Next, HostStep

\* An account that is listed, not there and opened by nothing stays so for the
\* rest of the run.
THEOREM LostTillRestart == Spec => LostUntilRestart
<1>1. TypeOK /\ [Next]_vars => [running /\ running' /\ Dead => Dead']_vars
  BY DeadStaysDead
<1> QED BY <1>1, BuildTyping, PTL DEF Spec, LostUntilRestart
-----------------------------------------------------------------------------
(* One order at a time *)

\* What an order found missing is still off the list when it gets to list it.
OrdersAlone ==
  /\ doubled = {}
  /\ \A b \in Builder : missing[b] \cap WALLET_TOKEN_ACCOUNTS = {}
  /\ \A b \in Builder : pc[b] # "checked" => missing[b] = {}

LEMMA BuyStepAlone ==
  ASSUME \A b, c \in Builder : b = c, TypeOK, OrdersAlone, NEW b \in Builder, BuyStep(b)
  PROVE  OrdersAlone'
<1>t. /\ missing \in [Builder -> SUBSET Account] /\ pc \in [Builder -> {"idle", "checked",
           "fetching", "read", "joined", "pending", "orphan"}]
      /\ \A c \in Builder : c = b
  BY DEF TypeOK
<1>1. ASSUME NEW j, NEW needed, NEW found, Check(b, j, needed, found) PROVE OrdersAlone'
  BY <1>t, <1>1 DEF Check, OffList, OrdersAlone, historyVars
<1>2. ASSUME NEW dex, NEW state \in {"idle", "pending"}, Checked(b, dex), Free(b, state)
      PROVE  OrdersAlone'
  BY <1>t, <1>2 DEF Checked, ListMissing, Free, OrdersAlone
<1> QED BY <1>1, <1>2 DEF BuyStep, PumpFunBuyChecks, PumpSwapBuyChecks, RaydiumChecks,
           PumpFunBuyBuilt, PumpSwapBuyBuilt, RaydiumBuilt, CheckedErr, Built, BuildErr

LEMMA SellStepAlone ==
  ASSUME \A b, c \in Builder : b = c, TypeOK, OrdersAlone, NEW b \in Builder, SellStep(b)
  PROVE  OrdersAlone'
<1>t. /\ missing \in [Builder -> SUBSET Account] /\ pc \in [Builder -> {"idle", "checked",
           "fetching", "read", "joined", "pending", "orphan"}]
      /\ \A c \in Builder : c = b
  BY DEF TypeOK
<1>1. ASSUME NEW state \in {"idle", "pending"}, Free(b, state),
             UNCHANGED <<WALLET_TOKEN_ACCOUNTS, doubled>>
      PROVE  OrdersAlone'
  BY <1>t, <1>1 DEF Free, OrdersAlone
<1>2. CASE PumpFunSells(b) \/ PumpSwapSellBuilt(b) \/ PumpSwapSellErr(b)
  BY <1>1, <1>2 DEF PumpFunSells, PumpSwapSellBuilt, PumpSwapSellErr, Built, BuildErr,
     cacheVars, historyVars
<1>3. CASE PumpSwapSellBegins(b) \/ RpcReads(b) \/ AccountInfoCached(b)
  <2>1. /\ pc[b] # "checked" /\ missing' = missing /\ doubled' = doubled
        /\ \A c \in Builder : missing[c] = {}
    BY <1>t, <1>3 DEF PumpSwapSellBegins, RpcReads, AccountInfoCached, Idle, OrdersAlone, historyVars
  <2> QED BY <2>1 DEF OrdersAlone
<1> QED BY <1>2, <1>3 DEF SellStep

LEMMA OtherStepAlone ==
  ASSUME Stopped, OrdersAlone,
         \/ \E b \in Builder : TxExecutes(b) \/ TxLost(b)
         \/ Tick \/ ClearExpired \/ HostStep \/ UNCHANGED vars,
         TypeOK
  PROVE  OrdersAlone'
<1>t. pc \in [Builder -> {"idle", "checked", "fetching", "read", "joined", "pending", "orphan"}]
  BY DEF TypeOK
<1>1. ASSUME NEW b \in Builder, TxExecutes(b) \/ TxLost(b) PROVE OrdersAlone'
  BY <1>t, <1>1 DEF TxExecutes, TxLost, TxDone, Sent, OrdersAlone, cacheVars
<1>2. CASE Tick \/ ClearExpired \/ WrapSol \/ UnwrapSol \/ CloseAllTokenAccounts \/ UNCHANGED vars
  BY <1>2 DEF Tick, ClearExpired, WrapSol, UnwrapSol, CloseAllTokenAccounts, OrdersAlone,
     cacheVars, taskVars, historyVars, vars
<1>3. CASE EngineStops
  BY <1>3 DEF EngineStops, OrdersAlone
<1>4. CASE EngineStarts
  <2>1. \A b \in Builder : missing'[b] = {}
    BY <1>4 DEF EngineStarts, taskVars, Stopped, OrdersAlone
  <2> QED BY <1>4, <2>1 DEF EngineStarts, OrdersAlone
<1> QED BY <1>1, <1>2, <1>3, <1>4 DEF HostStep

\* Only orders that overlap list an account twice (pump_fun.rs:242): while they are
\* built one at a time, a creation that is built meets an account that is there
\* only if the list was not read or somebody else opened it.
THEOREM OneOrderAtATime ==
  ASSUME \A b, c \in Builder : b = c
  PROVE  Spec => [](\A b \in Builder : pc[b] = "pending" => tx[b].creates \cap accounts \subseteq unlisted)
<1>1. Init => OrdersAlone
  BY DEF Init, OrdersAlone
<1>2. TypeOK /\ ListInv /\ OrdersAlone /\ [Next]_vars => OrdersAlone'
  BY \A b, c \in Builder : b = c, BuyStepAlone, SellStepAlone, OtherStepAlone DEF Next, ListInv
<1>3. ListInv /\ OrdersAlone =>
        \A b \in Builder : pc[b] = "pending" => tx[b].creates \cap accounts \subseteq unlisted
  BY DEF ListInv, CreatesUnknown, OrdersAlone
<1> QED BY <1>1, <1>2, <1>3, BuildTyping, ListInvariant, PTL DEF Spec
=============================================================================
