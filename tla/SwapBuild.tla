------------------------------ MODULE SwapBuild ------------------------------
(***************************************************************************)
(* From an order to a transaction: the three builders of dex/ for one      *)
(* token, with the caches they decide by and the accounts on the chain     *)
(* their transactions then meet.                                           *)
(*                                                                         *)
(* WALLET_TOKEN_ACCOUNTS says which token accounts the wallet has.  It is  *)
(* read at the start of a run, an account joins it when the instruction    *)
(* that creates it is built, long before that lands if it ever does, and   *)
(* nothing leaves it: neither an account that a sale closes nor one whose  *)
(* creation is lost.  A PumpFun buy puts in the creation only for an       *)
(* account off the list, and that creation fails on one that exists.       *)
(*                                                                         *)
(* FR_TOKEN_ACCOUNT_CACHE gives a PumpSwap sale the balance it sells.      *)
(*                                                                         *)
(* A run of the bot may end at any time; what it sent lands later or not.  *)
(* The token trades on PumpFun and, later, PumpSwap, or on the launchpad.  *)
(***************************************************************************)
EXTENDS Integers

CONSTANTS
  Builder,                \* slots: orders of the token being built or sent
  Ttl,                    \* life of an entry of FR_TOKEN_ACCOUNT_CACHE (60 s)
  RpcTicks,               \* time-out of an RPC (30 s)
  Lamports,               \* swap_config.amount_in of a buy
  Reserves,               \* <<virtual_sol_reserves, virtual_token_reserves>>
  MaxTokens               \* bound: units of the token in the wallet

ASSUME SwapBuildAssumption ==
  /\ Ttl \in Nat /\ RpcTicks \in Nat
  /\ Lamports \in Nat \ {0}
  /\ Reserves \subseteq Nat \X Nat
  /\ MaxTokens \in Nat

VARIABLES
  venue,                  \* where the token trades
  running,                \* a run of the bot is on
  WALLET_TOKEN_ACCOUNTS,
  FR_TOKEN_ACCOUNT_CACHE, \* the entry of the token's account, if there is one
  pc, job, missing,       \* an order; the accounts its builder is to create
  read, waited,           \* the account a PumpSwap sale got; time it has waited
  tx,                     \* what was built
  accounts, tokens,       \* chain: the wallet's accounts, units of the token
  gone, unlisted, doubled  \* history of this run, of accounts

cacheVars   == <<WALLET_TOKEN_ACCOUNTS, FR_TOKEN_ACCOUNT_CACHE>>
taskVars    == <<pc, job, missing, read, waited, tx>>
chainVars   == <<accounts, tokens>>
historyVars == <<gone, unlisted, doubled>>
vars == <<venue, running, cacheVars, taskVars, chainVars, historyVars>>

Account == {"token", "wsol"}
Dex  == {"PumpFun", "PumpSwap", "RaydiumLaunchpad"}
Job  == [dex : Dex, side : {"buy", "sell"}, portion : {"full", "half"}]
Read == [amount : Nat, age : Nat]
Tx   == [dex : Dex, creates : SUBSET Account, ensures : SUBSET Account,
         swap : {"none", "buy", "sell"}, amount : Nat,
         close : {"none", "before", "after"}]

NoJob  == [dex |-> "PumpFun", side |-> "buy", portion |-> "full"]
NoRead == [amount |-> 0, age |-> 0]
NoTx   == [dex |-> "PumpFun", creates |-> {}, ensures |-> {}, swap |-> "none",
           amount |-> 0, close |-> "none"]

TypeOK ==
  /\ venue \in {"pump", "launchpad"} /\ running \in BOOLEAN
  /\ WALLET_TOKEN_ACCOUNTS \subseteq Account
  /\ FR_TOKEN_ACCOUNT_CACHE \subseteq [amount : Nat, age : Nat, left : Int]
  /\ \A e, f \in FR_TOKEN_ACCOUNT_CACHE : e = f
  /\ pc \in [Builder -> {"idle", "checked", "fetching", "read", "joined",
                         "pending", "orphan"}]
  /\ job \in [Builder -> Job] /\ missing \in [Builder -> SUBSET Account]
  /\ read \in [Builder -> Read] /\ waited \in [Builder -> Nat]
  /\ tx \in [Builder -> Tx]
  /\ accounts \subseteq Account /\ tokens \in 0..MaxTokens
  /\ gone \subseteq Account /\ unlisted \subseteq Account /\ doubled \subseteq Account

\* Before the first run: a wallet that may hold wrapped SOL.
Init ==
  /\ venue \in {"pump", "launchpad"} /\ running = FALSE
  /\ WALLET_TOKEN_ACCOUNTS = {} /\ FR_TOKEN_ACCOUNT_CACHE = {}
  /\ pc = [b \in Builder |-> "idle"]
  /\ job = [b \in Builder |-> NoJob] /\ missing = [b \in Builder |-> {}]
  /\ read = [b \in Builder |-> NoRead] /\ waited = [b \in Builder |-> 0]
  /\ tx = [b \in Builder |-> NoTx]
  /\ accounts \in {{}, {"wsol"}} /\ tokens = 0
  /\ gone = {} /\ unlisted = {} /\ doubled = {}
-----------------------------------------------------------------------------
(* Amounts *)

\* fr_calculate_buy_token_amount: the constant product, rounded down.
TokensOut(sol, reserves) ==
  IF sol = 0 \/ reserves[1] = 0 \/ reserves[2] = 0
    THEN 0
    ELSE (sol * reserves[2]) \div (reserves[1] + sol)

Portion(portion, balance) ==
  IF portion = "full" THEN balance ELSE balance \div 2

\* PumpFun and Raydium sell at least one unit, PumpSwap may come to nothing.
AtLeastOne(amount) == IF amount > 1 THEN amount ELSE 1

\* Mutant: entries do not expire.
NeverExpired(entry) == FALSE

\* FrCacheentry: an entry is good up to and with its last instant.
Entry(account) == [amount |-> account.amount, age |-> account.age, left |-> Ttl]
IsExpired(entry) == entry.left < 0

\* Mutant: an entry is put beside the one that is there.
InsertedBeside(entry) == FR_TOKEN_ACCOUNT_CACHE \cup {entry}

Inserted(entry) == {entry}

Fetched ==
  {[amount |-> e.amount, age |-> e.age] :
     e \in {f \in FR_TOKEN_ACCOUNT_CACHE : ~ IsExpired(f)}}

Aged(entry) ==
  IF IsExpired(entry)
    THEN entry
    ELSE [amount |-> entry.amount, age |-> entry.age + 1, left |-> entry.left - 1]
-----------------------------------------------------------------------------
(* The builders *)

Idle(b) == running /\ pc[b] = "idle"

Free(b, state) ==
  /\ pc' = [pc EXCEPT ![b] = state]
  /\ job' = [job EXCEPT ![b] = NoJob]
  /\ missing' = [missing EXCEPT ![b] = {}]
  /\ read' = [read EXCEPT ![b] = NoRead]
  /\ waited' = [waited EXCEPT ![b] = 0]

\* The builder returns instructions; they are signed and sent at once.
Built(b, t) == Free(b, "pending") /\ tx' = [tx EXCEPT ![b] = t]
BuildErr(b) == Free(b, "idle") /\ UNCHANGED tx

\* Mutant: the list is not asked.
AllOf(needed, known) == needed

OffList(needed, known) == needed \ known

\* Which of the accounts the builder takes for missing.  PumpFun goes by the
\* list alone; the others ask for what is off the list, list what they find,
\* and take an error for "does not exist".
Check(b, j, needed, found) ==
  /\ Idle(b)
  /\ WALLET_TOKEN_ACCOUNTS' = WALLET_TOKEN_ACCOUNTS \cup found
  /\ missing' = [missing EXCEPT ![b] = OffList(needed, WALLET_TOKEN_ACCOUNTS \cup found)]
  /\ pc' = [pc EXCEPT ![b] = "checked"]
  /\ job' = [job EXCEPT ![b] = j]
  /\ UNCHANGED <<venue, running, FR_TOKEN_ACCOUNT_CACHE, read, waited, tx,
                 chainVars, historyVars>>

Found(needed) == SUBSET ((needed \cap accounts) \ WALLET_TOKEN_ACCOUNTS)

PumpFunBuyChecks(b) ==
  /\ venue = "pump"
  /\ Check(b, [NoJob EXCEPT !.dex = "PumpFun"], {"token"}, {})

PumpSwapBuyChecks(b) ==
  /\ venue = "pump"
  /\ \E found \in Found({"token"}) :
       Check(b, [NoJob EXCEPT !.dex = "PumpSwap"], {"token"}, found)

RaydiumChecks(b) ==
  /\ venue = "launchpad"
  /\ \E side \in {"buy", "sell"}, portion \in {"full", "half"}, found \in Found(Account) :
       /\ side = "buy" => portion = "full"
       /\ Check(b, [dex |-> "RaydiumLaunchpad", side |-> side, portion |-> portion],
                Account, found)

\* Mutant: what is to be created is not listed.
NotListed(b) == UNCHANGED <<WALLET_TOKEN_ACCOUNTS, doubled>>

\* What is to be created is listed.  fr_insert says whether it was there by
\* now, put in by another order that found it missing too; nobody looks.
ListMissing(b) ==
  /\ WALLET_TOKEN_ACCOUNTS' = WALLET_TOKEN_ACCOUNTS \cup missing[b]
  /\ doubled' = doubled \cup (missing[b] \cap WALLET_TOKEN_ACCOUNTS)

Checked(b, dex) ==
  /\ running /\ pc[b] = "checked" /\ job[b].dex = dex
  /\ ListMissing(b)
  /\ UNCHANGED <<venue, running, FR_TOKEN_ACCOUNT_CACHE, chainVars, unlisted>>

\* A buy of no tokens at all still opens the account.
PumpFunBuyBuilt(b) ==
  /\ Checked(b, "PumpFun")
  /\ \E r \in Reserves :
       LET out == TokensOut(Lamports, r) IN
       /\ missing[b] # {} \/ out > 0
       /\ Built(b, [NoTx EXCEPT !.dex = "PumpFun", !.creates = missing[b],
                                !.swap = IF out > 0 THEN "buy" ELSE "none",
                                !.amount = out])
  /\ UNCHANGED gone

PumpSwapBuyBuilt(b) ==
  /\ Checked(b, "PumpSwap")
  /\ \E r \in Reserves :
       /\ TokensOut(Lamports, r) > 0
       /\ Built(b, [NoTx EXCEPT !.dex = "PumpSwap", !.ensures = missing[b],
                                !.swap = "buy", !.amount = TokensOut(Lamports, r)])
  /\ UNCHANGED gone

\* Of a buy the launchpad's minimum of one unit is all that is known; the
\* balance of a sale is asked for when its accounts have been seen to.
RaydiumBuilt(b) ==
  /\ Checked(b, "RaydiumLaunchpad")
  /\ job[b].side = "sell" => "token" \in accounts
  /\ Built(b, [NoTx EXCEPT !.dex = "RaydiumLaunchpad", !.ensures = missing[b],
                 !.swap = job[b].side,
                 !.amount = IF job[b].side = "buy"
                              THEN 1
                              ELSE AtLeastOne(Portion(job[b].portion, tokens))])
  /\ UNCHANGED gone

\* Errors after the listing: PumpFun without a creator or with nothing to do,
\* PumpSwap with an amount of zero, Raydium without its balance or its pool.
CheckedErr(b) ==
  /\ \E dex \in Dex :
       /\ Checked(b, dex)
       /\ dex = "PumpSwap" => \E r \in Reserves : TokensOut(Lamports, r) = 0
  /\ BuildErr(b)
  /\ gone' = (gone \cup missing[b]) \ accounts

\* A full sale closes the account, in PumpSwap's instructions before the swap,
\* in PumpFun's after it.
ClosedFirst(portion) == IF portion = "full" THEN "before" ELSE "none"

ClosedLast(portion) == IF portion = "full" THEN "after" ELSE "none"

\* As of the moment the RPC reads the balance.  An account off the list, or
\* none, is an error that changes nothing.
PumpFunSells(b) ==
  /\ Idle(b) /\ venue = "pump"
  /\ "token" \in WALLET_TOKEN_ACCOUNTS \cap accounts
  /\ \E portion \in {"full", "half"} :
       Built(b, [NoTx EXCEPT !.dex = "PumpFun", !.swap = "sell",
                             !.amount = AtLeastOne(Portion(portion, tokens)),
                             !.close = ClosedLast(portion)])
  /\ UNCHANGED <<venue, running, cacheVars, chainVars, historyVars>>

\* The account comes from the cache or from an RPC; the mint is asked for at the
\* same time (try_join), so an order waits for both at once.
PumpSwapSellBegins(b) ==
  /\ Idle(b) /\ venue = "pump"
  /\ "token" \in WALLET_TOKEN_ACCOUNTS \cup accounts
  /\ WALLET_TOKEN_ACCOUNTS' = WALLET_TOKEN_ACCOUNTS \cup {"token"}
  /\ \E portion \in {"full", "half"} :
       job' = [job EXCEPT ![b] = [dex |-> "PumpSwap", side |-> "sell", portion |-> portion]]
  /\ \/ /\ Fetched = {}
        /\ pc' = [pc EXCEPT ![b] = "fetching"] /\ UNCHANGED read
     \/ \E account \in Fetched :
          /\ pc' = [pc EXCEPT ![b] = "joined"]
          /\ read' = [read EXCEPT ![b] = account]
  /\ UNCHANGED <<venue, running, FR_TOKEN_ACCOUNT_CACHE, missing, waited, tx,
                 chainVars, historyVars>>

\* The RPC node looks at the chain; its answer is on the way.
RpcReads(b) ==
  /\ running /\ pc[b] = "fetching" /\ "token" \in accounts
  /\ read' = [read EXCEPT ![b] = [amount |-> tokens, age |-> 0]]
  /\ pc' = [pc EXCEPT ![b] = "read"]
  /\ UNCHANGED <<venue, running, cacheVars, job, missing, waited, tx, chainVars, historyVars>>

\* The answer: it overwrites an entry that is there by now.
AccountInfoCached(b) ==
  /\ running /\ pc[b] = "read"
  /\ FR_TOKEN_ACCOUNT_CACHE' = Inserted(Entry(read[b]))
  /\ pc' = [pc EXCEPT ![b] = "joined"]
  /\ UNCHANGED <<venue, running, WALLET_TOKEN_ACCOUNTS, job, missing, read, waited, tx,
                 chainVars, historyVars>>

\* Account and mint are there.  A full sale pushes the closing of the account
\* and then the swap, whatever the price: min_quote_amount_out is 0.
PumpSwapSellBuilt(b) ==
  /\ running /\ pc[b] = "joined"
  /\ LET amount == Portion(job[b].portion, read[b].amount) IN
       /\ amount > 0
       /\ Built(b, [NoTx EXCEPT !.dex = "PumpSwap", !.swap = "sell", !.amount = amount,
                                !.close = ClosedFirst(job[b].portion)])
  /\ UNCHANGED <<venue, running, cacheVars, chainVars, historyVars>>

\* No account, an RPC error or time-out, no mint, or nothing to sell.
PumpSwapSellErr(b) ==
  /\ running /\ pc[b] \in {"fetching", "read", "joined"}
  /\ BuildErr(b)
  /\ UNCHANGED <<venue, running, cacheVars, chainVars, historyVars>>
-----------------------------------------------------------------------------
(* The chain *)

\* Accounts a swap writes to: PumpFun pays from the wallet itself.
Needs(t) ==
  CASE t.swap = "none"   -> {}
    [] t.dex = "PumpFun" -> {"token"}
    [] OTHER             -> Account

Opened(t) == accounts \cup t.creates \cup t.ensures

\* create_associated_token_account fails on an account that exists, the
\* idempotent one does not; an account is closed only when it is empty; and
\* one instruction that fails undoes them all.
Lands(t) ==
  /\ t.creates \cap accounts = {}
  /\ t.close = "before" => "token" \in Opened(t) /\ tokens = 0
  /\ Needs(t) \subseteq (IF t.close = "before" THEN Opened(t) \ {"token"} ELSE Opened(t))
  /\ t.swap = "sell" => t.amount <= tokens
  /\ t.close = "after" => t.amount = tokens

Received(t) == IF t.dex = "RaydiumLaunchpad" THEN t.amount..MaxTokens ELSE {t.amount}

\* For the history: accounts of the list that are closed or whose creation is
\* lost, until they are there again; accounts that come without this run's doing.
Gone(A)    == gone' = (gone \cup (A \cap WALLET_TOKEN_ACCOUNTS)) \ accounts'
Foreign(A) == unlisted' = IF running THEN unlisted \cup A ELSE unlisted

Sent(b) == pc[b] \in {"pending", "orphan"}

TxDone(b) == pc' = [pc EXCEPT ![b] = "idle"] /\ tx' = [tx EXCEPT ![b] = NoTx]

\* What a former run sent opens accounts this run does not know of.
TxExecutes(b) ==
  /\ Sent(b) /\ Lands(tx[b])
  /\ accounts' = IF tx[b].close = "none" THEN Opened(tx[b]) ELSE Opened(tx[b]) \ {"token"}
  /\ CASE tx[b].swap = "none" -> UNCHANGED tokens
       [] tx[b].swap = "sell" -> tokens' = tokens - tx[b].amount
       [] tx[b].swap = "buy"  -> \E n \in Received(tx[b]) :
                                   tokens + n <= MaxTokens /\ tokens' = tokens + n
  /\ Gone(Opened(tx[b]) \ accounts')
  /\ Foreign(IF pc[b] = "orphan" THEN Opened(tx[b]) \ accounts ELSE {})
  /\ TxDone(b)
  /\ UNCHANGED <<venue, running, cacheVars, job, missing, read, waited, doubled>>

\* No blockhash, refused, dropped, or failed in a block.
TxLost(b) ==
  /\ Sent(b)
  /\ UNCHANGED <<venue, running, cacheVars, job, missing, read, waited, chainVars,
                 unlisted, doubled>>
  /\ Gone(IF pc[b] = "pending" THEN tx[b].creates \cup tx[b].ensures ELSE {})
  /\ TxDone(b)
-----------------------------------------------------------------------------
(* Time, runs of the bot, and the host's commands *)

Waiting(b) == pc[b] \in {"fetching", "read", "joined"}

\* An RPC is answered, or times out, within RpcTicks.
Tick ==
  /\ running
  /\ \A b \in Builder : Waiting(b) => waited[b] < RpcTicks
  /\ FR_TOKEN_ACCOUNT_CACHE' = {Aged(e) : e \in FR_TOKEN_ACCOUNT_CACHE}
  /\ waited' = [b \in Builder |-> IF Waiting(b) THEN waited[b] + 1 ELSE waited[b]]
  /\ read' = [b \in Builder |->
                IF pc[b] \in {"read", "joined"} THEN [read[b] EXCEPT !.age = @ + 1] ELSE read[b]]
  /\ UNCHANGED <<venue, running, WALLET_TOKEN_ACCOUNTS, pc, job, missing, tx,
                 chainVars, historyVars>>

\* The maintenance task, every 60 s.
ClearExpired ==
  /\ running
  /\ FR_TOKEN_ACCOUNT_CACHE' = {e \in FR_TOKEN_ACCOUNT_CACHE : ~ IsExpired(e)}
  /\ UNCHANGED <<venue, running, WALLET_TOKEN_ACCOUNTS, taskVars, chainVars, historyVars>>

\* The process ends; some of what it built has been sent.
EngineStops ==
  /\ running /\ running' = FALSE
  /\ WALLET_TOKEN_ACCOUNTS' = {} /\ FR_TOKEN_ACCOUNT_CACHE' = {}
  /\ \E sent \in SUBSET {b \in Builder : pc[b] = "pending"} :
       LET orphan == sent \cup {b \in Builder : pc[b] = "orphan"} IN
       /\ pc' = [b \in Builder |-> IF b \in orphan THEN "orphan" ELSE "idle"]
       /\ tx' = [b \in Builder |-> IF b \in orphan THEN tx[b] ELSE NoTx]
  /\ job' = [b \in Builder |-> NoJob] /\ missing' = [b \in Builder |-> {}]
  /\ read' = [b \in Builder |-> NoRead] /\ waited' = [b \in Builder |-> 0]
  /\ gone' = {} /\ unlisted' = {} /\ doubled' = {}
  /\ UNCHANGED <<venue, chainVars>>

\* Mutant: a run starts without asking for the wallet's accounts.
ListNotRead == WALLET_TOKEN_ACCOUNTS' = {} /\ unlisted' = {}

\* fr_initialize_token_account_list; after an error the run goes on without.
ListRead ==
  \/ WALLET_TOKEN_ACCOUNTS' = accounts /\ unlisted' = {}
  \/ WALLET_TOKEN_ACCOUNTS' = {} /\ unlisted' = accounts

EngineStarts ==
  /\ ~ running /\ running' = TRUE
  /\ ListRead
  /\ UNCHANGED <<venue, FR_TOKEN_ACCOUNT_CACHE, taskVars, chainVars, gone, doubled>>

\* --wrap, --unwrap and --close are processes of their own: a run of the bot
\* may be on, and hears nothing of them.
WrapSol ==
  /\ accounts' = accounts \cup {"wsol"}
  /\ Gone({}) /\ Foreign({"wsol"} \ accounts)
  /\ UNCHANGED <<venue, running, cacheVars, taskVars, tokens, doubled>>

UnwrapSol ==
  /\ "wsol" \in accounts
  /\ accounts' = accounts \ {"wsol"}
  /\ Gone({"wsol"})
  /\ UNCHANGED <<venue, running, cacheVars, taskVars, tokens, unlisted, doubled>>

\* One account after the other, and a failure does not end it; an account with
\* tokens does not close.
CloseAllTokenAccounts ==
  /\ \E S \in SUBSET accounts :
       /\ "token" \in S => tokens = 0
       /\ accounts' = accounts \ S
       /\ Gone(S)
  /\ UNCHANGED <<venue, running, cacheVars, taskVars, tokens, unlisted, doubled>>

BuyStep(b) ==
  \/ PumpFunBuyChecks(b) \/ PumpSwapBuyChecks(b) \/ RaydiumChecks(b)
  \/ PumpFunBuyBuilt(b) \/ PumpSwapBuyBuilt(b) \/ RaydiumBuilt(b) \/ CheckedErr(b)

SellStep(b) ==
  \/ PumpFunSells(b)
  \/ PumpSwapSellBegins(b) \/ RpcReads(b) \/ AccountInfoCached(b)
  \/ PumpSwapSellBuilt(b) \/ PumpSwapSellErr(b)

HostStep == EngineStops \/ EngineStarts \/ WrapSol \/ UnwrapSol \/ CloseAllTokenAccounts

Next ==
  \/ \E b \in Builder : BuyStep(b) \/ SellStep(b) \/ TxExecutes(b) \/ TxLost(b)
  \/ Tick \/ ClearExpired \/ HostStep

Spec == Init /\ [][Next]_vars
-----------------------------------------------------------------------------
(* Properties *)

\* A transaction that is to open the account.
Creator(b, a) == Sent(b) /\ a \in tx[b].creates \cup tx[b].ensures

\* An account on the list is on the chain, or its creation is on the way or was
\* lost, or it was closed in this run.
KnownIsThere ==
  \A a \in WALLET_TOKEN_ACCOUNTS \ accounts :
    \/ a \in gone
    \/ \E b \in Builder : pc[b] = "pending" /\ Creator(b, a)

\* An account on the chain is on the list of a run, unless the list was not
\* read or somebody else opened it since.
ThereIsKnown ==
  running => accounts \ WALLET_TOKEN_ACCOUNTS \subseteq unlisted

\* The list of token accounts against the chain (pump_fun.rs:229,
\* pump_swap.rs:263, raydium_launchpad.rs:178, main.rs:36): where the two differ
\* there is a reason in this run, an account listed for a creation that was lost,
\* closed by a sale or by the host, or opened behind the bot's back.
ListIsExplained == KnownIsThere /\ ThereIsKnown

\* Why a buy on its way may find its accounts otherwise than its builder left
\* them (pump_fun.rs:229): the creation its builder relied on is missing, lost
\* or undone, or it is to create one that is there, since the list did not
\* have it or two orders found it missing at once.  PumpSwap never asks for
\* wrapped SOL.
BuyFailureExplained ==
  \A b \in Builder :
    LET t == tx[b]
        absent == Needs(t) \ Opened(t)
        there  == t.creates \cap accounts
    IN pc[b] = "pending" /\ t.swap = "buy" =>
         /\ \A a \in absent :
              \/ a \in gone
              \/ \E c \in Builder : pc[c] = "pending" /\ Creator(c, a)
              \/ a = "wsol" /\ t.dex = "PumpSwap"
         /\ there \subseteq unlisted \cup doubled

\* A sale of exactly what there is, with its accounts there, goes through
\* (pump_fun.rs:382: swap, then close), but for a full one on PumpSwap.
SaleLands(t) == t.swap = "sell" /\ t.amount = tokens /\ Needs(t) \subseteq accounts => Lands(t)
MatchingSaleLands ==
  \A b \in Builder :
    Sent(b) /\ ~ (tx[b].dex = "PumpSwap" /\ tx[b].close # "none") => SaleLands(tx[b])

\* "this ensures must sell" (pump_swap.rs:354): a sale of exactly what there is
\* goes through, on PumpSwap too.
EnsuresMustSell == \A b \in Builder : Sent(b) => SaleLands(tx[b])

\* The balance a PumpSwap sale goes by (token.rs:36): cached by an RPC that took
\* its time, kept for Ttl, and used after one more wait, it is at most so old.
AmountIsRecent ==
  \A b \in Builder : pc[b] = "joined" => read[b].age <= Ttl + 2 * RpcTicks

\* Listed, not there, and nothing on the way that opens it.
Dead ==
  /\ "token" \in WALLET_TOKEN_ACCOUNTS \ accounts
  /\ \A b \in Builder : ~ Creator(b, "token") /\ "token" \notin missing[b]

\* No order of the run brings such an account back (pump_fun.rs:229,
\* pump_swap.rs:383): only the next run can buy the token.
LostUntilRestart == [][running /\ running' /\ Dead => Dead']_vars
=============================================================================
